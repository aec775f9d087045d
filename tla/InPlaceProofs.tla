---------------------------- MODULE InPlaceProofs ----------------------------
(***************************************************************************)
(* The rebuild, for every stick, every plan and every place where a run is *)
(* killed.  Backup first: what a run discovers is in its plan, so it is in *)
(* the backup before the first file is moved, and only the next run writes *)
(* to the backup again.  Then the run itself: the places it gives out are  *)
(* its own, and a checkpoint left by a killed run is taken up only where   *)
(* it describes the files in sight.                                        *)
(***************************************************************************)
EXTENDS InPlaceRebuild, FiniteSetTheorems, TLAPS

LEMMA FinitePaths == IsFiniteSet(Paths)
<1>1. Cardinality(Tracks) \in Nat
    BY TracksAssumption, FS_CardinalityType
<1>2. IsFiniteSet(0..Cardinality(Tracks))
    BY <1>1, FS_Interval
<1> QED
    BY <1>2, StemsAssumption, FS_Product DEF Paths

\* Before orders the paths.
LEMMA BeforeIsOrder ==
    ASSUME NEW p \in Paths, NEW q \in Paths, NEW r \in Paths
    PROVE  /\ ~Before(p, p)
           /\ p # q => Before(p, q) \/ Before(q, p)
           /\ Before(p, q) /\ Before(q, r) => Before(p, r)
<1>1. Cardinality(Tracks) \in Nat
    BY TracksAssumption, FS_CardinalityType
<1>2. \A x \in Paths : x[1] \in Nat /\ x[2] \in Nat /\ x = <<x[1], x[2]>>
  <2> DEFINE indices == 0..Cardinality(Tracks)
  <2>1. \A x \in indices \X Stems :
           x[1] \in indices /\ x[2] \in Stems /\ x = <<x[1], x[2]>>
    <3> HIDE DEF indices
    <3> QED
        OBVIOUS
  <2>2. indices \subseteq Nat /\ Stems \subseteq Nat
      BY <1>1, StemsAssumption
  <2>3. Paths = indices \X Stems
      BY DEF Paths
  <2> HIDE DEF indices
  <2> QED
      BY <2>1, <2>2, <2>3, Zenon
<1>3. ~Before(p, p)
    BY <1>2 DEF Before
<1>4. p # q => Before(p, q) \/ Before(q, p)
  <2>1. p # q => p[1] # q[1] \/ p[2] # q[2]
      BY <1>2, Zenon
  <2> QED
      BY <1>2, <2>1 DEF Before
<1>5. Before(p, q) /\ Before(q, r) => Before(p, r)
    BY <1>2 DEF Before
<1> QED
    BY <1>3, <1>4, <1>5

\* The rank of a path among paths, from 0.
Rank(ps, p) == Cardinality({q \in ps : Before(q, p)})

LEMMA RankType ==
    ASSUME NEW ps \in SUBSET Paths, NEW p \in ps
    PROVE  Rank(ps, p) \in Nat /\ Rank(ps, p) < Cardinality(ps)
<1> DEFINE below == {q \in ps : Before(q, p)}
<1>1. IsFiniteSet(ps)
    BY FinitePaths, FS_Subset
<1>2. below \in SUBSET ps /\ p \notin below
    BY BeforeIsOrder
<1>3. /\ IsFiniteSet(below)
      /\ Cardinality(below) <= Cardinality(ps)
      /\ Cardinality(ps) = Cardinality(below) => ps = below
    BY <1>1, <1>2, FS_Subset
<1>4. Cardinality(below) \in Nat /\ Cardinality(ps) \in Nat
    BY <1>1, <1>3, FS_CardinalityType
<1> QED
    BY <1>2, <1>3, <1>4 DEF Rank

\* A path that comes before another one has fewer paths before it.
LEMMA RankGrows ==
    ASSUME NEW ps \in SUBSET Paths, NEW p \in ps, NEW q \in ps, Before(p, q)
    PROVE  Rank(ps, p) < Rank(ps, q)
<1> DEFINE below == {r \in ps : Before(r, p)}
           above == {r \in ps : Before(r, q)}
<1>1. IsFiniteSet(above)
    BY FinitePaths, FS_Subset
<1>2. below \in SUBSET above /\ p \in above /\ p \notin below
    BY BeforeIsOrder
<1>3. /\ Cardinality(below) <= Cardinality(above)
      /\ Cardinality(above) = Cardinality(below) => above = below
    BY <1>1, <1>2, FS_Subset
<1> QED
    BY <1>2, <1>3, RankType DEF Rank

\* Every discovered path is in the plan.
LEMMA SortedCovers ==
    ASSUME NEW ps \in SUBSET Paths, NEW p \in ps
    PROVE  \E i \in 1..Cardinality(ps) : Sorted(ps)[i] = p
<1> DEFINE i == Rank(ps, p) + 1
<1>1. Cardinality(ps) \in Nat /\ Rank(ps, p) \in Nat
    BY FinitePaths, FS_Subset, FS_CardinalityType, RankType
<1>2. i \in 1..Cardinality(ps)
    BY <1>1, RankType
<1>3. Sorted(ps)[i] = CHOOSE q \in ps : Rank(ps, q) = i - 1
    BY <1>2 DEF Sorted, Rank
<1>4. \A q \in ps : Rank(ps, q) = Rank(ps, p) => q = p
  <2>1. SUFFICES ASSUME NEW q \in ps, q # p
                 PROVE  Rank(ps, q) # Rank(ps, p)
      OBVIOUS
  <2>2. Before(p, q) \/ Before(q, p)
      BY <2>1, BeforeIsOrder
  <2>3. Rank(ps, p) \in Nat /\ Rank(ps, q) \in Nat
      BY RankType
  <2> QED
      BY <2>2, <2>3, RankGrows
<1>5. i - 1 = Rank(ps, p)
    BY <1>1
<1>6. (CHOOSE q \in ps : Rank(ps, q) = Rank(ps, p)) = p
    BY <1>4
<1> QED
    BY <1>2, <1>3, <1>5, <1>6

-----------------------------------------------------------------------------
(***************************************************************************)
(* During the backup the plan covers what was found, and the entries       *)
(* before k are copied; from then on the backup holds it all.              *)
(***************************************************************************)
PlanCovers ==
    pc = "backup" =>
        /\ Len(plan) \in Nat
        /\ k \in 1..Len(plan) + 1
        /\ \A t \in found : \E i \in 1..Len(plan) :
              plan[i] \in Paths /\ stick[plan[i]] = t
        /\ \A i \in 1..k - 1 : plan[i] \in Paths => backup[plan[i]] = stick[plan[i]]

BackedUp == pc \notin {"idle", "backup"} => \A t \in found : Holds(backup, t)

BInv == /\ DOMAIN backup = Paths
        /\ PlanCovers
        /\ BackedUp
        /\ BackupFirst

LEMMA InitBInv == Init => BInv
BY DEF Init, Nothing, BInv, PlanCovers, BackedUp, BackupFirst

LEMMA StartBInv == BInv /\ StartRebuild => BInv'
<1> SUFFICES ASSUME BInv, StartRebuild PROVE BInv'
    OBVIOUS
<1>1. Discovered \in SUBSET Paths
    BY DEF Discovered
<1>2. Cardinality(Discovered) \in Nat
    BY <1>1, FinitePaths, FS_Subset, FS_CardinalityType
<1>3. Len(plan') = Cardinality(Discovered)
    BY <1>2 DEF StartRebuild, Sorted
<1>4. \A t \in found' : \E p \in Discovered : stick[p] = t
    BY ContentAssumption DEF StartRebuild, Holds, Discovered
<1>5. \A t \in found' : \E i \in 1..Len(plan') : plan'[i] \in Paths /\ stick'[plan'[i]] = t
  <2> TAKE t \in found'
  <2>1. PICK p \in Discovered : stick[p] = t
      BY <1>4
  <2>2. PICK i \in 1..Cardinality(Discovered) : Sorted(Discovered)[i] = p
      BY <1>1, SortedCovers
  <2>3. i \in 1..Len(plan')
      BY <1>3
  <2>4. plan'[i] \in Paths /\ stick'[plan'[i]] = t
      BY <1>1, <2>1, <2>2 DEF StartRebuild
  <2> QED
      BY <2>3, <2>4
<1>6. PlanCovers' /\ BackedUp'
    BY <1>2, <1>3, <1>5 DEF StartRebuild, PlanCovers, BackedUp
<1>7. BackupFirst'
    BY DEF StartRebuild, BackupFirst, Holds
<1> QED
    BY <1>6, <1>7 DEF StartRebuild, BInv

LEMMA BackupBInv == BInv /\ (BackupFile \/ OpenSession) => BInv'
<1> SUFFICES ASSUME BInv, BackupFile \/ OpenSession PROVE BInv'
    OBVIOUS
<1> USE DEF BInv, PlanCovers, BackedUp, BackupFirst, Holds
<1>1. CASE BackupFile
    BY <1>1 DEF BackupFile, Put
<1>2. CASE OpenSession
  <2>1. \A t \in found : \E p \in Paths : backup[p] = t
      BY <1>2 DEF OpenSession
  <2> QED
      BY <1>2, <2>1 DEF OpenSession
<1> QED
    BY <1>1, <1>2

\* The steps after the backup write to the stick and to tmp only.
LEMMA WorkBInv ==
    ASSUME BInv, pc \notin {"idle", "backup"}, pc' # "backup",
           UNCHANGED <<backup, found>>
    PROVE  BInv'
BY DEF BInv, PlanCovers, BackedUp, BackupFirst, Holds

LEMMA AbortBInv == BInv /\ Abort => BInv'
<1> SUFFICES ASSUME BInv, Abort PROVE BInv'
    OBVIOUS
<1>1. pc' = "idle" /\ UNCHANGED <<stick, found>> /\ DOMAIN backup' = Paths
    BY DEF Abort, Stop, Put, BInv
<1>2. CASE pc = "backup"
  <2>1. \A t \in found : Holds(stick, t)
      BY <1>2 DEF BInv, PlanCovers, Holds
  <2> QED
      BY <1>1, <2>1 DEF BInv, PlanCovers, BackedUp, BackupFirst, Holds
<1>3. CASE pc # "backup"
    BY <1>3, WorkBInv DEF Abort, Stop
<1> QED
    BY <1>2, <1>3

LEMMA StepBInv == BInv /\ [Next]_vars => BInv'
<1> SUFFICES ASSUME BInv, [Next]_vars PROVE BInv'
    OBVIOUS
<1>1. CASE RebuildNothing
    BY <1>1 DEF RebuildNothing, BInv, PlanCovers, BackedUp, BackupFirst
<1>2. CASE SkipEntry \/ StageEntry \/ FinishStaging
    BY <1>2, WorkBInv DEF SkipEntry, StageEntry, FinishStaging
<1>3. CASE SkipPlaced \/ PlaceClean \/ BeginEncode \/ EncodeOk
    BY <1>3, WorkBInv DEF SkipPlaced, PlaceClean, BeginEncode, EncodeOk
<1>4. CASE ProcessingFails \/ RemoveTemp \/ Finalize
    BY <1>4, WorkBInv DEF ProcessingFails, RemoveTemp, Finalize, Stop
<1>5. CASE UNCHANGED vars
    BY <1>5 DEF vars, BInv, PlanCovers, BackedUp, BackupFirst, Holds
<1> QED
    BY <1>1, <1>2, <1>3, <1>4, <1>5, StartBInv, BackupBInv, AbortBInv DEF Next

(***************************************************************************)
(* Every track a rebuild discovers is whole on the stick or in the backup  *)
(* until the next rebuild starts, wherever this one is killed              *)
(* (orchestrator.rs provision_usb_in_place_rebuild, step 2.5).             *)
(***************************************************************************)
THEOREM BackupFirstSafe == Spec => []BackupFirst
<1>1. BInv /\ [Next]_vars => BInv'
    BY StepBInv
<1>2. BInv => BackupFirst
    BY DEF BInv
<1> QED
    BY InitBInv, <1>1, <1>2, PTL DEF Spec
-----------------------------------------------------------------------------
(***************************************************************************)
(* Numbered paths: the indices are those of 1..n, each at most once.       *)
(***************************************************************************)
Numbered(ps, n) ==
    \A p \in ps : p[1] \in 1..n /\ \A q \in ps : p[1] = q[1] => p = q

LEMMA PathFacts ==
    ASSUME NEW p \in Paths
    PROVE  /\ p[1] \in 0..Cardinality(Tracks) /\ p[2] \in Stems
           /\ p = <<p[1], p[2]>>
           /\ \A i \in 0..Cardinality(Tracks) : <<i, p[2]>> \in Paths
<1> DEFINE indices == 0..Cardinality(Tracks)
<1>1. Paths = indices \X Stems
    BY DEF Paths
<1> HIDE DEF indices
<1>2. /\ p[1] \in indices /\ p[2] \in Stems
      /\ p = <<p[1], p[2]>>
      /\ \A i \in indices : <<i, p[2]>> \in Paths
    BY <1>1
<1> QED
    BY <1>2 DEF indices

LEMMA TracksCount == Cardinality(Tracks) \in Nat
BY TracksAssumption, FS_CardinalityType

LEMMA PathsCount ==
    ASSUME NEW ps \in SUBSET Paths
    PROVE  IsFiniteSet(ps) /\ Cardinality(ps) \in Nat
BY FinitePaths, FS_Subset, FS_CardinalityType

\* The index is an injection into 1..n.
LEMMA NumberedFew ==
    ASSUME NEW ps \in SUBSET Paths, NEW n \in Nat, Numbered(ps, n)
    PROVE  /\ Cardinality(ps) <= n
           /\ Cardinality(ps) = n => \A i \in 1..n : \E p \in ps : p[1] = i
<1> DEFINE index == [p \in ps |-> p[1]]
<1>1. index \in Injection(ps, 1..n)
  <2>1. index \in [ps -> 1..n]
      BY DEF Numbered
  <2>2. \A p, q \in ps : index[p] = index[q] => p = q
      BY DEF Numbered
  <2> QED
      BY <2>1, <2>2 DEF Injection, IsInjective
<1>2. IsFiniteSet(1..n) /\ Cardinality(1..n) = n
    BY FS_Interval
<1>3. /\ Cardinality(ps) <= n
      /\ Cardinality(ps) = n => index \in Surjection(ps, 1..n)
    BY <1>1, <1>2, FS_Injection
<1>4. index \in Surjection(ps, 1..n) => \A i \in 1..n : \E p \in ps : p[1] = i
    BY DEF Surjection
<1> QED
    BY <1>3, <1>4

\* A set with a path for every index of 1..n has n of them at least.
LEMMA NumberedMany ==
    ASSUME NEW ps \in SUBSET Paths, NEW n \in Nat,
           \A i \in 1..n : \E p \in ps : p[1] = i
    PROVE  n <= Cardinality(ps)
<1> DEFINE at == [i \in 1..n |-> CHOOSE p \in ps : p[1] = i]
<1>1. \A i \in 1..n : at[i] \in ps /\ at[i][1] = i
    OBVIOUS
<1>2. at \in Injection(1..n, ps)
  <2>1. at \in [1..n -> ps]
      BY <1>1
  <2>2. \A i, j \in 1..n : at[i] = at[j] => i = j
      BY <1>1
  <2> QED
      BY <2>1, <2>2 DEF Injection, IsInjective
<1>3. Cardinality(1..n) = n
    BY FS_Interval
<1> QED
    BY <1>2, <1>3, PathsCount, FS_Injection

\* Among paths numbered without a gap the index says how many come before.
LEMMA RankOfNumbered ==
    ASSUME NEW ps \in SUBSET Paths, NEW n \in Nat, Numbered(ps, n),
           Cardinality(ps) = n, NEW p \in ps
    PROVE  Rank(ps, p) = p[1] - 1
<1> DEFINE below == {q \in ps : Before(q, p)}
           index == [q \in below |-> q[1]]
<1>1. p[1] \in 1..n
    BY DEF Numbered
<1>2. \A q \in ps : Before(q, p) <=> q[1] < p[1]
    <2>1. \A q \in ps : /\ q[1] = p[1] => q = p
                        /\ q[1] \in 1..n
        BY DEF Numbered
    <2>2. ~Before(p, p)
        BY BeforeIsOrder
    <2> QED
        BY <1>1, <2>1, <2>2 DEF Before
<1>3. index \in Injection(below, 1..p[1] - 1)
  <2>1. index \in [below -> 1..p[1] - 1]
      BY <1>1, <1>2 DEF Numbered
  <2>2. \A q, r \in below : index[q] = index[r] => q = r
      BY DEF Numbered
  <2> QED
      BY <2>1, <2>2 DEF Injection, IsInjective
<1>4. index \in Surjection(below, 1..p[1] - 1)
  <2>1. \A i \in 1..p[1] - 1 : \E q \in below : index[q] = i
    <3> TAKE i \in 1..p[1] - 1
    <3>1. i \in 1..n /\ i < p[1]
        BY <1>1
    <3>2. PICK q \in ps : q[1] = i
        BY <3>1, NumberedFew
    <3> QED
        BY <1>2, <3>1, <3>2
  <2>2. index \in [below -> 1..p[1] - 1]
      BY <1>3 DEF Injection
  <2> QED
      BY <2>1, <2>2 DEF Surjection
<1>5. IsFiniteSet(1..p[1] - 1) /\ Cardinality(1..p[1] - 1) = p[1] - 1
    BY <1>1, FS_Interval
<1>6. Cardinality(below) = p[1] - 1
    BY <1>3, <1>4, <1>5, FS_Injection
<1> QED
    BY <1>6 DEF Rank

\* Ranks are given once each, so every place of the plan has its path.
LEMMA SortedPlaces ==
    ASSUME NEW ps \in SUBSET Paths
    PROVE  /\ Len(Sorted(ps)) = Cardinality(ps)
           /\ Sorted(ps) \in Seq(Paths)
           /\ \A i \in 1..Cardinality(ps) :
                 Sorted(ps)[i] \in ps /\ Rank(ps, Sorted(ps)[i]) = i - 1
<1> DEFINE n == Cardinality(ps)
           rank == [p \in ps |-> Rank(ps, p)]
<1>1. n \in Nat
    BY PathsCount
<1>2. rank \in Injection(ps, 0..n - 1)
  <2>1. rank \in [ps -> 0..n - 1]
      BY <1>1, RankType
  <2>2. \A p, q \in ps : rank[p] = rank[q] => p = q
    <3> SUFFICES ASSUME NEW p \in ps, NEW q \in ps, p # q
                 PROVE  Rank(ps, p) # Rank(ps, q)
        OBVIOUS
    <3>1. Before(p, q) \/ Before(q, p)
        BY BeforeIsOrder
    <3>2. Rank(ps, p) \in Nat /\ Rank(ps, q) \in Nat
        BY RankType
    <3> QED
        BY <3>1, <3>2, RankGrows
  <2> QED
      BY <2>1, <2>2 DEF Injection, IsInjective
<1>3. IsFiniteSet(0..n - 1) /\ Cardinality(0..n - 1) = n
    BY <1>1, FS_Interval
<1>4. rank \in Surjection(ps, 0..n - 1)
    BY <1>2, <1>3, FS_Injection
<1>5. \A i \in 1..n : \E p \in ps : Rank(ps, p) = i - 1
  <2> TAKE i \in 1..n
  <2>1. i - 1 \in 0..n - 1
      BY <1>1
  <2> QED
      BY <1>4, <2>1 DEF Surjection
<1>6. \A i \in 1..n : Sorted(ps)[i] = CHOOSE p \in ps : Rank(ps, p) = i - 1
    BY DEF Sorted, Rank
<1>7. \A i \in 1..n : Sorted(ps)[i] \in ps /\ Rank(ps, Sorted(ps)[i]) = i - 1
    BY <1>5, <1>6
<1>8. Len(Sorted(ps)) = n /\ Sorted(ps) \in [1..n -> Paths]
  <2> DEFINE path(i) == CHOOSE p \in ps : Rank(ps, p) = i - 1
             s == [i \in 1..n |-> path(i)]
             m == n
  <2>1. Sorted(ps) = s
      BY DEF Sorted, Rank
  <2>2. \A i \in 1..m : path(i) \in Paths
      BY <1>5
  <2>3. m \in Nat
      BY <1>1
  <2> HIDE DEF m, path
  <2>4. s = [i \in 1..m |-> path(i)]
      BY DEF m
  <2> HIDE DEF s
  <2>5. Len(s) = m /\ s \in [1..m -> Paths]
      BY <2>2, <2>3, <2>4
  <2> QED
      BY <2>1, <2>5 DEF m
<1>9. Sorted(ps) \in Seq(Paths)
  <2> DEFINE s == Sorted(ps)
             m == n
  <2>1. s \in [1..m -> Paths] /\ m \in Nat
      BY <1>1, <1>8
  <2> HIDE DEF s, m
  <2>2. s \in Seq(Paths)
      BY <2>1
  <2> QED
      BY <2>2 DEF s
<1> QED
    BY <1>7, <1>8, <1>9

LEMMA SortedNumbered ==
    ASSUME NEW ps \in SUBSET Paths, Numbered(ps, Cardinality(ps))
    PROVE  \A i \in 1..Cardinality(ps) : Sorted(ps)[i][1] = i
<1> TAKE i \in 1..Cardinality(ps)
<1>1. Cardinality(ps) \in Nat
    BY PathsCount
<1>2. Sorted(ps)[i] \in ps /\ Rank(ps, Sorted(ps)[i]) = i - 1
    BY SortedPlaces
<1>3. Rank(ps, Sorted(ps)[i]) = Sorted(ps)[i][1] - 1
    BY <1>1, <1>2, RankOfNumbered
<1>4. Sorted(ps)[i][1] \in 1..Cardinality(ps)
    BY <1>2 DEF Numbered
<1> QED
    BY <1>2, <1>3, <1>4

-----------------------------------------------------------------------------
(***************************************************************************)
(* A run and its checkpoint.  The files in sight never get more, so a      *)
(* checkpoint in progress has as many entries as there are files only if   *)
(* they are the files it has placed: then they are numbered, and the next  *)
(* plan gives each the number it has.  An entry is skipped only then, and  *)
(* if a file is in its place: no other has that number, so it is the file  *)
(* of the entry itself, whose name the sanitizer has left alone.           *)
(***************************************************************************)
Few == Cardinality(Discovered) <= Cardinality(Tracks)
DiskInv ==
    disk.status = "InProgress" =>
        /\ Cardinality(Discovered) <= disk.total
        /\ Cardinality(Discovered) = disk.total => Numbered(Discovered, disk.total)
        /\ pc # "idle" => Len(plan) <= disk.total
Entries == 1..Len(plan)
Aligned == \A i \in Entries : plan[i][1] = i
RunInv ==
    /\ pc = "idle" => plan = <<>> /\ k = 1 /\ staged = {}
    /\ pc # "idle" =>
          /\ Len(plan) <= Cardinality(Tracks)
          /\ \A i, j \in Entries : plan[i] = plan[j] => i = j
    /\ pc \in {"stage", "place", "encode", "verify"} =>
          mem.status = "InProgress" /\ mem.total = Len(plan)
BackupInv ==
    pc = "backup" =>
        /\ plan = Sorted(Discovered)
        /\ staged = {}
        /\ \A t \in found : Holds(stick, t)
StageInv ==
    pc = "stage" =>
        /\ staged \subseteq 1..k - 1
        /\ \A p \in Discovered : \E i \in Entries \ staged : plan[i] = p
        /\ \A i \in Entries \ staged : stick[plan[i]] # Absent
        /\ \A i \in staged : tmp[Destination(i)] # Absent /\ mem.done[i] = Absent
        /\ \A i \in Entries : mem.done[i] # Absent => Aligned
        /\ \A i \in 1..k - 1 : i \notin staged =>
              /\ mem.done[i] # Absent /\ mem.done[i] = stick[Destination(i)]
              /\ plan[i] = Destination(i)
        /\ \A t \in found : \/ \E i \in Entries \ staged : stick[plan[i]] = t
                            \/ \E i \in staged : tmp[Destination(i)] = t
PlaceInv ==
    pc \in {"place", "encode", "verify"} =>
        /\ staged \subseteq Entries
        /\ \A p \in Discovered : \E i \in Entries : p = Destination(i)
        /\ \A i \in Entries : i \notin staged \/ i < k =>
              stick[Destination(i)] # Absent /\ mem.done[i] = stick[Destination(i)]
        /\ \A i \in staged : i >= k => tmp[Destination(i)] # Absent /\ mem.done[i] = Absent
        /\ \A t \in found :
              \/ \E i \in Entries : (i \notin staged \/ i < k) /\ stick[Destination(i)] = t
              \/ \E i \in staged : i >= k /\ tmp[Destination(i)] = t
        /\ pc = "encode" => k \in staged
        /\ pc = "verify" => k = Len(plan) + 1
SuccessInv ==
    outcome = "success" =>
        /\ pc = "idle"
        /\ Numbered(Discovered, Cardinality(Discovered))
        /\ \A t \in found : Holds(stick, t)

IInv == /\ TypeOK /\ Few /\ DiskInv /\ RunInv
        /\ BackupInv /\ StageInv /\ PlaceInv /\ SuccessInv

LEMMA DiscoveredFacts ==
    /\ Discovered \in SUBSET Paths
    /\ Cardinality(Discovered) \in Nat
BY PathsCount DEF Discovered

\* A new name is a path, whatever the sanitizer does to the old one.
LEMMA NamesArePaths ==
    ASSUME NEW p \in Paths, NEW i \in 0..Cardinality(Tracks)
    PROVE  add_sequential_prefix(sanitize_filename(p), i) \in Paths
<1>1. p[1] \in 0..Cardinality(Tracks) /\ p[2] \in Stems
    BY PathFacts
<1>2. 0 \in 0..Cardinality(Tracks)
    BY TracksCount
<1>3. sanitize_filename(p) \in Paths
    BY <1>1, <1>2, SanitizerAssumption DEF sanitize_filename, Paths
<1>4. /\ sanitize_filename(p)[2] \in Stems
      /\ Cut[sanitize_filename(p)[2]] \in Stems
      /\ Doubled[sanitize_filename(p)] \in Stems
    BY <1>3, PathFacts, SanitizerAssumption
<1> QED
    BY <1>4 DEF add_sequential_prefix, Paths

\* Where an entry goes to.
LEMMA DestinationFacts ==
    ASSUME TypeOK, RunInv, pc # "idle"
    PROVE  /\ Len(plan) \in Nat
           /\ \A i \in Entries :
                 /\ plan[i] \in Paths
                 /\ Destination(i) \in Paths /\ TempPath(i) = Destination(i)
                 /\ Destination(i)[1] = i
<1>1. plan \in Seq(Paths) /\ Len(plan) <= Cardinality(Tracks)
    BY DEF TypeOK, RunInv
<1>2. Len(plan) \in Nat
    BY <1>1
<1>3. ASSUME NEW i \in Entries
      PROVE  /\ plan[i] \in Paths
             /\ Destination(i) \in Paths /\ TempPath(i) = Destination(i)
             /\ Destination(i)[1] = i
  <2>1. plan[i] \in Paths
      BY <1>1, <1>3 DEF Entries
  <2>2. i \in 0..Cardinality(Tracks)
      BY <1>1, <1>2, <1>3, TracksCount DEF Entries
  <2>3. Destination(i) \in Paths
      BY <2>1, <2>2, NamesArePaths DEF Destination
  <2>4. Destination(i)[1] = i
      BY DEF Destination, add_sequential_prefix
  <2> QED
      BY <2>1, <2>3, <2>4 DEF TempPath
<1> QED
    BY <1>2, <1>3

-----------------------------------------------------------------------------
(***************************************************************************)
(* Init.                                                                   *)
(***************************************************************************)
LEMMA NoCheckpointType ==
    /\ NoCheckpoint \in Checkpoint
    /\ NoCheckpoint.status = "None"
    /\ \A n \in 0..Cardinality(Tracks) : NewCheckpoint(n) \in Checkpoint
BY TracksCount DEF NoCheckpoint, NewCheckpoint, Checkpoint, Content

LEMMA InitIInv == Init => IInv
<1> SUFFICES ASSUME Init PROVE IInv
    OBVIOUS
<1>1. PICK at \in Layouts :
         stick = [p \in Paths |-> IF \E t \in Tracks : at[t] = p
                                  THEN CHOOSE t \in Tracks : at[t] = p ELSE Absent]
    BY DEF Init
<1>2. at \in [Tracks -> Paths]
    BY LayoutsAssumption
<1>3. TypeOK
  <2>1. stick \in [Paths -> Content] /\ Nothing \in [Paths -> Content]
      BY <1>1 DEF Content, Nothing
  <2>2. plan \in Seq(Paths) /\ Len(plan) = 0
      BY DEF Init
  <2> QED
      BY <2>1, <2>2, NoCheckpointType DEF Init, TypeOK
<1>4. Few
  <2> DEFINE there == [p \in Discovered |-> stick[p]]
  <2>1. \A p \in Discovered : stick[p] \in Tracks /\ at[stick[p]] = p
      BY <1>1 DEF Discovered
  <2>2. there \in Injection(Discovered, Tracks)
    <3>1. there \in [Discovered -> Tracks]
        BY <2>1
    <3>2. \A p, q \in Discovered : there[p] = there[q] => p = q
        BY <2>1
    <3> QED
        BY <3>1, <3>2 DEF Injection, IsInjective
  <2> QED
      BY <2>2, TracksAssumption, FS_Injection DEF Few
<1>5. DiskInv /\ RunInv /\ BackupInv /\ StageInv /\ PlaceInv /\ SuccessInv
    BY NoCheckpointType
    DEF Init, DiskInv, RunInv, BackupInv, StageInv, PlaceInv, SuccessInv
<1> QED
    BY <1>3, <1>4, <1>5 DEF IInv

-----------------------------------------------------------------------------
(***************************************************************************)
(* What a step leaves of the parts that count files: either nothing new is *)
(* in sight, or all that is in sight is numbered by the plan.              *)
(***************************************************************************)
LEMMA FewerFiles ==
    ASSUME Few, DiskInv, disk \in Checkpoint, Discovered' \subseteq Discovered, disk' = disk,
           \/ pc' = "idle"
           \/ pc # "idle" /\ plan' = plan
    PROVE  Few' /\ DiskInv'
<1>1. /\ Discovered \in SUBSET Paths
      /\ Cardinality(Discovered) \in Nat /\ IsFiniteSet(Discovered)
    BY DiscoveredFacts, FinitePaths, FS_Subset
<1>2. /\ Cardinality(Discovered') \in Nat
      /\ Cardinality(Discovered') <= Cardinality(Discovered)
      /\ Cardinality(Discovered') = Cardinality(Discovered) => Discovered' = Discovered
    BY <1>1, FS_Subset, FS_CardinalityType
<1>3. Few'
    BY <1>1, <1>2, TracksCount DEF Few
<1>4. disk.total \in Nat
    BY TracksCount DEF Checkpoint
<1>5. DiskInv'
    BY <1>1, <1>2, <1>4 DEF DiskInv
<1> QED
    BY <1>3, <1>5

LEMMA PlacedFiles ==
    ASSUME TypeOK, DiskInv, RunInv, pc # "idle",
           Discovered' \in SUBSET Paths,
           Numbered(Discovered', Len(plan)),
           \/ disk' = disk
           \/ disk'.total = Len(plan)
           \/ disk'.status # "InProgress",
           pc' = "idle" \/ plan' = plan
    PROVE  Few' /\ DiskInv'
<1>1. Len(plan) \in Nat /\ Len(plan) <= Cardinality(Tracks)
    BY DestinationFacts DEF RunInv
<1>2. Cardinality(Discovered') <= Len(plan) /\ Cardinality(Discovered') \in Nat
    BY <1>1, NumberedFew, PathsCount
<1>3. Few'
    BY <1>1, <1>2, TracksCount DEF Few
<1>4. disk' = disk => DiskInv'
  <2>1. disk.total \in Nat
      BY TracksCount DEF TypeOK, Checkpoint
  <2> QED
      BY <1>1, <1>2, <2>1 DEF DiskInv
<1>5. disk'.total = Len(plan) \/ disk'.status # "InProgress" => DiskInv'
    BY <1>1, <1>2 DEF DiskInv
<1> QED
    BY <1>3, <1>4, <1>5

LEMMA PlacedNumbered ==
    ASSUME TypeOK, RunInv, pc # "idle", NEW ps \in SUBSET Paths,
           \A p \in ps : \E i \in Entries : p = Destination(i)
    PROVE  Numbered(ps, Len(plan))
BY DestinationFacts DEF Numbered, Entries

-----------------------------------------------------------------------------
(***************************************************************************)
(* The steps.                                                              *)
(***************************************************************************)

\* The run ends: what it knew is gone, what is on the stick stays.
LEMMA StopIInv ==
    ASSUME IInv, pc # "idle", Stop("error"), UNCHANGED <<stick, tmp, disk, found>>,
           backup' \in [Paths -> Content]
    PROVE  IInv'
<1>1. plan' \in Seq(Paths) /\ Len(plan') = 0
    BY DEF Stop
<1>2. TypeOK'
    BY <1>1, NoCheckpointType DEF IInv, TypeOK, Stop
<1>3. Few' /\ DiskInv'
  <2>1. Discovered' = Discovered
      BY DEF Discovered
  <2> QED
      BY <2>1, FewerFiles DEF IInv, TypeOK, Stop
<1>4. RunInv' /\ BackupInv' /\ StageInv' /\ PlaceInv' /\ SuccessInv'
    BY DEF Stop, RunInv, BackupInv, StageInv, PlaceInv, SuccessInv
<1> QED
    BY <1>2, <1>3, <1>4 DEF IInv

LEMMA AbortIInv == IInv /\ Abort => IInv'
<1> SUFFICES ASSUME IInv, Abort PROVE IInv'
    OBVIOUS
<1>1. backup' \in [Paths -> Content]
    BY DEF IInv, TypeOK, Abort, Put, Content
<1> QED
    BY <1>1, StopIInv DEF Abort

LEMMA FailIInv == IInv /\ ProcessingFails => IInv'
BY StopIInv DEF ProcessingFails, IInv, TypeOK

LEMMA NothingIInv == IInv /\ RebuildNothing => IInv'
<1> SUFFICES ASSUME IInv, RebuildNothing PROVE IInv'
    OBVIOUS
<1>1. TypeOK'
    BY DEF IInv, TypeOK, RebuildNothing
<1>2. Few' /\ DiskInv'
  <2>1. Discovered' = Discovered
      BY DEF RebuildNothing, Discovered
  <2> QED
      BY <2>1, FewerFiles DEF IInv, TypeOK, RebuildNothing
<1>3. RunInv' /\ BackupInv' /\ StageInv' /\ PlaceInv' /\ SuccessInv'
    BY DEF IInv, RebuildNothing, RunInv, BackupInv, StageInv, PlaceInv, SuccessInv
<1> QED
    BY <1>1, <1>2, <1>3 DEF IInv

LEMMA StartIInv == IInv /\ StartRebuild => IInv'
<1> SUFFICES ASSUME IInv, StartRebuild PROVE IInv'
    OBVIOUS
<1>1. /\ Len(plan') = Cardinality(Discovered)
      /\ plan' \in Seq(Paths)
      /\ \A i \in 1..Cardinality(Discovered) :
            plan'[i] \in Discovered /\ Rank(Discovered, plan'[i]) = i - 1
    BY DiscoveredFacts, SortedPlaces DEF StartRebuild
<1>2. Discovered' = Discovered /\ Cardinality(Discovered) \in Nat
    BY DiscoveredFacts DEF StartRebuild, Discovered
<1>3. TypeOK'
    BY <1>1, <1>2 DEF IInv, TypeOK, RunInv, StartRebuild
<1>4. Few' /\ DiskInv'
    BY <1>1, <1>2 DEF IInv, Few, DiskInv, StartRebuild
<1>5. RunInv'
  <2>1. \A i, j \in 1..Cardinality(Discovered) : plan'[i] = plan'[j] => i = j
      BY <1>1
  <2>2. pc' = "backup" /\ Len(plan') <= Cardinality(Tracks)
      BY <1>1 DEF StartRebuild, IInv, Few
  <2> QED
      BY <1>1, <2>1, <2>2 DEF RunInv, Entries
<1>6. BackupInv'
  <2>1. plan' = Sorted(Discovered')
      BY <1>2 DEF StartRebuild
  <2>2. \A t \in found' : Holds(stick', t)
      BY DEF StartRebuild
  <2>3. staged' = {}
      BY DEF StartRebuild, IInv, RunInv
  <2> QED
      BY <2>1, <2>2, <2>3 DEF BackupInv, Holds
<1>7. StageInv' /\ PlaceInv' /\ SuccessInv'
    BY DEF StartRebuild, StageInv, PlaceInv, SuccessInv
<1> QED
    BY <1>3, <1>4, <1>5, <1>6, <1>7 DEF IInv

LEMMA BackupIInv == IInv /\ BackupFile => IInv'
<1> SUFFICES ASSUME IInv, BackupFile PROVE IInv'
    OBVIOUS
<1>1. Discovered' = Discovered
    BY DEF BackupFile, Discovered
<1>2. Len(plan) \in Nat /\ k \in Entries /\ plan[k] \in Paths
    BY DestinationFacts DEF IInv, TypeOK, BackupFile, Entries
<1>3. TypeOK'
  <2>1. backup' \in [Paths -> Content]
      BY <1>2 DEF IInv, TypeOK, BackupFile, Put
  <2> QED
      BY <1>2, <2>1 DEF IInv, TypeOK, BackupFile, Entries
<1>4. Few' /\ DiskInv'
    BY <1>1, FewerFiles DEF IInv, TypeOK, BackupFile
<1>5. RunInv' /\ BackupInv' /\ StageInv' /\ PlaceInv' /\ SuccessInv'
  <2>1. \A t : Holds(stick, t) => Holds(stick', t)
      BY DEF BackupFile
  <2> QED
      BY <1>1, <2>1 DEF IInv, BackupFile, RunInv, BackupInv, StageInv, PlaceInv,
         SuccessInv, Entries, Holds
<1> QED
    BY <1>3, <1>4, <1>5 DEF IInv

\* A checkpoint is resumed only where the plan leaves all files in place.
LEMMA OpenIInv == IInv /\ OpenSession => IInv'
<1> SUFFICES ASSUME IInv, OpenSession PROVE IInv'
    OBVIOUS
<1>1. /\ pc = "backup" /\ pc' = "stage" /\ k' = 1
      /\ UNCHANGED <<stick, backup, plan, staged, disk, outcome, found>>
    BY DEF OpenSession
<1>2. /\ plan = Sorted(Discovered) /\ staged = {}
      /\ \A t \in found : Holds(stick, t)
    BY <1>1 DEF IInv, BackupInv
<1>3. /\ Len(plan) = Cardinality(Discovered)
      /\ \A i \in Entries : plan[i] \in Discovered
    BY <1>2, DiscoveredFacts, SortedPlaces DEF Entries
<1>4. Len(plan) \in Nat /\ Len(plan) \in 0..Cardinality(Tracks)
    BY <1>1, DestinationFacts DEF IInv, RunInv
<1>5. /\ mem' \in Checkpoint
      /\ mem'.status = "InProgress" /\ mem'.total = Len(plan)
      /\ Resumable \/ \A i \in Entries : mem'.done[i] = Absent
  <2>1. CASE Resumable
      BY <2>1 DEF OpenSession, Resumable, IInv, TypeOK
  <2>2. CASE ~Resumable
    <3>1. mem' = NewCheckpoint(Len(plan))
        BY <2>2 DEF OpenSession
    <3>2. NewCheckpoint(Len(plan)) \in Checkpoint
        BY <1>4, NoCheckpointType
    <3>3. \A i \in Entries : i \in 1..Cardinality(Tracks)
        BY <1>4, TracksCount DEF Entries
    <3> QED
        BY <3>1, <3>2, <3>3 DEF NewCheckpoint
  <2> QED
      BY <2>1, <2>2
<1>6. Resumable => Aligned
  <2> SUFFICES ASSUME Resumable PROVE Aligned
      OBVIOUS
  <2>1. Numbered(Discovered, Cardinality(Discovered))
      BY <1>3 DEF Resumable, IInv, DiskInv
  <2>2. \A i \in 1..Cardinality(Discovered) : Sorted(Discovered)[i][1] = i
      BY <2>1, DiscoveredFacts, SortedNumbered
  <2> QED
      BY <1>2, <1>3, <2>2 DEF Aligned, Entries
<1>7. TypeOK'
    BY <1>1, <1>4, <1>5 DEF IInv, TypeOK, OpenSession, Nothing, Content
<1>8. Few' /\ DiskInv'
  <2>1. Discovered' = Discovered
      BY <1>1 DEF Discovered
  <2> QED
      BY <1>1, <2>1, FewerFiles DEF IInv, TypeOK
<1>9. RunInv'
    BY <1>1, <1>5 DEF IInv, RunInv, Entries
<1>10. StageInv'
  <2>1. \A p \in Discovered : \E i \in Entries : plan[i] = p
    <3> TAKE p \in Discovered
    <3>1. PICK i \in 1..Cardinality(Discovered) : Sorted(Discovered)[i] = p
        BY DiscoveredFacts, SortedCovers
    <3> QED
        BY <1>2, <1>3, <3>1 DEF Entries
  <2>2. \A i \in Entries : stick[plan[i]] # Absent
      BY <1>3 DEF Discovered
  <2>3. \A t \in found : \E i \in Entries : stick[plan[i]] = t
    <3> TAKE t \in found
    <3>1. PICK p \in Paths : stick[p] = t
        BY <1>2 DEF Holds
    <3>2. p \in Discovered
        BY <3>1, ContentAssumption DEF Discovered, IInv, TypeOK
    <3> QED
        BY <2>1, <3>1, <3>2
  <2>4. \A i \in Entries : mem'.done[i] # Absent => Aligned
      BY <1>5, <1>6
  <2>5. /\ Discovered' = Discovered /\ Entries' = Entries /\ Aligned' = Aligned
        /\ staged' = {} /\ 1..k' - 1 = {}
      BY <1>1, <1>2 DEF Discovered, Entries, Aligned
  <2> QED
      BY <1>1, <2>1, <2>2, <2>3, <2>4, <2>5 DEF StageInv
<1>11. BackupInv' /\ PlaceInv' /\ SuccessInv'
    BY <1>1 DEF IInv, BackupInv, PlaceInv, SuccessInv
<1> QED
    BY <1>7, <1>8, <1>9, <1>10, <1>11 DEF IInv

LEMMA SkipIInv == IInv /\ SkipEntry => IInv'
<1> SUFFICES ASSUME IInv, SkipEntry PROVE IInv'
    OBVIOUS
<1>1. Discovered' = Discovered /\ Entries' = Entries
    BY DEF SkipEntry, Discovered, Entries
<1>2. Len(plan) \in Nat /\ k \in Entries /\ pc = "stage"
    BY DestinationFacts DEF IInv, TypeOK, SkipEntry, Entries
<1>3. TypeOK'
    BY <1>2 DEF IInv, TypeOK, SkipEntry, Entries
<1>4. Few' /\ DiskInv'
    BY <1>1, FewerFiles DEF IInv, TypeOK, SkipEntry
<1>5. RunInv' /\ BackupInv' /\ PlaceInv' /\ SuccessInv'
    BY <1>1 DEF IInv, SkipEntry, RunInv, BackupInv, PlaceInv, SuccessInv
<1>6. StageInv'
  <2>1. StageInv
      BY DEF IInv
  <2>2. Aligned' = Aligned /\ \A i : Destination(i)' = Destination(i)
      BY <1>1 DEF SkipEntry, Aligned, Destination
  <2>3. staged \subseteq 1..k' - 1
      BY <1>2, <2>1 DEF StageInv, SkipEntry, Entries
  <2>4. \A i \in 1..k' - 1 : i \notin staged =>
           /\ mem.done[i] # Absent /\ mem.done[i] = stick[Destination(i)]
           /\ plan[i] = Destination(i)
    <3>1. \A i \in 1..k' - 1 : i \in 1..k - 1 \/ i = k
        BY <1>2 DEF SkipEntry, Entries
    <3>2. mem.done[k] # Absent /\ mem.done[k] = stick[Destination(k)]
        BY DEF SkipEntry, InPlace
    <3>3. Destination(k) \in Discovered /\ Destination(k)[1] = k
        BY <1>2, <3>2, DestinationFacts DEF IInv, Discovered
    <3>4. PICK j \in Entries : plan[j] = Destination(k)
        BY <1>2, <2>1, <3>3 DEF StageInv
    <3>5. j = k
        BY <1>2, <2>1, <3>2, <3>3, <3>4 DEF StageInv, Aligned
    <3> QED
        BY <1>2, <2>1, <3>1, <3>2, <3>4, <3>5 DEF StageInv
  <2> QED
      BY <1>1, <1>2, <2>1, <2>2, <2>3, <2>4 DEF StageInv, SkipEntry
<1> QED
    BY <1>3, <1>4, <1>5, <1>6 DEF IInv

LEMMA StageIInv == IInv /\ StageEntry => IInv'
<1> SUFFICES ASSUME IInv, StageEntry PROVE IInv'
    OBVIOUS
<1> DEFINE c == stick[plan[k]]
<1>1. /\ pc = "stage" /\ k \in Entries /\ Len(plan) \in Nat /\ StageInv
      /\ UNCHANGED <<backup, pc, plan, disk, outcome, found>>
      /\ k' = k + 1 /\ staged' = staged \cup {k} /\ c # Absent
    BY DestinationFacts DEF IInv, TypeOK, StageEntry, Entries
<1>2. /\ plan[k] \in Paths /\ Destination(k) \in Paths
      /\ c \in Content
      /\ stick' \in [Paths -> Content] /\ tmp' \in [Paths -> Content]
      /\ stick'[plan[k]] = Absent /\ tmp'[Destination(k)] = c
      /\ \A q \in Paths : q # plan[k] => stick'[q] = stick[q]
      /\ \A q \in Paths : q # Destination(k) => tmp'[q] = tmp[q]
    BY <1>1, DestinationFacts DEF IInv, TypeOK, StageEntry, Put, Content
<1>3. k \in 1..Cardinality(Tracks)
    BY <1>1, TracksCount DEF IInv, RunInv, Entries
<1>4. /\ mem' \in Checkpoint /\ mem'.status = mem.status /\ mem'.total = mem.total
      /\ mem'.done[k] = Absent
      /\ \A i \in 1..Cardinality(Tracks) : i # k => mem'.done[i] = mem.done[i]
    BY <1>3 DEF IInv, TypeOK, StageEntry, Checkpoint, Content
<1>5. k \notin staged
    BY <1>1 DEF StageInv, Entries
<1>6. \A i \in Entries :
         /\ plan[i] \in Paths /\ Destination(i) \in Paths
         /\ i # k => plan[i] # plan[k] /\ Destination(i) # Destination(k)
         /\ i # k => mem'.done[i] = mem.done[i]
    BY <1>1, <1>4, TracksCount, DestinationFacts DEF IInv, RunInv, Entries
<1>7. Discovered' \subseteq Discovered
    BY <1>2 DEF Discovered
<1>8. TypeOK'
  <2>1. staged' \in SUBSET (1..Len(plan)) /\ k' \in 1..Len(plan) + 1
      BY <1>1 DEF IInv, TypeOK, Entries
  <2> QED
      BY <1>1, <1>2, <1>4, <2>1 DEF IInv, TypeOK
<1>9. Few' /\ DiskInv'
    BY <1>1, <1>7, FewerFiles DEF IInv, TypeOK
<1>10. RunInv' /\ BackupInv' /\ PlaceInv' /\ SuccessInv'
    BY <1>1, <1>4 DEF IInv, RunInv, BackupInv, PlaceInv, SuccessInv, Entries
<1>11. StageInv'
  <2>1. /\ Entries' = Entries /\ Aligned' = Aligned
        /\ \A i : Destination(i)' = Destination(i)
      BY <1>1 DEF Entries, Aligned, Destination
  <2>2. staged' \subseteq 1..k' - 1
      BY <1>1 DEF StageInv, Entries
  <2>3. \A p \in Discovered' : \E i \in Entries \ staged' : plan[i] = p
    <3> TAKE p \in Discovered'
    <3>1. p \in Discovered /\ p # plan[k]
        BY <1>2, <1>7 DEF Discovered
    <3>2. PICK i \in Entries \ staged : plan[i] = p
        BY <1>1, <3>1 DEF StageInv
    <3> QED
        BY <1>1, <3>1, <3>2
  <2>4. \A i \in Entries \ staged' : stick'[plan[i]] = stick[plan[i]] /\ stick[plan[i]] # Absent
      BY <1>1, <1>2, <1>6 DEF StageInv
  <2>5. \A i \in staged' : tmp'[Destination(i)] # Absent /\ mem'.done[i] = Absent
    <3> TAKE i \in staged'
    <3>1. CASE i = k
        BY <1>1, <1>2, <1>4, <3>1
    <3>2. CASE i # k
      <4>1. i \in staged /\ i \in Entries
          BY <1>1, <3>2 DEF StageInv, Entries, IInv, TypeOK
      <4> QED
          BY <1>1, <1>2, <1>6, <3>2, <4>1 DEF StageInv
    <3> QED
        BY <3>1, <3>2
  <2>6. \A i \in Entries : mem'.done[i] # Absent => Aligned
      BY <1>1, <1>4, <1>6 DEF StageInv
  <2>7. ASSUME NEW i \in 1..k' - 1, i \notin staged'
        PROVE  /\ mem'.done[i] # Absent /\ mem'.done[i] = stick'[Destination(i)]
               /\ plan[i] = Destination(i)
    <3>1. i \in 1..k - 1 /\ i \notin staged /\ i # k /\ i \in Entries
        BY <1>1, <2>7 DEF Entries
    <3>2. /\ mem.done[i] # Absent /\ mem.done[i] = stick[Destination(i)]
          /\ plan[i] = Destination(i)
        BY <1>1, <3>1 DEF StageInv
    <3> QED
        BY <1>2, <1>6, <3>1, <3>2
  <2>8. \A t \in found : \/ \E i \in Entries \ staged' : stick'[plan[i]] = t
                         \/ \E i \in staged' : tmp'[Destination(i)] = t
    <3> TAKE t \in found
    <3>1. CASE \E i \in Entries \ staged : stick[plan[i]] = t
      <4>1. PICK i \in Entries \ staged : stick[plan[i]] = t
          BY <3>1
      <4>2. CASE i = k
          BY <1>1, <1>2, <4>1, <4>2
      <4>3. CASE i # k
          BY <1>1, <2>4, <4>1, <4>3
      <4> QED
          BY <4>2, <4>3
    <3>2. CASE \E i \in staged : tmp[Destination(i)] = t
      <4>1. PICK i \in staged : tmp[Destination(i)] = t
          BY <3>2
      <4>2. i \in Entries /\ i # k
          BY <1>5, <4>1 DEF IInv, TypeOK, Entries
      <4> QED
          BY <1>1, <1>2, <1>6, <4>1, <4>2
    <3> QED
        BY <1>1, <3>1, <3>2 DEF StageInv
  <2>9. /\ pc' = "stage" /\ plan' = plan /\ found' = found
        /\ \A i \in Entries' \ staged' : stick'[plan'[i]] # Absent
      BY <1>1, <2>1, <2>4
  <2> HIDE DEF c
  <2> QED
      BY <2>1, <2>2, <2>3, <2>5, <2>6, <2>7, <2>8, <2>9 DEF StageInv
<1> QED
    BY <1>8, <1>9, <1>10, <1>11 DEF IInv

LEMMA FinishIInv == IInv /\ FinishStaging => IInv'
<1> SUFFICES ASSUME IInv, FinishStaging PROVE IInv'
    OBVIOUS
<1>1. /\ pc = "stage" /\ pc' = "place" /\ k = Len(plan) + 1 /\ k' = 1
      /\ Len(plan) \in Nat /\ StageInv
      /\ UNCHANGED <<stick, tmp, backup, plan, staged, mem, disk, outcome, found>>
    BY DestinationFacts DEF IInv, FinishStaging
<1>2. /\ Entries' = Entries /\ Discovered' = Discovered
      /\ \A i : Destination(i)' = Destination(i)
    BY <1>1 DEF Entries, Discovered, Destination
<1>3. TypeOK' /\ RunInv' /\ BackupInv' /\ SuccessInv' /\ StageInv'
    BY <1>1, <1>2 DEF IInv, TypeOK, RunInv, BackupInv, SuccessInv, StageInv
<1>4. Few' /\ DiskInv'
    BY <1>1, <1>2, FewerFiles DEF IInv, TypeOK
<1>5. \A i \in Entries \ staged :
         /\ mem.done[i] # Absent /\ mem.done[i] = stick[Destination(i)]
         /\ plan[i] = Destination(i)
    BY <1>1, DestinationFacts DEF StageInv, Entries, Aligned, IInv
<1>6. PlaceInv'
  <2>1. staged \subseteq Entries
      BY <1>1 DEF StageInv, Entries
  <2>2. \A p \in Discovered : \E i \in Entries : p = Destination(i)
      BY <1>1, <1>5 DEF StageInv
  <2>3. \A i \in Entries : i \notin staged \/ i < 1 =>
           stick[Destination(i)] # Absent /\ mem.done[i] = stick[Destination(i)]
      BY <1>5 DEF Entries
  <2>4. \A i \in staged : tmp[Destination(i)] # Absent /\ mem.done[i] = Absent
      BY <1>1 DEF StageInv
  <2>5. \A t \in found :
           \/ \E i \in Entries : (i \notin staged \/ i < 1) /\ stick[Destination(i)] = t
           \/ \E i \in staged : i >= 1 /\ tmp[Destination(i)] = t
    <3> TAKE t \in found
    <3>1. CASE \E i \in Entries \ staged : stick[plan[i]] = t
        BY <1>5, <3>1
    <3>2. CASE \E i \in staged : tmp[Destination(i)] = t
        BY <2>1, <3>2 DEF Entries
    <3> QED
        BY <1>1, <3>1, <3>2 DEF StageInv
  <2> QED
      BY <1>1, <1>2, <2>1, <2>2, <2>3, <2>4, <2>5 DEF PlaceInv
<1> QED
    BY <1>3, <1>4, <1>6 DEF IInv

LEMMA SkipPlacedIInv == IInv /\ SkipPlaced => IInv'
<1> SUFFICES ASSUME IInv, SkipPlaced PROVE IInv'
    OBVIOUS
<1>1. /\ pc = "place" /\ k \in Entries /\ k \notin staged /\ k' = k + 1
      /\ Len(plan) \in Nat /\ PlaceInv
      /\ UNCHANGED <<stick, tmp, backup, pc, plan, staged, mem, disk, outcome, found>>
    BY DestinationFacts DEF IInv, SkipPlaced, Entries
<1>2. /\ Entries' = Entries /\ Discovered' = Discovered
      /\ \A i : Destination(i)' = Destination(i)
    BY <1>1 DEF Entries, Discovered, Destination
<1>3. k \in Nat /\ \A i \in Entries : i \in Nat
    BY <1>1 DEF Entries
<1>4. TypeOK'
    BY <1>1 DEF IInv, TypeOK, Entries
<1>5. RunInv' /\ BackupInv' /\ SuccessInv' /\ StageInv'
    BY <1>1, <1>2 DEF IInv, RunInv, BackupInv, SuccessInv, StageInv
<1>6. Few' /\ DiskInv'
    BY <1>1, <1>2, FewerFiles DEF IInv, TypeOK
<1>7. PlaceInv'
  <2> staged \subseteq Entries
      BY <1>1 DEF PlaceInv
  <2>1. \A i \in Entries : i \notin staged \/ i < k + 1 => i \notin staged \/ i < k
      BY <1>1, <1>3
  <2>2. \A i \in staged : i # k /\ i \in Nat
      BY <1>1, <1>3
  <2>3. \A i \in staged : i >= k + 1 <=> i >= k
      BY <1>3, <2>2
  <2>4. \A i \in Entries : i < k => i < k + 1
      BY <1>3
  <2>5. \A t \in found :
           \/ \E i \in Entries : (i \notin staged \/ i < k + 1) /\ stick[Destination(i)] = t
           \/ \E i \in staged : i >= k + 1 /\ tmp[Destination(i)] = t
      BY <1>1, <2>3, <2>4 DEF PlaceInv
  <2>6. \A i \in Entries : i \notin staged \/ i < k + 1 =>
           stick[Destination(i)] # Absent /\ mem.done[i] = stick[Destination(i)]
      BY <1>1, <2>1 DEF PlaceInv
  <2>7. \A i \in staged : i >= k + 1 => tmp[Destination(i)] # Absent /\ mem.done[i] = Absent
      BY <1>1, <2>3 DEF PlaceInv
  <2>8. \A p \in Discovered : \E i \in Entries : p = Destination(i)
      BY <1>1 DEF PlaceInv
  <2> QED
      BY <1>1, <1>2, <2>5, <2>6, <2>7, <2>8 DEF PlaceInv
<1> QED
    BY <1>4, <1>5, <1>6, <1>7 DEF IInv

LEMMA BeginIInv == IInv /\ BeginEncode => IInv'
<1> SUFFICES ASSUME IInv, BeginEncode PROVE IInv'
    OBVIOUS
<1>1. /\ pc = "place" /\ pc' = "encode" /\ k \in staged
      /\ Len(plan) \in Nat /\ PlaceInv /\ k \in Entries
      /\ UNCHANGED <<tmp, backup, plan, k, staged, mem, disk, outcome, found>>
    BY DestinationFacts DEF IInv, BeginEncode, PlaceInv
<1>2. /\ stick' \in [Paths -> Content]
      /\ \A q \in Paths : q # Destination(k) => stick'[q] = stick[q]
    BY <1>1, DestinationFacts DEF IInv, TypeOK, BeginEncode, Put, Content
<1>3. /\ Entries' = Entries
      /\ \A i : Destination(i)' = Destination(i)
    BY <1>1 DEF Entries, Destination
<1>4. \A i \in Entries : /\ Destination(i) \in Paths
                         /\ i # k => Destination(i) # Destination(k)
    BY <1>1, DestinationFacts DEF IInv
<1>5. Discovered' \in SUBSET Paths /\ \A p \in Discovered' : \E i \in Entries : p = Destination(i)
    BY <1>1, <1>2 DEF Discovered, PlaceInv
<1>6. Few' /\ DiskInv'
  <2>1. Numbered(Discovered', Len(plan))
      BY <1>1, <1>5, PlacedNumbered DEF IInv
  <2> QED
      BY <1>1, <1>5, <2>1, PlacedFiles DEF IInv
<1>7. TypeOK' /\ RunInv' /\ BackupInv' /\ SuccessInv' /\ StageInv'
    BY <1>1, <1>2, <1>3 DEF IInv, TypeOK, RunInv, BackupInv, SuccessInv, StageInv
<1>8. PlaceInv'
  <2>1. \A i \in Entries : i \notin staged \/ i < k => i # k
      BY <1>1 DEF Entries
  <2>2. \A i \in Entries : i \notin staged \/ i < k =>
           stick'[Destination(i)] = stick[Destination(i)]
      BY <1>2, <1>4, <2>1
  <2> QED
      BY <1>1, <1>3, <1>5, <2>2 DEF PlaceInv
<1> QED
    BY <1>6, <1>7, <1>8 DEF IInv

\* The staged file k gets to its place.
LEMMA PlaceStep ==
    ASSUME IInv, pc \in {"place", "encode"}, pc' = "place", k \in staged,
           stick' = Put(stick, Destination(k), Staged),
           tmp' \in {tmp, Put(tmp, TempPath(k), Absent)},
           Complete(Staged),
           UNCHANGED <<backup, plan, staged, outcome, found>>
    PROVE  IInv'
<1> DEFINE c == Staged
<1>1. /\ Len(plan) \in Nat /\ PlaceInv /\ k \in Entries /\ k' = k + 1
      /\ k \in 1..Cardinality(Tracks)
    BY DestinationFacts, TracksCount DEF IInv, RunInv, Entries, PlaceInv, Complete
<1>2. c = tmp[Destination(k)] /\ c # Absent /\ c \in Content /\ Destination(k) \in Paths
  <2>1. Destination(k) \in Paths /\ TempPath(k) = Destination(k)
      BY <1>1, DestinationFacts DEF IInv
  <2>2. k >= k
      BY <1>1
  <2> QED
      BY <1>1, <2>1, <2>2 DEF Staged, PlaceInv, IInv, TypeOK
<1>3. /\ stick' \in [Paths -> Content] /\ tmp' \in [Paths -> Content]
      /\ stick'[Destination(k)] = c
      /\ \A q \in Paths : q # Destination(k) => stick'[q] = stick[q] /\ tmp'[q] = tmp[q]
    BY <1>2 DEF IInv, TypeOK, Put, Content, TempPath
<1>4. /\ mem' \in Checkpoint /\ mem'.status = mem.status /\ mem'.total = mem.total
      /\ mem'.done[k] = c
      /\ \A i \in 1..Cardinality(Tracks) : i # k => mem'.done[i] = mem.done[i]
  <2>1. mem' = [mem EXCEPT !.done[k] = c]
      BY DEF Complete
  <2>2. mem \in Checkpoint
      BY DEF IInv, TypeOK
  <2> HIDE DEF c
  <2> QED
      BY <1>1, <1>2, <2>1, <2>2 DEF Checkpoint
<1>5. disk' \in {disk, mem'}
    BY DEF Complete
<1>6. /\ Entries' = Entries
      /\ \A i : Destination(i)' = Destination(i)
    BY DEF Entries, Destination
<1>7. \A i \in Entries : /\ Destination(i) \in Paths
                         /\ i # k => Destination(i) # Destination(k)
                         /\ i # k => mem'.done[i] = mem.done[i]
    BY <1>1, <1>4, DestinationFacts, TracksCount DEF IInv, RunInv, Entries
<1>8. /\ Discovered' \in SUBSET Paths
      /\ \A p \in Discovered' : \E i \in Entries : p = Destination(i)
    BY <1>1, <1>3 DEF Discovered, PlaceInv
<1>9. mem.status = "InProgress" /\ mem.total = Len(plan)
    BY DEF IInv, RunInv
<1>10. Few' /\ DiskInv'
  <2>1. Numbered(Discovered', Len(plan))
      BY <1>8, PlacedNumbered DEF IInv
  <2>2. disk' = disk \/ disk'.total = Len(plan)
      BY <1>4, <1>5, <1>9
  <2> QED
      BY <1>8, <2>1, <2>2, PlacedFiles DEF IInv
<1>11. TypeOK'
    BY <1>1, <1>3, <1>4, <1>5 DEF IInv, TypeOK, Entries
<1>12. RunInv' /\ BackupInv' /\ StageInv' /\ SuccessInv'
    BY <1>4, <1>6, <1>9 DEF IInv, RunInv, BackupInv, StageInv, SuccessInv
<1>13. PlaceInv'
  <2>1. staged \subseteq Entries /\ k \in Nat /\ \A i \in Entries : i \in Nat
      BY <1>1 DEF PlaceInv, Entries
  <2>2. \A i \in Entries : i \notin staged \/ i < k + 1 =>
           stick'[Destination(i)] # Absent /\ mem'.done[i] = stick'[Destination(i)]
    <3> SUFFICES ASSUME NEW i \in Entries, i \notin staged \/ i < k + 1
                 PROVE  stick'[Destination(i)] # Absent /\ mem'.done[i] = stick'[Destination(i)]
        OBVIOUS
    <3>1. CASE i = k
        BY <1>2, <1>3, <1>4, <3>1
    <3>2. CASE i # k
      <4>1. i \notin staged \/ i < k
          BY <2>1, <3>2
      <4>2. stick[Destination(i)] # Absent /\ mem.done[i] = stick[Destination(i)]
          BY <1>1, <4>1 DEF PlaceInv
      <4> QED
          BY <1>3, <1>7, <3>2, <4>2
    <3> QED
        BY <3>1, <3>2
  <2>3. \A i \in staged : i >= k + 1 => tmp'[Destination(i)] # Absent /\ mem'.done[i] = Absent
    <3> SUFFICES ASSUME NEW i \in staged, i >= k + 1
                 PROVE  tmp'[Destination(i)] # Absent /\ mem'.done[i] = Absent
        OBVIOUS
    <3>1. i \in Entries /\ i # k /\ i >= k
        BY <2>1
    <3>2. tmp[Destination(i)] # Absent /\ mem.done[i] = Absent
        BY <1>1, <3>1 DEF PlaceInv
    <3> QED
        BY <1>3, <1>7, <3>1, <3>2
  <2>4. \A t \in found :
           \/ \E i \in Entries : (i \notin staged \/ i < k + 1) /\ stick'[Destination(i)] = t
           \/ \E i \in staged : i >= k + 1 /\ tmp'[Destination(i)] = t
    <3> TAKE t \in found
    <3>1. CASE \E i \in Entries : (i \notin staged \/ i < k) /\ stick[Destination(i)] = t
      <4>1. PICK i \in Entries : (i \notin staged \/ i < k) /\ stick[Destination(i)] = t
          BY <3>1
      <4>2. i # k /\ (i \notin staged \/ i < k + 1)
          BY <2>1, <4>1
      <4> QED
          BY <1>3, <1>7, <4>1, <4>2
    <3>2. CASE \E i \in staged : i >= k /\ tmp[Destination(i)] = t
      <4>1. PICK i \in staged : i >= k /\ tmp[Destination(i)] = t
          BY <3>2
      <4>2. CASE i = k
        <5>1. k < k + 1 /\ stick'[Destination(k)] = t
            BY <1>2, <1>3, <2>1, <4>1, <4>2
        <5> QED
            BY <1>1, <5>1
      <4>3. CASE i # k
        <5>1. i \in Entries /\ i >= k + 1
            BY <2>1, <4>1, <4>3
        <5> QED
            BY <1>3, <1>7, <4>1, <4>3, <5>1
      <4> QED
          BY <4>2, <4>3
    <3> QED
        BY <1>1, <3>1, <3>2 DEF PlaceInv
  <2>5. /\ pc' = "place" /\ staged' = staged /\ found' = found /\ k' = k + 1
        /\ Entries' = Entries
        /\ \A i : Destination(i)' = Destination(i)
      BY <1>1, <1>6
  <2> HIDE DEF c
  <2> QED
      BY <1>8, <2>1, <2>2, <2>3, <2>4, <2>5 DEF PlaceInv
<1> QED
    BY <1>10, <1>11, <1>12, <1>13 DEF IInv

LEMMA PlaceIInv == IInv /\ (PlaceClean \/ EncodeOk) => IInv'
<1>1. IInv /\ PlaceClean => IInv'
    BY PlaceStep DEF PlaceClean
<1>2. IInv /\ EncodeOk => IInv'
    BY PlaceStep DEF EncodeOk, IInv, PlaceInv
<1> QED
    BY <1>1, <1>2

LEMMA RemoveIInv == IInv /\ RemoveTemp => IInv'
<1> SUFFICES ASSUME IInv, RemoveTemp PROVE IInv'
    OBVIOUS
<1>1. /\ pc = "place" /\ pc' = "verify" /\ k = Len(plan) + 1
      /\ Len(plan) \in Nat /\ PlaceInv
      /\ UNCHANGED <<stick, backup, plan, k, staged, mem, disk, outcome, found>>
    BY DestinationFacts DEF IInv, RemoveTemp
<1>2. tmp' \in [Paths -> Content]
    BY DEF IInv, TypeOK, RemoveTemp, Nothing, Content
<1>3. /\ Entries' = Entries /\ Discovered' = Discovered
      /\ \A i : Destination(i)' = Destination(i)
    BY <1>1 DEF Entries, Discovered, Destination
<1>4. \A i \in staged : ~(i >= k)
    BY <1>1 DEF PlaceInv, Entries
<1>5. TypeOK' /\ RunInv' /\ BackupInv' /\ SuccessInv' /\ StageInv'
    BY <1>1, <1>2, <1>3 DEF IInv, TypeOK, RunInv, BackupInv, SuccessInv, StageInv
<1>6. Few' /\ DiskInv'
    BY <1>1, <1>3, FewerFiles DEF IInv, TypeOK
<1>7. PlaceInv'
    BY <1>1, <1>3, <1>4 DEF PlaceInv
<1> QED
    BY <1>5, <1>6, <1>7 DEF IInv

\* All entries are in their places, so the files are those of the plan.
LEMMA FinalizeIInv == IInv /\ Finalize => IInv'
<1> SUFFICES ASSUME IInv, Finalize PROVE IInv'
    OBVIOUS
<1>1. /\ pc = "verify" /\ k = Len(plan) + 1 /\ PlaceInv
      /\ Len(plan) \in Nat
      /\ UNCHANGED <<stick, tmp, backup, found>>
      /\ pc' = "idle" /\ plan' = <<>> /\ k' = 1 /\ staged' = {}
      /\ mem' = NoCheckpoint /\ outcome' = "success"
    BY DestinationFacts DEF IInv, PlaceInv, Finalize, Stop
<1>2. disk' \in Checkpoint /\ disk'.status = "Completed"
    BY DEF Finalize, IInv, TypeOK, Checkpoint
<1>3. Discovered' = Discovered
    BY <1>1 DEF Discovered
<1>4. Numbered(Discovered, Len(plan))
    BY <1>1, DiscoveredFacts, PlacedNumbered DEF IInv, PlaceInv
<1>5. Cardinality(Discovered) = Len(plan)
  <2>1. \A i \in 1..Len(plan) : \E p \in Discovered : p[1] = i
    <3> TAKE i \in 1..Len(plan)
    <3>1. i \in Entries /\ i < k
        BY <1>1 DEF Entries
    <3>2. Destination(i) \in Paths /\ Destination(i)[1] = i
        BY <1>1, <3>1, DestinationFacts DEF IInv
    <3>3. stick[Destination(i)] # Absent
        BY <1>1, <3>1 DEF PlaceInv
    <3> QED
        BY <3>2, <3>3 DEF Discovered
  <2>2. Len(plan) <= Cardinality(Discovered)
      BY <1>1, <2>1, DiscoveredFacts, NumberedMany
  <2>3. Cardinality(Discovered) <= Len(plan)
      BY <1>1, <1>4, DiscoveredFacts, NumberedFew
  <2> QED
      BY <1>1, <2>2, <2>3, DiscoveredFacts
<1>6. \A t \in found : Holds(stick, t)
  <2> TAKE t \in found
  <2>1. PICK i \in Entries : stick[Destination(i)] = t
      BY <1>1 DEF PlaceInv, Entries
  <2> QED
      BY <1>1, <2>1, DestinationFacts DEF IInv, Holds
<1>7. TypeOK'
  <2>1. plan' \in Seq(Paths) /\ Len(plan') = 0
      BY <1>1
  <2> QED
      BY <1>1, <1>2, <2>1, NoCheckpointType DEF IInv, TypeOK
<1>8. Few' /\ DiskInv'
    BY <1>1, <1>2, <1>3 DEF IInv, Few, DiskInv
<1>9. RunInv' /\ BackupInv' /\ StageInv' /\ PlaceInv'
    BY <1>1 DEF RunInv, BackupInv, StageInv, PlaceInv
<1>10. SuccessInv'
  <2>1. Numbered(Discovered', Cardinality(Discovered'))
      BY <1>3, <1>4, <1>5
  <2>2. \A t \in found' : Holds(stick', t)
      BY <1>1, <1>6
  <2> QED
      BY <1>1, <2>1, <2>2 DEF SuccessInv
<1> QED
    BY <1>7, <1>8, <1>9, <1>10 DEF IInv

LEMMA StutterIInv == IInv /\ UNCHANGED vars => IInv'
<1> SUFFICES ASSUME IInv, UNCHANGED vars PROVE IInv'
    OBVIOUS
<1>1. /\ Discovered' = Discovered /\ Entries' = Entries /\ Aligned' = Aligned
      /\ \A i : Destination(i)' = Destination(i)
      /\ \A t : Holds(stick, t)' = Holds(stick, t)
    BY DEF vars, Discovered, Entries, Aligned, Destination, Holds
<1>2. TypeOK' /\ Few' /\ DiskInv' /\ RunInv'
    BY <1>1 DEF vars, IInv, TypeOK, Few, DiskInv, RunInv
<1>3. BackupInv' /\ SuccessInv'
    BY <1>1 DEF vars, IInv, BackupInv, SuccessInv
<1>4. StageInv' /\ PlaceInv'
    BY <1>1 DEF vars, IInv, StageInv, PlaceInv
<1> QED
    BY <1>2, <1>3, <1>4 DEF IInv

LEMMA StepIInv == IInv /\ [Next]_vars => IInv'
BY NothingIInv, StartIInv, BackupIInv, OpenIInv, SkipIInv, StageIInv, FinishIInv,
   SkipPlacedIInv, PlaceIInv, BeginIInv, FailIInv, RemoveIInv, FinalizeIInv,
   AbortIInv, StutterIInv
   DEF Next

(***************************************************************************)
(* The invariant holds of every run.                                       *)
(***************************************************************************)
LEMMA RebuildIInv == Spec => []IInv
BY InitIInv, StepIInv, PTL DEF Spec

-----------------------------------------------------------------------------
(***************************************************************************)
(* The plan, the staged entries, and the two checkpoints stay in their     *)
(* types: no entry of the plan is past the number of tracks, so that a     *)
(* recorded hash has a place (orchestrator.rs, CheckpointManager calls of  *)
(* provision_usb_in_place_rebuild).                                        *)
(***************************************************************************)
THEOREM RebuildTypeCorrect == Spec => []TypeOK
<1>1. IInv => TypeOK
    BY DEF IInv
<1> QED
    BY RebuildIInv, <1>1, PTL

(***************************************************************************)
(* The final verification of a rebuild finds each entry as it was placed   *)
(* or skipped, whatever earlier, killed runs left on the stick             *)
(* (orchestrator.rs provision_usb_in_place_rebuild, steps 4 to 6).         *)
(***************************************************************************)
THEOREM PlacesStayApart == Spec => []PlacesApart
<1>1. IInv => PlacesApart
  <2> SUFFICES ASSUME IInv, pc = "verify" PROVE Intact
      BY DEF PlacesApart
  <2>1. k = Len(plan) + 1 /\ PlaceInv /\ Len(plan) \in Nat
      BY DestinationFacts DEF IInv, PlaceInv
  <2>2. \A i \in 1..Len(plan) : mem.done[i] = stick[Destination(i)]
      BY <2>1 DEF PlaceInv, Entries
  <2> QED
      BY <2>2 DEF Intact
<1> QED
    BY RebuildIInv, <1>1, PTL

(***************************************************************************)
(* A rebuild that reports success has every track it discovered back on    *)
(* the stick (orchestrator.rs provision_usb_in_place_rebuild).             *)
(***************************************************************************)
THEOREM SuccessKeeps == Spec => []SuccessKeepsFound
<1>1. IInv => SuccessKeepsFound
    BY DEF IInv, SuccessInv, SuccessKeepsFound
<1> QED
    BY RebuildIInv, <1>1, PTL

(***************************************************************************)
(* After a success the next plan gives every file the number it has, for   *)
(* they are numbered from 1 without a gap in the order the plan sorts      *)
(* them.  Nothing is assumed of the sanitizer, which may give any of them  *)
(* another stem each time (in_place_transformer.rs build_plan).            *)
(***************************************************************************)
THEOREM NumbersKept == Spec => []NumbersStay
<1>1. IInv => NumbersStay
  <2> SUFFICES ASSUME IInv, outcome = "success",
                      NEW i \in 1..Cardinality(Discovered)
               PROVE  Sorted(Discovered)[i][1] = i
      BY DEF NumbersStay
  <2>1. Numbered(Discovered, Cardinality(Discovered))
      BY DEF IInv, SuccessInv
  <2> QED
      BY <2>1, DiscoveredFacts, SortedNumbered
<1> QED
    BY RebuildIInv, <1>1, PTL
-----------------------------------------------------------------------------
(***************************************************************************)
(* Progress.  A bound for the steps a run has still to take: one for every *)
(* entry in the backup and in the staging, two where it is placed, for     *)
(* ffmpeg begins and ends.                                                 *)
(***************************************************************************)
Rest == Len(plan) + 1 - k
StepsLeft ==
    CASE pc = "backup" -> Rest + 3 * Len(plan) + 4
      [] pc = "stage" -> Rest + 2 * Len(plan) + 3
      [] pc = "place" -> 2 * Rest + 2
      [] pc = "encode" -> 2 * Rest + 1
      [] pc = "verify" -> 1
      [] OTHER -> 0

LEMMA LeftTypes ==
    ASSUME TypeOK
    PROVE  /\ Len(plan) \in Nat /\ k \in Nat /\ Rest \in Nat
           /\ pc = "backup" => StepsLeft = Rest + 3 * Len(plan) + 4
           /\ pc = "stage" => StepsLeft = Rest + 2 * Len(plan) + 3
           /\ pc = "place" => StepsLeft = 2 * Rest + 2
           /\ pc = "encode" => StepsLeft = 2 * Rest + 1
           /\ pc = "verify" => StepsLeft = 1
           /\ pc \notin {"backup", "stage", "place", "encode", "verify"} => StepsLeft = 0
BY DEF TypeOK, Rest, StepsLeft

LEMMA LeftAfter ==
    /\ pc' = "stage" => StepsLeft' = Rest' + 2 * Len(plan') + 3
    /\ pc' = "backup" => StepsLeft' = Rest' + 3 * Len(plan') + 4
    /\ pc' = "place" => StepsLeft' = 2 * Rest' + 2
    /\ pc' = "encode" => StepsLeft' = 2 * Rest' + 1
    /\ pc' = "verify" => StepsLeft' = 1
    /\ pc' = "idle" => StepsLeft' = 0
BY DEF StepsLeft

LEMMA StepProgress ==
    ASSUME IInv, [Next]_vars, pc # "idle"
    PROVE  StepsLeft' \in 0..StepsLeft - 1 \/ UNCHANGED vars
<1>1. /\ TypeOK /\ PlaceInv
      /\ Len(plan) \in Nat /\ k \in 1..Len(plan) + 1 /\ Rest \in Nat
      /\ Rest = Len(plan) + 1 - k /\ Rest' = Len(plan') + 1 - k'
    BY LeftTypes DEF IInv, TypeOK, Rest
\* The next entry of the same pass.
<1>2. CASE BackupFile \/ SkipEntry \/ StageEntry \/ SkipPlaced
  <2>1. /\ pc' = pc /\ plan' = plan /\ k' = k + 1 /\ k <= Len(plan)
        /\ pc \in {"backup", "stage", "place"}
      BY <1>1, <1>2 DEF BackupFile, SkipEntry, StageEntry, SkipPlaced
  <2>2. Rest' = Rest - 1 /\ Rest >= 1
      BY <1>1, <2>1
  <2> QED
      BY <1>1, <2>1, <2>2, LeftTypes, LeftAfter
\* The end of a pass.
<1>3. CASE OpenSession \/ FinishStaging
  <2>1. /\ plan' = plan /\ k' = 1 /\ Rest = 0
        /\ \/ pc = "backup" /\ pc' = "stage"
           \/ pc = "stage" /\ pc' = "place"
      BY <1>1, <1>3 DEF OpenSession, FinishStaging
  <2> QED
      BY <1>1, <2>1, LeftTypes, LeftAfter
<1>4. CASE RemoveTemp
    BY <1>1, <1>4, LeftTypes, LeftAfter DEF RemoveTemp
<1>5. CASE BeginEncode
    BY <1>1, <1>5, LeftTypes, LeftAfter DEF BeginEncode
<1>6. CASE PlaceClean \/ EncodeOk
  <2>1. /\ plan' = plan /\ k' = k + 1 /\ pc' = "place" /\ pc \in {"place", "encode"}
      BY <1>6 DEF PlaceClean, EncodeOk, Complete
  <2>2. Rest' = Rest - 1
      BY <1>1, <2>1
  <2>3. k \in staged
      BY <1>1, <1>6 DEF PlaceClean, EncodeOk, PlaceInv
  <2>4. Rest >= 1
      BY <1>1, <2>3 DEF TypeOK
  <2> QED
      BY <1>1, <2>1, <2>2, <2>4, LeftTypes, LeftAfter
<1>7. CASE ProcessingFails \/ Finalize \/ Abort
  <2>1. pc' = "idle"
      BY <1>7 DEF ProcessingFails, Finalize, Abort, Stop
  <2>2. StepsLeft \in Nat /\ StepsLeft >= 1
      BY <1>1, LeftTypes DEF TypeOK
  <2> QED
      BY <2>1, <2>2, LeftAfter
<1>8. ~(RebuildNothing \/ StartRebuild)
    BY DEF RebuildNothing, StartRebuild
<1> QED
    BY <1>2, <1>3, <1>4, <1>5, <1>6, <1>7, <1>8 DEF Next

(***************************************************************************)
(* No rebuild goes round in circles, whatever checkpoint and whatever rest *)
(* of a killed run it takes up: a bound in the natural numbers gets        *)
(* smaller with every step, for any stick                                  *)
(* (orchestrator.rs provision_usb_in_place_rebuild).                       *)
(***************************************************************************)
THEOREM RebuildGoesOn ==
    Spec => [][pc # "idle" => StepsLeft' \in 0..StepsLeft - 1]_vars
<1>1. IInv /\ [Next]_vars => [pc # "idle" => StepsLeft' \in 0..StepsLeft - 1]_vars
    BY StepProgress
<1> QED
    BY <1>1, RebuildIInv, PTL DEF Spec
=============================================================================
