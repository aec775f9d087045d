----------------------------- MODULE SyncProofs -----------------------------
(***************************************************************************)
(* Proofs about SyncSession, for every value of its constants.             *)
(*                                                                         *)
(* A session hands out the indices diff.next, diff.next + 1, ... above all *)
(* that are on the stick, and the tracks of diff.process, each once and    *)
(* none of them in a slot.  As long as the loop runs, what is on the stick *)
(* lies below the index it has come to.                                    *)
(***************************************************************************)
EXTENDS SyncSession, TLAPS, SequenceTheorems, FiniteSetTheorems,
        WellFoundedInduction

Planned == 1..Len(diff.process)

TargetOf(i) == [vol |-> FolderOf(diff, i), idx |-> diff.next + i - 1,
                of |-> diff.process[i]]

Working == {"move", "moved", "encode"}

\* The plan stays within the bounds, and no track is in it twice; what is to be
\* put away is there.
PlanInv ==
    /\ pc # "idle" =>
          /\ \A i \in Planned : TargetOf(i) \in Slots
          /\ \A i, j \in Planned : diff.process[i] = diff.process[j] => i = j
    /\ pc = "idle" => diff = NoDiff
    /\ pc \in {"idle", "sandbox", "isolate"} => k = 1
    /\ pc \in {"idle", "sandbox", "isolate", "plan"} => mem = <<>>
    /\ pc = "sandbox" => sandbox \subseteq Present
    /\ pc = "isolate" => untracked \subseteq Present

\* No slot holds an index or a track twice; all indices on the stick are below
\* what the loop has come to, except for that of the file in work.
IndicesInv ==
    /\ \A p, q \in SlotsPresent : p.idx = q.idx => p = q
    /\ pc \in {"sandbox", "isolate", "plan"} =>
          \A p \in CompliantPresent : p.idx < diff.next
    /\ pc = "loop" => \A p \in CompliantPresent : p.idx < diff.next + k - 1
    /\ pc \in Working =>
          \A p \in CompliantPresent : p.idx < diff.next + k - 1 \/ p = Target

TracksInv ==
    /\ \A p, q \in SlotsPresent : p.of = q.of => p = q
    /\ pc \in {"sandbox", "isolate", "plan"} =>
          \A p \in SlotsPresent, i \in Planned : p.of # diff.process[i]
    /\ pc = "loop" =>
          \A p \in SlotsPresent, i \in Planned : p.of = diff.process[i] => i < k
    /\ pc \in Working =>
          \A p \in SlotsPresent, i \in Planned :
              p.of = diff.process[i] => i < k \/ p = Target

\* A planned move has its transaction, and its spot holds the track or nothing.
MovesInv ==
    /\ pc # "idle" =>
          \A i \in Planned :
              LET s == diff.displaced[diff.process[i]]
              IN  s # Nowhere => files[s] \in {Absent, diff.process[i]}
    /\ \A i \in Planned :
          LET t == diff.process[i]
          IN  /\ Kind[t] = "clean" /\ diff.displaced[t] # Nowhere
              /\ \/ pc = "plan" /\ i < k
                 \/ pc \in {"loop"} \cup Working
              => /\ TargetOf(i) \in DOMAIN journal
                 /\ journal[TargetOf(i)].from = diff.displaced[t]
    /\ pc = "move" => From # Nowhere /\ files[From] = Track /\ Kind[Track] = "clean"
    /\ pc = "moved" => files[Target] = Track

\* Only the file on the move, or one a killed session left, is InProgress.
InProgressInv ==
    /\ pc \notin {"idle", "move", "moved"} =>
          \A to \in DOMAIN journal : journal[to].status # "InProgress"
    /\ pc \in {"move", "moved"} =>
          \A to \in DOMAIN journal : journal[to].status = "InProgress" => to = Target
    /\ InterruptedMoveIsFound

SInv == TypeOK /\ PlanInv /\ IndicesInv /\ TracksInv /\ MovesInv /\ InProgressInv

-----------------------------------------------------------------------------
(***************************************************************************)
(* Data.                                                                   *)
(***************************************************************************)
LEMMA LeastOf ==
    ASSUME NEW T \in SUBSET Nat, T # {}
    PROVE  \E i \in T : \A j \in T : i <= j
<1>1. PICK i \in T : \A j \in T : ~(<<j, i>> \in OpToRel(<, Nat))
    BY WFMin, NatLessThanWellFounded
<1>2. ASSUME NEW j \in T PROVE i <= j
  <2>1. <<j, i>> \in Nat \X Nat /\ <<j, i>>[1] = j /\ <<j, i>>[2] = i
      OBVIOUS
  <2>2. ~(j < i)
      BY <1>1, <2>1 DEF OpToRel
  <2> QED
      BY <2>1, <2>2
<1> QED
    BY <1>2

\* Largest picks the maximum of a bounded set.
LEMMA LargestOf ==
    ASSUME NEW N \in Nat, NEW T \in SUBSET (0..N), T # {}
    PROVE  Largest(T) \in T /\ \A m \in T : m <= Largest(T)
<1> DEFINE U == {N - m : m \in T}
<1>1. U \in SUBSET Nat /\ U # {}
  <2>1. \A m \in T : N - m \in Nat
      OBVIOUS
  <2>2. PICK m \in T : TRUE
      OBVIOUS
  <2>3. N - m \in U
      BY <2>2
  <2> QED
      BY <2>1, <2>3
<1>2. PICK u \in U : \A v \in U : u <= v
    BY <1>1, LeastOf
<1>3. PICK n \in T : u = N - n
    OBVIOUS
<1>4. \A m \in T : m <= n
  <2> TAKE m \in T
  <2>1. u <= N - m
      BY <1>2
  <2> QED
      BY <1>3, <2>1
<1> QED
    BY <1>4 DEF Largest

LEMMA FiniteNames ==
    ASSUME NEW Of, IsFiniteSet(Of)
    PROVE  IsFiniteSet([vol : Volumes, idx : 1..MaxIndex, of : Of])
<1> DEFINE names == [vol : Volumes, idx : 1..MaxIndex, of : Of]
           box == (Volumes \X (1..MaxIndex)) \X Of
           f == [p \in names |-> <<<<p.vol, p.idx>>, p.of>>]
<1>1. IsFiniteSet(Volumes) /\ IsFiniteSet(1..MaxIndex)
    BY BoundsAssumption, FS_Interval DEF Volumes
<1>2. IsFiniteSet(Volumes \X (1..MaxIndex))
    BY <1>1, FS_Product
<1>3. IsFiniteSet(box)
    BY <1>1, <1>2, FS_Product
<1>4. f \in Injection(names, box)
  <2>1. f \in [names -> box]
      OBVIOUS
  <2>2. ASSUME NEW p \in names, NEW q \in names, f[p] = f[q]
        PROVE  p = q
    <3>1. p.vol = q.vol /\ p.idx = q.idx /\ p.of = q.of
        BY <2>2
    <3> QED
        BY <3>1
  <2> QED
      BY <2>1, <2>2 DEF Injection, IsInjective
<1> QED
    BY <1>3, <1>4, FS_Injection

LEMMA FiniteCompliant == IsFiniteSet(Slots) /\ IsFiniteSet(Compliant)
<1>1. IsFiniteSet(Slots)
    BY FiniteNames, TracksAssumption DEF Slots
<1>2. IsFiniteSet([vol : Volumes, idx : 1..MaxIndex, of : {0}])
    BY FiniteNames, FS_Singleton
<1>3. IsFiniteSet(Unhashed)
    BY <1>2, UnhashedAssumption, FS_Subset
<1> QED
    BY <1>1, <1>3, FS_Union DEF Compliant

\* A name without a hash8 is no slot, but has a folder and an index like one.
LEMMA CompliantNames ==
    /\ Unhashed \cap Slots = {}
    /\ \A p \in Compliant : /\ p.vol \in Volumes /\ p.vol \in Nat
                            /\ p.idx \in 1..MaxIndex /\ p.idx \in Nat
<1>1. \A p \in Unhashed : p.vol \in Volumes /\ p.idx \in 1..MaxIndex /\ p.of = 0
    BY UnhashedAssumption
<1>2. \A p \in Slots : p.vol \in Volumes /\ p.idx \in 1..MaxIndex /\ p.of # 0
    BY TracksAssumption DEF Slots
<1>3. Volumes \subseteq Nat /\ 1..MaxIndex \subseteq Nat
    BY BoundsAssumption DEF Volumes
<1> QED
    BY <1>1, <1>2, <1>3 DEF Compliant

\* The rank of a track among tracks, from 0.
Rank(ts, t) == Cardinality({u \in ts : u < t})

LEMMA RankType ==
    ASSUME NEW ts \in SUBSET Tracks, NEW t \in ts
    PROVE  Rank(ts, t) \in Nat /\ Rank(ts, t) < Cardinality(ts)
<1> DEFINE below == {u \in ts : u < t}
<1>1. IsFiniteSet(ts) /\ ts \subseteq Nat
    BY TracksAssumption, FS_Subset
<1>2. below \in SUBSET ts /\ t \notin below
    BY <1>1
<1>3. /\ IsFiniteSet(below)
      /\ Cardinality(below) <= Cardinality(ts)
      /\ Cardinality(ts) = Cardinality(below) => ts = below
    BY <1>1, <1>2, FS_Subset
<1>4. Cardinality(below) \in Nat /\ Cardinality(ts) \in Nat
    BY <1>1, <1>3, FS_CardinalityType
<1> QED
    BY <1>2, <1>3, <1>4 DEF Rank

LEMMA RankGrows ==
    ASSUME NEW ts \in SUBSET Tracks, NEW t \in ts, NEW u \in ts, t < u
    PROVE  Rank(ts, t) < Rank(ts, u)
<1> DEFINE below == {x \in ts : x < t}
           above == {x \in ts : x < u}
<1>1. IsFiniteSet(ts) /\ ts \subseteq Nat
    BY TracksAssumption, FS_Subset
<1>2. IsFiniteSet(above)
    BY <1>1, FS_Subset
<1>3. below \in SUBSET above /\ t \in above /\ t \notin below
  <2>1. \A x \in ts : x < t => x < u
      BY <1>1
  <2>2. ~(t < t)
      BY <1>1
  <2> QED
      BY <2>1, <2>2
<1>4. /\ Cardinality(below) <= Cardinality(above)
      /\ Cardinality(above) = Cardinality(below) => above = below
    BY <1>2, <1>3, FS_Subset
<1> QED
    BY <1>3, <1>4, RankType DEF Rank

\* Every rank below the cardinality is taken: an injection between sets of one
\* size is a surjection.
LEMMA RankTaken ==
    ASSUME NEW ts \in SUBSET Tracks, NEW r \in 0..Cardinality(ts) - 1
    PROVE  \E t \in ts : Rank(ts, t) = r
<1> DEFINE n == Cardinality(ts)
           rank == [t \in ts |-> Rank(ts, t)]
<1>1. IsFiniteSet(ts) /\ ts \subseteq Nat /\ n \in Nat
    BY TracksAssumption, FS_Subset, FS_CardinalityType
<1>2. IsFiniteSet(0..n - 1) /\ Cardinality(0..n - 1) = n
    BY <1>1, FS_Interval
<1>3. rank \in [ts -> 0..n - 1]
    BY <1>1, RankType
<1>4. \A t, u \in ts : rank[t] = rank[u] => t = u
  <2> SUFFICES ASSUME NEW t \in ts, NEW u \in ts, t # u
               PROVE  rank[t] # rank[u]
      OBVIOUS
  <2>1. t < u \/ u < t
      BY <1>1
  <2>2. Rank(ts, t) \in Nat /\ Rank(ts, u) \in Nat
      BY RankType
  <2> QED
      BY <2>1, <2>2, RankGrows
<1>5. rank \in Injection(ts, 0..n - 1)
    BY <1>3, <1>4 DEF Injection, IsInjective
<1>6. rank \in Surjection(ts, 0..n - 1)
    BY <1>2, <1>5, FS_Injection
<1> QED
    BY <1>6 DEF Surjection

\* Sorted lists every track of a set once.
LEMMA SortedList ==
    ASSUME NEW ts \in SUBSET Tracks
    PROVE  /\ Sorted(ts) \in Seq(ts)
           /\ Cardinality(ts) \in Nat
           /\ Len(Sorted(ts)) = Cardinality(ts)
           /\ \A i, j \in 1..Cardinality(ts) :
                  Sorted(ts)[i] = Sorted(ts)[j] => i = j
<1> DEFINE n == Cardinality(ts)
<1>1. n \in Nat
    BY TracksAssumption, FS_Subset, FS_CardinalityType
<1>2. ASSUME NEW i \in 1..n
      PROVE  Sorted(ts)[i] \in ts /\ Rank(ts, Sorted(ts)[i]) = i - 1
  <2>1. i - 1 \in 0..n - 1
      BY <1>1
  <2>2. Sorted(ts)[i] = CHOOSE t \in ts : Rank(ts, t) = i - 1
      BY DEF Sorted, Rank
  <2>3. \E t \in ts : Rank(ts, t) = i - 1
      BY <2>1, RankTaken
  <2> QED
      BY <2>2, <2>3
<1>3. Sorted(ts) \in [1..n -> ts]
    BY <1>2 DEF Sorted
<1>4. Sorted(ts) \in Seq(ts) /\ Len(Sorted(ts)) = n
    BY <1>1, <1>3, IsASeq, LenProperties
<1>5. \A i, j \in 1..n : Sorted(ts)[i] = Sorted(ts)[j] => i = j
  <2> TAKE i, j \in 1..n
  <2>1. Sorted(ts)[i] = Sorted(ts)[j] => i - 1 = j - 1
      BY <1>2
  <2> QED
      BY <2>1, <1>1
<1> QED
    BY <1>1, <1>4, <1>5

LEMMA FolderGrows ==
    ASSUME NEW a \in Nat, NEW b \in Nat, a <= b
    PROVE  a \div Cap \in Nat /\ a \div Cap <= b \div Cap
<1> DEFINE x == a \div Cap
           y == b \div Cap
<1>1. Cap \in Nat /\ Cap > 0
    BY CapAssumption
<1>2. /\ a = Cap * x + (a % Cap) /\ a % Cap \in 0..Cap - 1 /\ x \in Int
      /\ b = Cap * y + (b % Cap) /\ b % Cap \in 0..Cap - 1 /\ y \in Int
    BY <1>1
<1>3. x >= 0
  <2>1. CASE x <= -1
    <3>1. Cap * x <= Cap * (-1)
        BY <1>1, <1>2, <2>1
    <3>2. Cap * (-1) = -Cap
        BY <1>1
    <3> QED
        BY <1>1, <1>2, <3>1, <3>2
  <2> QED
      BY <1>2, <2>1
<1>4. x <= y
  <2>1. CASE x >= y + 1
    <3>1. Cap * x >= Cap * (y + 1)
        BY <1>1, <1>2, <2>1
    <3>2. Cap * (y + 1) = Cap * y + Cap
        BY <1>1, <1>2
    <3> HIDE DEF x, y
    <3>3. Cap * x \in Int /\ Cap * y \in Int
        BY <1>1, <1>2
    <3> QED
        BY <1>1, <1>2, <3>1, <3>2, <3>3
  <2> QED
      BY <1>2, <2>1
<1> QED
    BY <1>2, <1>3, <1>4

\* What the diff hands to the session.
LEMMA DiffFacts ==
    ASSUME TypeOK
    PROVE  /\ ToProcess \in SUBSET Tracks
           /\ Diff.process \in Seq(ToProcess)
           /\ \A i, j \in 1..Len(Diff.process) :
                  Diff.process[i] = Diff.process[j] => i = j
           /\ Diff.displaced \in [Tracks -> Spots \cup {Nowhere}]
           /\ \A t \in Tracks :
                  Diff.displaced[t] # Nowhere => files[Diff.displaced[t]] = t
           /\ Diff.volume \in Volumes
           /\ \A p \in CompliantPresent : p.vol <= Diff.volume
           /\ Diff.count \in Nat
           /\ Diff.next \in Nat \ {0}
           /\ \A p \in CompliantPresent : p.idx < Diff.next
<1>1. ToProcess \in SUBSET Tracks
    BY SourcesAssumption DEF ToProcess, TypeOK
<1>2. /\ Diff.process \in Seq(ToProcess)
      /\ \A i, j \in 1..Len(Diff.process) :
             Diff.process[i] = Diff.process[j] => i = j
    BY <1>1, SortedList DEF Diff
<1>3. ASSUME NEW t \in Tracks
      PROVE  /\ Displaced[t] \in Spots \cup {Nowhere}
             /\ Displaced[t] # Nowhere => files[Displaced[t]] = t
    BY DEF Displaced, SpotOf
<1>4. LastVolume \in Volumes /\ \A p \in CompliantPresent : p.vol <= LastVolume
  <2> DEFINE T == {p.vol : p \in CompliantPresent} \cup {1}
  <2>1. T \in SUBSET Volumes /\ T # {}
      BY BoundsAssumption, CompliantNames DEF CompliantPresent, Volumes
  <2>2. T \in SUBSET (0..MaxVolume)
      BY <2>1 DEF Volumes
  <2>3. Largest(T) \in T /\ \A m \in T : m <= Largest(T)
      BY <2>1, <2>2, LargestOf, BoundsAssumption
  <2> QED
      BY <2>1, <2>3 DEF LastVolume
<1>5. CountIn(LastVolume) \in Nat
  <2>1. {p \in CompliantPresent : p.vol = LastVolume} \in SUBSET Compliant
      BY DEF CompliantPresent
  <2> QED
      BY <2>1, FiniteCompliant, FS_Subset, FS_CardinalityType DEF CountIn
<1>6. NextIndex \in Nat \ {0} /\ \A p \in CompliantPresent : p.idx < NextIndex
  <2> DEFINE T == {p.idx : p \in CompliantPresent} \cup {disk[i].idx : i \in 1..Len(disk)}
                  \cup {0}
  <2>1. {p.idx : p \in CompliantPresent} \in SUBSET (0..MaxIndex)
      BY CompliantNames DEF CompliantPresent
  <2>2. {disk[i].idx : i \in 1..Len(disk)} \in SUBSET (0..MaxIndex)
    <3>1. \A i \in 1..Len(disk) : disk[i] \in Entry
        BY ElementOfSeq DEF TypeOK
    <3> QED
        BY <3>1 DEF Entry
  <2>3. T \in SUBSET (0..MaxIndex) /\ T # {}
      BY <2>1, <2>2, BoundsAssumption
  <2>4. Largest(T) \in T /\ \A m \in T : m <= Largest(T)
      BY <2>3, LargestOf, BoundsAssumption
  <2>5. NextIndex = Largest(T) + 1
      BY DEF NextIndex
  <2>6. \A p \in CompliantPresent : p.idx \in T
      OBVIOUS
  <2> HIDE DEF T
  <2>7. Largest(T) \in Nat
    <3>1. T \subseteq Nat
        BY <2>3
    <3> QED
        BY <2>4, <3>1
  <2>8. ASSUME NEW p \in CompliantPresent PROVE p.idx < NextIndex
    <3>1. p.idx \in 0..MaxIndex /\ p.idx <= Largest(T)
        BY <2>3, <2>4, <2>6
    <3> QED
        BY <2>5, <2>7, <3>1
  <2> QED
      BY <2>5, <2>7, <2>8
<1> QED
    BY <1>1, <1>2, <1>3, <1>4, <1>5, <1>6 DEF Diff, Displaced

-----------------------------------------------------------------------------
(***************************************************************************)
(* The invariant.                                                          *)
(***************************************************************************)
LEMMA InitInv == Init => SInv
<1> SUFFICES ASSUME Init PROVE SInv
    OBVIOUS
<1>1. Len(NoDiff.process) = 0 /\ NoDiff.process = <<>>
    BY DEF NoDiff
<1>2. DOMAIN journal = {}
    BY DEF Init
<1>3. CompliantPresent = {} /\ SlotsPresent = {} /\ Planned = {}
    BY <1>1 DEF Init, CompliantPresent, SlotsPresent, Present, Planned
<1>4. TypeOK
  <2>1. files \in [Places -> Content]
      BY DEF Init, Content
  <2>2. /\ diff.process \in Seq(Tracks)
        /\ diff.displaced \in [Tracks -> Spots \cup {Nowhere}]
        /\ diff.volume \in Nat /\ diff.count \in Nat /\ diff.next \in Nat
        /\ k \in 1..Len(diff.process) + 1
      BY <1>1 DEF Init, NoDiff
  <2>3. disk \in Seq(Entry) /\ mem \in Seq(Entry)
      BY DEF Init
  <2> QED
      BY <1>2, <2>1, <2>2, <2>3 DEF Init, TypeOK
<1>5. PlanInv
    BY <1>1 DEF Init, PlanInv
<1>6. IndicesInv /\ TracksInv
    BY <1>3 DEF Init, IndicesInv, TracksInv, Working
<1>7. MovesInv
    BY <1>3 DEF Init, MovesInv
<1>8. InProgressInv
    BY <1>2 DEF Init, InProgressInv, InterruptedMoveIsFound
<1> QED
    BY <1>4, <1>5, <1>6, <1>7, <1>8 DEF SInv

LEMMA StopStep ==
    ASSUME SInv, NEW report \in BOOLEAN, Stop(report),
           UNCHANGED <<stickVars, disk>>, journal' = journal \/ journal' = <<>>
    PROVE  SInv'
<1>1. /\ Len(NoDiff.process) = 0 /\ NoDiff.process = <<>>
      /\ files' = files /\ source' = source /\ managed' = managed
      /\ quarantine' = quarantine /\ backup' = backup /\ disk' = disk
    BY DEF NoDiff, stickVars
<1>2. /\ DOMAIN journal' \subseteq DOMAIN journal
      /\ \A to \in DOMAIN journal' : journal'[to] = journal[to]
    OBVIOUS
<1>3. UNCHANGED <<CompliantPresent, SlotsPresent>> /\ Planned' = {} /\ pc' = "idle"
    BY <1>1 DEF CompliantPresent, SlotsPresent, Present, Planned, Stop
<1>4. TypeOK'
    BY <1>1, <1>2 DEF SInv, TypeOK, Stop, NoDiff
<1>5. PlanInv'
    BY <1>1 DEF SInv, PlanInv, Stop
<1>6. IndicesInv' /\ TracksInv'
    BY <1>3 DEF SInv, IndicesInv, TracksInv, Working
<1>7. MovesInv'
    BY <1>3 DEF MovesInv
<1>8. InProgressInv'
    BY <1>1, <1>2, <1>3 DEF SInv, InProgressInv, InterruptedMoveIsFound
<1> QED
    BY <1>4, <1>5, <1>6, <1>7, <1>8 DEF SInv

LEMMA PlannedFacts ==
    ASSUME TypeOK
    PROVE  /\ Planned = DOMAIN diff.process
           /\ \A i \in Planned : diff.process[i] \in Tracks
           /\ Len(diff.process) \in Nat
BY ElementOfSeq, LenProperties DEF TypeOK, Planned

\* reconcile leaves no transaction InProgress.
LEMMA ReconciledFacts ==
    ASSUME TypeOK
    PROVE  /\ DOMAIN Reconciled = DOMAIN journal
           /\ \A to \in DOMAIN journal :
                  /\ Reconciled[to] \in Transaction
                  /\ Reconciled[to].status # "InProgress"
<1> SUFFICES ASSUME NEW to \in DOMAIN journal
             PROVE  /\ Reconciled[to] \in Transaction
                    /\ Reconciled[to].status # "InProgress"
    BY DEF Reconciled
<1> DEFINE st == CASE journal[to].status = "Committed" \/ files[to] = to.of -> "Committed"
                   [] OTHER -> IF files[journal[to].from] # Absent THEN "Pending" ELSE "Failed"
<1>1. journal[to] \in Transaction
    BY DEF TypeOK
<1>2. Reconciled[to] = [journal[to] EXCEPT !.status = st]
    BY DEF Reconciled
<1>3. st \in {"Committed", "Pending", "Failed"}
    OBVIOUS
<1> HIDE DEF st
<1> QED
    BY <1>1, <1>2, <1>3 DEF Transaction

\* A step while no session runs, which leaves the slots alone and loses no
\* end of an interrupted move.
LEMMA IdleStep ==
    ASSUME SInv, pc = "idle",
           UNCHANGED <<quarantine, backup, disk, pc, diff, sandbox, untracked,
                       k, active, mem>>,
           source' \in Sources, managed' \in BOOLEAN, success' \in BOOLEAN,
           files' \in [Places -> Content],
           \A p \in Slots : files'[p] = files[p],
           \A p \in Places : files[p] # Absent => files'[p] = files[p],
           \/ journal' = journal
           \/ journal' = Reconciled
    PROVE  SInv'
<1>1. DOMAIN journal' = DOMAIN journal
    BY ReconciledFacts DEF SInv
<1>2. \A to \in DOMAIN journal : journal'[to] \in Transaction
    BY ReconciledFacts DEF SInv, TypeOK
<1>3. SlotsPresent' = SlotsPresent
    BY DEF SlotsPresent, Present, Places
<1>4. TypeOK'
    BY <1>1, <1>2 DEF SInv, TypeOK
<1>5. PlanInv'
    BY DEF SInv, PlanInv
<1>6. IndicesInv' /\ TracksInv'
    BY <1>3 DEF SInv, IndicesInv, TracksInv, Working
<1>7. Planned' = {}
  <2>1. Len(NoDiff.process) = 0
      BY DEF NoDiff
  <2> QED
      BY <2>1 DEF Planned, SInv, PlanInv
<1>8. MovesInv'
    BY <1>7 DEF MovesInv
<1>9. InterruptedMoveIsFound'
  <2> SUFFICES ASSUME NEW to \in DOMAIN journal', journal'[to].status = "InProgress"
               PROVE  files'[to] = to.of \/ files'[journal'[to].from] = to.of
      BY DEF InterruptedMoveIsFound
  <2>1. journal' = journal
      BY <1>1, ReconciledFacts DEF SInv
  <2>2. files[to] = to.of \/ files[journal[to].from] = to.of
      BY <2>1 DEF SInv, InProgressInv, InterruptedMoveIsFound
  <2>3. to \in Slots /\ journal[to] \in Transaction
      BY <2>1 DEF SInv, TypeOK
  <2>4. to \in Places /\ journal[to].from \in Places
      BY <2>3 DEF Places, Compliant, Transaction
  <2>5. to.of # Absent
      BY <2>3, TracksAssumption DEF Slots, Absent
  <2> QED
      BY <2>1, <2>2, <2>4, <2>5
<1>10. InProgressInv'
    BY <1>9 DEF InProgressInv
<1> QED
    BY <1>4, <1>5, <1>6, <1>8, <1>10 DEF SInv

LEMMA NoChangeStep == SInv /\ NoChange => SInv'
<1> SUFFICES ASSUME SInv, NoChange PROVE SInv'
    OBVIOUS
<1>1. source \in Sources /\ managed \in BOOLEAN /\ files \in [Places -> Content]
    BY DEF SInv, TypeOK
<1> QED
    BY <1>1, IdleStep DEF NoChange, stickVars

LEMMA EditSourceStep == SInv /\ EditSource => SInv'
<1> SUFFICES ASSUME SInv, EditSource PROVE SInv'
    OBVIOUS
<1>1. managed \in BOOLEAN /\ files \in [Places -> Content]
    BY DEF SInv, TypeOK
<1> QED
    BY <1>1, IdleStep DEF EditSource

\* What users copy lies in no slot, and on no other file.
LEMMA CopyFacts ==
    ASSUME SInv, UserCopies
    PROVE  \E p \in (Spots \cup Unhashed) \cap Places, t \in Copied \cap Content :
              /\ p \notin Slots /\ files[p] = Absent
              /\ p \in Unhashed => CountIn(p.vol) < Cap
              /\ files' = [files EXCEPT ![p] = t]
              /\ files' \in [Places -> Content]
              /\ \A q \in Places : q # p => files'[q] = files[q]
              /\ \A q \in Slots : files'[q] = files[q]
<1>1. files \in [Places -> Content]
    BY DEF SInv, TypeOK
<1>2. PICK p \in Spots \cup Unhashed, t \in Copied :
          /\ files[p] = Absent
          /\ p \in Unhashed => CountIn(p.vol) < Cap
          /\ files' = [files EXCEPT ![p] = t]
    BY DEF UserCopies
<1>3. p \in Places /\ p \notin Slots /\ t \in Content
    BY SpotsAssumption, CompliantNames, CopiedAssumption DEF Places, Compliant, Content
<1>4. /\ files' \in [Places -> Content]
      /\ \A q \in Places : q # p => files'[q] = files[q]
    BY <1>1, <1>2, <1>3
<1>5. \A q \in Slots : files'[q] = files[q]
    BY <1>3, <1>4 DEF Places, Compliant
<1> QED
    BY <1>2, <1>3, <1>4, <1>5

LEMMA UserCopiesStep == SInv /\ UserCopies => SInv'
<1> SUFFICES ASSUME SInv, UserCopies PROVE SInv'
    OBVIOUS
<1>1. managed \in BOOLEAN /\ managed' \in BOOLEAN /\ source \in Sources
    BY DEF SInv, TypeOK, UserCopies
<1>2. /\ files' \in [Places -> Content]
      /\ \A q \in Slots : files'[q] = files[q]
      /\ \A q \in Places : files[q] # Absent => files'[q] = files[q]
    BY CopyFacts
<1> QED
    BY <1>1, <1>2, IdleStep DEF UserCopies

\* The plan of the diff stays within the bounds.
LEMMA TargetsInBounds ==
    ASSUME TypeOK, WithinBounds(Diff), NEW i \in 1..Len(Diff.process)
    PROVE  [vol |-> FolderOf(Diff, i), idx |-> Diff.next + i - 1,
            of |-> Diff.process[i]] \in Slots
<1> DEFINE d == Diff
           n == Len(d.process)
<1>1. /\ d.process \in Seq(ToProcess) /\ ToProcess \in SUBSET Tracks
      /\ d.volume \in Volumes /\ d.count \in Nat /\ d.next \in Nat \ {0}
    BY DiffFacts
<1>2. n \in Nat /\ n > 0 /\ i \in 1..n /\ d.process[i] \in Tracks
    BY <1>1, LenProperties, ElementOfSeq
<1>3. d.next + n - 1 <= MaxIndex /\ FolderOf(d, n) \in Volumes
    BY <1>2 DEF WithinBounds
<1> HIDE DEF d
<1> HIDE DEF n
<1>4. d.next + i - 1 \in 1..MaxIndex
    BY <1>1, <1>2, <1>3, BoundsAssumption
<1>5. FolderOf(d, i) \in Volumes
  <2>1. /\ d.count + i - 1 \in Nat /\ d.count + n - 1 \in Nat
        /\ d.count + i - 1 <= d.count + n - 1
      BY <1>1, <1>2
  <2>2. /\ (d.count + i - 1) \div Cap \in Nat
        /\ (d.count + n - 1) \div Cap \in Nat
        /\ (d.count + i - 1) \div Cap <= (d.count + n - 1) \div Cap
      BY <2>1, FolderGrows
  <2> QED
      BY <1>1, <1>3, <2>2, BoundsAssumption DEF FolderOf, Volumes
<1> QED
    BY <1>2, <1>4, <1>5 DEF Slots, d

LEMMA StartSyncStep == SInv /\ StartSync => SInv'
<1> SUFFICES ASSUME SInv, StartSync PROVE SInv'
    OBVIOUS
<1>1. TypeOK /\ pc' = "sandbox" /\ diff' = Diff /\ WithinBounds(Diff)
    BY DEF SInv, StartSync
<1>2. k = 1 /\ k' = 1 /\ mem = <<>> /\ mem' = <<>>
    BY DEF SInv, PlanInv, StartSync
<1>3. files' = files /\ UNCHANGED <<CompliantPresent, SlotsPresent>> /\ Present' = Present
    BY DEF StartSync, stickVars, CompliantPresent, SlotsPresent, Present
<1>4. /\ Diff.process \in Seq(ToProcess)
      /\ Diff.process \in Seq(Tracks) /\ Len(Diff.process) \in Nat
      /\ \A i \in 1..Len(Diff.process) : Diff.process[i] \in ToProcess
    BY <1>1, DiffFacts, ElementOfSeq, LenProperties
<1>5. Planned' = 1..Len(Diff.process)
    BY <1>1 DEF Planned
<1>6. TypeOK'
  <2>1. sandbox' \in SUBSET RootSpots /\ untracked' \in SUBSET Places
      BY DEF StartSync, Candidates, Untracked, CompliantPresent, SpotsPresent, Present
  <2>2. /\ diff'.process \in Seq(Tracks)
        /\ diff'.displaced \in [Tracks -> Spots \cup {Nowhere}]
        /\ diff'.volume \in Nat /\ diff'.count \in Nat /\ diff'.next \in Nat
      BY <1>1, <1>4, DiffFacts DEF Volumes
  <2>3. k' \in 1..Len(diff'.process) + 1
      BY <1>1, <1>2, <1>4
  <2>4. DOMAIN journal' \subseteq Slots /\ \A to \in DOMAIN journal' : journal'[to] \in Transaction
      BY <1>1, ReconciledFacts DEF StartSync, TypeOK
  <2> QED
      BY <1>1, <2>1, <2>2, <2>3, <2>4 DEF TypeOK, StartSync, stickVars
<1>7. PlanInv'
  <2>1. \A i \in Planned' : TargetOf(i)' \in Slots
      BY <1>1, <1>5, TargetsInBounds DEF TargetOf, FolderOf
  <2>2. \A i, j \in Planned' : diff'.process[i] = diff'.process[j] => i = j
      BY <1>1, <1>5, DiffFacts
  <2>3. sandbox' \subseteq Present'
      BY <1>3 DEF StartSync, Candidates, SpotsPresent
  <2> QED
      BY <1>1, <1>2, <2>1, <2>2, <2>3 DEF PlanInv
<1>8. IndicesInv'
    BY <1>1, <1>3, DiffFacts DEF SInv, IndicesInv, Working
<1>9. TracksInv'
    BY <1>1, <1>3, <1>4, <1>5 DEF SInv, TracksInv, Working, ToProcess
<1>10. MovesInv'
  <2>1. ToProcess \in SUBSET Tracks
      BY <1>1, DiffFacts
  <2>2. ASSUME NEW i \in Planned',
               diff'.displaced[diff'.process[i]] # Nowhere
        PROVE  files'[diff'.displaced[diff'.process[i]]] = diff'.process[i]
      BY <1>1, <1>3, <1>4, <1>5, <2>1, <2>2, DiffFacts
  <2> QED
      BY <1>1, <2>2 DEF MovesInv, Working
<1>11. InProgressInv'
    BY <1>1, ReconciledFacts DEF StartSync, InProgressInv, InterruptedMoveIsFound
<1> QED
    BY <1>6, <1>7, <1>8, <1>9, <1>10, <1>11 DEF SInv

\* Before the plan files only go away, each after its backup.
LEMMA IsolateStep ==
    ASSUME SInv, pc \in {"sandbox", "isolate"}, NEW p \in Present, Isolate(p),
           UNCHANGED <<source, journal, disk, pc, diff, k, active, mem, success>>,
           sandbox' \in SUBSET sandbox, untracked' \in SUBSET untracked,
           pc = "sandbox" => p \notin sandbox',
           pc = "isolate" => p \notin untracked'
    PROVE  SInv'
<1>1. /\ files \in [Places -> Content] /\ p \in Places
      /\ files[p] \in Tracks \cup {Torn}
    BY DEF SInv, TypeOK, Present, Content
<1>2. files' = files \/ files' = [files EXCEPT ![p] = Absent]
    BY DEF Isolate
<1>3. \A q \in Places : files'[q] = files[q] \/ (q = p /\ files'[q] = Absent)
    BY <1>1, <1>2
<1>4. /\ CompliantPresent' \subseteq CompliantPresent
      /\ SlotsPresent' \subseteq SlotsPresent /\ Present \ {p} \subseteq Present'
    BY <1>3 DEF CompliantPresent, SlotsPresent, Present
<1>5. Planned' = Planned /\ \A i : TargetOf(i)' = TargetOf(i)
    BY DEF Planned, TargetOf, FolderOf
<1>6. TypeOK'
  <2>1. files' \in [Places -> Content] /\ managed' \in BOOLEAN
      BY <1>1, <1>2 DEF SInv, TypeOK, Isolate, Content
  <2>2. quarantine' \in SUBSET (Tracks \cup {Torn}) /\ backup' \in SUBSET (Tracks \cup {Torn})
      BY <1>1 DEF SInv, TypeOK, Isolate
  <2> QED
      BY <2>1, <2>2 DEF SInv, TypeOK
<1>7. PlanInv'
    BY <1>4, <1>5 DEF SInv, PlanInv
<1>8. IndicesInv'
    BY <1>4 DEF SInv, IndicesInv, Working
<1>9. TracksInv'
    BY <1>4, <1>5 DEF SInv, TracksInv, Working
<1>10. MovesInv'
  <2>1. ASSUME NEW i \in Planned, diff.displaced[diff.process[i]] # Nowhere
        PROVE  files'[diff.displaced[diff.process[i]]] \in {Absent, diff.process[i]}
    <3>1. diff.process[i] \in Tracks
        BY PlannedFacts DEF SInv
    <3>2. diff.displaced[diff.process[i]] \in Places
        BY <2>1, <3>1 DEF SInv, TypeOK, Places
    <3>3. files[diff.displaced[diff.process[i]]] \in {Absent, diff.process[i]}
        BY <2>1 DEF SInv, MovesInv
    <3> QED
        BY <1>3, <3>2, <3>3
  <2> QED
      BY <1>5, <2>1 DEF MovesInv, Working
<1>11. InProgressInv'
  <2>1. \A to \in DOMAIN journal : journal[to].status # "InProgress"
      BY DEF SInv, InProgressInv
  <2> QED
      BY <2>1 DEF InProgressInv, InterruptedMoveIsFound
<1> QED
    BY <1>6, <1>7, <1>8, <1>9, <1>10, <1>11 DEF SInv

LEMMA SandboxEntryStep == SInv /\ SandboxEntry => SInv'
<1> SUFFICES ASSUME SInv, SandboxEntry PROVE SInv'
    OBVIOUS
<1>1. PICK p \in sandbox : Isolate(p) /\ sandbox' = sandbox \ {p}
    BY DEF SandboxEntry
<1>2. p \in Present
    BY DEF SInv, PlanInv, SandboxEntry
<1> QED
    BY <1>1, <1>2, IsolateStep DEF SandboxEntry

LEMMA IsolateFileStep == SInv /\ IsolateFile => SInv'
<1> SUFFICES ASSUME SInv, IsolateFile PROVE SInv'
    OBVIOUS
<1>1. PICK p \in untracked : Isolate(p) /\ untracked' = untracked \ {p}
    BY DEF IsolateFile
<1>2. p \in Present
    BY DEF SInv, PlanInv, IsolateFile
<1> QED
    BY <1>1, <1>2, IsolateStep DEF IsolateFile

\* A step that leaves the visible files and the plan as they are.
LEMMA SameFiles ==
    ASSUME UNCHANGED <<files, diff>>
    PROVE  /\ UNCHANGED <<CompliantPresent, SlotsPresent>> /\ Present' = Present
           /\ Planned' = Planned
           /\ \A i : TargetOf(i)' = TargetOf(i)
BY DEF CompliantPresent, SlotsPresent, Present, Planned, TargetOf, FolderOf

LEMMA BackupTracksStep == SInv /\ BackupTracks => SInv'
<1> SUFFICES ASSUME SInv, BackupTracks PROVE SInv'
    OBVIOUS
<1>1. /\ pc = "sandbox" /\ pc' = "isolate" /\ k' = k /\ mem' = mem
      /\ files' = files /\ diff' = diff /\ journal' = journal
    BY DEF BackupTracks
<1>2. /\ UNCHANGED <<CompliantPresent, SlotsPresent>> /\ Present' = Present
      /\ Planned' = Planned /\ \A i : TargetOf(i)' = TargetOf(i)
    BY <1>1, SameFiles
<1>3. TypeOK'
  <2>1. {diff.process[i] : i \in 1..Len(diff.process)} \subseteq Tracks
      BY PlannedFacts DEF SInv, Planned
  <2> QED
      BY <2>1 DEF SInv, TypeOK, BackupTracks
<1>4. PlanInv'
    BY <1>1, <1>2 DEF SInv, PlanInv, BackupTracks
<1>5. IndicesInv' /\ TracksInv'
    BY <1>1, <1>2 DEF SInv, IndicesInv, TracksInv, Working
<1>6. MovesInv'
    BY <1>1, <1>2 DEF SInv, MovesInv, Working
<1>7. InProgressInv'
    BY <1>1 DEF SInv, InProgressInv, InterruptedMoveIsFound
<1> QED
    BY <1>3, <1>4, <1>5, <1>6, <1>7 DEF SInv

LEMMA OpenSessionStep == SInv /\ OpenSession => SInv'
<1> SUFFICES ASSUME SInv, OpenSession PROVE SInv'
    OBVIOUS
<1>1. /\ pc = "isolate" /\ pc' = "plan" /\ k' = k /\ mem' = mem
      /\ files' = files /\ diff' = diff /\ journal' = journal
    BY DEF OpenSession, stickVars
<1>2. /\ UNCHANGED <<CompliantPresent, SlotsPresent>> /\ Present' = Present
      /\ Planned' = Planned /\ \A i : TargetOf(i)' = TargetOf(i)
    BY <1>1, SameFiles
<1>3. TypeOK'
    BY DEF SInv, TypeOK, OpenSession, stickVars
<1>4. PlanInv'
    BY <1>1, <1>2 DEF SInv, PlanInv
<1>5. IndicesInv' /\ TracksInv'
    BY <1>1, <1>2 DEF SInv, IndicesInv, TracksInv, Working
<1>6. MovesInv'
  <2>1. k = 1
      BY <1>1 DEF SInv, PlanInv
  <2>2. \A i \in Planned : ~(i < k)
      BY <2>1, PlannedFacts DEF SInv, Planned
  <2> QED
      BY <1>1, <1>2, <2>2 DEF SInv, MovesInv, Working
<1>7. InProgressInv'
    BY <1>1 DEF SInv, InProgressInv, InterruptedMoveIsFound
<1> QED
    BY <1>3, <1>4, <1>5, <1>6, <1>7 DEF SInv

\* The file a loop has come to.
LEMMA TargetFacts ==
    ASSUME SInv, pc # "idle", k \in Planned
    PROVE  /\ Target = TargetOf(k) /\ Target \in Slots /\ Target \in Places
           /\ Track = diff.process[k] /\ Track \in Tracks
           /\ Target.idx = diff.next + k - 1 /\ Target.of = Track
           /\ From \in Spots \cup {Nowhere}
           /\ k \in Nat /\ diff.next \in Nat
<1>1. Target = TargetOf(k) /\ Track = diff.process[k]
    BY DEF Target, TargetOf, Track
<1>2. Target \in Slots
    BY <1>1 DEF SInv, PlanInv
<1>3. Track \in Tracks
    BY <1>1, PlannedFacts DEF SInv
<1>4. From \in Spots \cup {Nowhere}
    BY <1>3 DEF SInv, TypeOK, From
<1> QED
    BY <1>1, <1>2, <1>3, <1>4 DEF Target, Places, Compliant, SInv, TypeOK, Planned

LEMMA PlanFileStep == SInv /\ PlanFile => SInv'
<1> SUFFICES ASSUME SInv, PlanFile PROVE SInv'
    OBVIOUS
<1>1. /\ pc = "plan" /\ pc' = "plan" /\ k' = k + 1 /\ mem' = mem
      /\ files' = files /\ diff' = diff
      /\ journal' = IF From # Nowhere /\ Kind[Track] = "clean" THEN Ensured ELSE journal
    BY DEF PlanFile, stickVars
<1>2. /\ UNCHANGED <<CompliantPresent, SlotsPresent>> /\ Present' = Present
      /\ Planned' = Planned /\ \A i : TargetOf(i)' = TargetOf(i)
    BY <1>1, SameFiles
<1>3. k \in Planned /\ k + 1 \in 1..Len(diff.process) + 1
    BY PlannedFacts DEF PlanFile, More, SInv, TypeOK, Planned
<1>4. /\ Target = TargetOf(k) /\ Target \in Slots /\ Track = diff.process[k]
      /\ From \in Spots \cup {Nowhere}
    BY <1>1, <1>3, TargetFacts
<1>5. /\ DOMAIN journal \subseteq DOMAIN journal'
      /\ DOMAIN journal' \subseteq DOMAIN journal \cup {Target}
      /\ \A to \in DOMAIN journal : to # Target => journal'[to] = journal[to]
    BY <1>1 DEF Ensured
<1>6. ASSUME From # Nowhere, Kind[Track] = "clean"
      PROVE  /\ Target \in DOMAIN journal' /\ journal'[Target].from = From
             /\ journal'[Target].status \in {"Committed", "Pending"}
    BY <1>1, <1>6 DEF Ensured
<1>7. ASSUME ~(From # Nowhere /\ Kind[Track] = "clean")
      PROVE  journal' = journal
    BY <1>1, <1>7
<1>8. \A to \in DOMAIN journal' : journal'[to].status # "InProgress"
  <2> TAKE to \in DOMAIN journal'
  <2>1. \A x \in DOMAIN journal : journal[x].status # "InProgress"
      BY <1>1 DEF SInv, InProgressInv
  <2> QED
      BY <1>5, <1>6, <1>7, <2>1
<1>9. \A to \in DOMAIN journal' : journal'[to] \in Transaction
  <2>1. \A to \in DOMAIN journal : journal[to] \in Transaction
      BY DEF SInv, TypeOK
  <2>2. ASSUME From # Nowhere, Kind[Track] = "clean"
        PROVE  journal'[Target] \in Transaction
    <3>1. journal'[Target] =
              [from |-> From,
               status |-> IF Target \in DOMAIN journal /\ journal[Target].status = "Committed"
                          THEN "Committed" ELSE "Pending"]
        BY <1>1, <2>2 DEF Ensured
    <3> QED
        BY <1>4, <2>2, <3>1 DEF Transaction
  <2> QED
      BY <1>5, <1>7, <2>1, <2>2
<1>10. TypeOK'
    BY <1>1, <1>3, <1>4, <1>5, <1>9 DEF SInv, TypeOK, PlanFile, stickVars
<1>11. PlanInv'
    BY <1>1, <1>2 DEF SInv, PlanInv
<1>12. IndicesInv' /\ TracksInv'
    BY <1>1, <1>2 DEF SInv, IndicesInv, TracksInv, Working
<1>13. MovesInv'
  <2>1. ASSUME NEW i \in Planned,
               Kind[diff.process[i]] = "clean", diff.displaced[diff.process[i]] # Nowhere,
               i < k + 1
        PROVE  /\ TargetOf(i) \in DOMAIN journal'
               /\ journal'[TargetOf(i)].from = diff.displaced[diff.process[i]]
    <3>1. CASE i = k
        BY <1>4, <1>6, <2>1, <3>1 DEF From
    <3>2. CASE i # k
      <4>1. i < k
          BY <1>3, <2>1, <3>2 DEF Planned
      <4>2. /\ TargetOf(i) \in DOMAIN journal
            /\ journal[TargetOf(i)].from = diff.displaced[diff.process[i]]
          BY <1>1, <2>1, <4>1 DEF SInv, MovesInv
      <4>3. TargetOf(i) # Target
        <5>1. TargetOf(i).idx = diff.next + i - 1 /\ TargetOf(k).idx = diff.next + k - 1
            BY DEF TargetOf
        <5>2. diff.next \in Nat
            BY DEF SInv, TypeOK
        <5> QED
            BY <1>3, <1>4, <3>2, <5>1, <5>2 DEF Planned
      <4> QED
          BY <1>5, <4>2, <4>3
    <3> QED
        BY <3>1, <3>2
  <2>2. \A i \in Planned :
            LET s == diff.displaced[diff.process[i]]
            IN  s # Nowhere => files[s] \in {Absent, diff.process[i]}
      BY <1>1 DEF SInv, MovesInv
  <2> QED
      BY <1>1, <1>2, <2>1, <2>2 DEF MovesInv, Working
<1>14. InProgressInv'
    BY <1>1, <1>8 DEF InProgressInv, InterruptedMoveIsFound
<1> QED
    BY <1>10, <1>11, <1>12, <1>13, <1>14 DEF SInv

LEMMA StartLoopStep == SInv /\ StartLoop => SInv'
<1> SUFFICES ASSUME SInv, StartLoop PROVE SInv'
    OBVIOUS
<1>1. /\ pc = "plan" /\ pc' = "loop" /\ k' = 1 /\ mem' = <<>>
      /\ files' = files /\ diff' = diff /\ journal' = journal
    BY DEF StartLoop, stickVars, SInv, PlanInv
<1>2. /\ UNCHANGED <<CompliantPresent, SlotsPresent>> /\ Present' = Present
      /\ Planned' = Planned /\ \A i : TargetOf(i)' = TargetOf(i)
    BY <1>1, SameFiles
<1>3. \A i \in Planned : i < k /\ ~(i < 1)
    BY PlannedFacts DEF StartLoop, More, SInv, TypeOK, Planned
<1>4. TypeOK'
    BY <1>1, PlannedFacts DEF SInv, TypeOK, StartLoop, stickVars
<1>5. PlanInv'
    BY <1>1, <1>2 DEF SInv, PlanInv
<1>6. IndicesInv'
  <2>1. diff.next + 1 - 1 = diff.next
      BY DEF SInv, TypeOK
  <2> QED
      BY <1>1, <1>2, <2>1 DEF SInv, IndicesInv, Working
<1>7. TracksInv'
    BY <1>1, <1>2 DEF SInv, TracksInv, Working
<1>8. MovesInv'
    BY <1>1, <1>2, <1>3 DEF SInv, MovesInv, Working
<1>9. InProgressInv'
    BY <1>1 DEF SInv, InProgressInv, InterruptedMoveIsFound
<1> QED
    BY <1>4, <1>5, <1>6, <1>7, <1>8, <1>9 DEF SInv

LEMMA EnterVolumeStep == SInv /\ EnterVolume => SInv'
<1> SUFFICES ASSUME SInv, EnterVolume PROVE SInv'
    OBVIOUS
<1>1. /\ pc = "loop" /\ pc' = "loop" /\ k' = k /\ mem' = mem
      /\ files' = files /\ diff' = diff /\ journal' = journal
    BY DEF EnterVolume
<1>2. /\ UNCHANGED <<CompliantPresent, SlotsPresent>> /\ Present' = Present
      /\ Planned' = Planned /\ \A i : TargetOf(i)' = TargetOf(i)
    BY <1>1, SameFiles
<1>3. k \in Planned
    BY PlannedFacts DEF EnterVolume, More, SInv, TypeOK, Planned
<1>4. active' \in Volumes
    BY <1>1, <1>3, TargetFacts DEF EnterVolume, Slots
<1>5. disk' \in Seq(Entry)
    BY DEF EnterVolume, SInv, TypeOK
<1>6. TypeOK'
    BY <1>4, <1>5 DEF SInv, TypeOK, EnterVolume
<1>7. PlanInv'
    BY <1>1, <1>2 DEF SInv, PlanInv
<1>8. IndicesInv' /\ TracksInv'
    BY <1>1, <1>2 DEF SInv, IndicesInv, TracksInv, Working
<1>9. MovesInv'
    BY <1>1, <1>2 DEF SInv, MovesInv, Working
<1>10. InProgressInv'
    BY <1>1 DEF SInv, InProgressInv, InterruptedMoveIsFound
<1> QED
    BY <1>6, <1>7, <1>8, <1>9, <1>10 DEF SInv

\* After the loop.
LEMMA AfterLoopStep == SInv /\ (FinishLoop \/ QaPass) => SInv'
<1> SUFFICES ASSUME SInv, FinishLoop \/ QaPass PROVE SInv'
    OBVIOUS
<1>1. /\ pc \in {"loop", "qa"} /\ pc' \in {"qa", "clear"} /\ k' = k /\ mem' = mem
      /\ files' = files /\ diff' = diff /\ journal' = journal
    BY DEF FinishLoop, QaPass, stickVars
<1>2. /\ UNCHANGED <<CompliantPresent, SlotsPresent>> /\ Present' = Present
      /\ Planned' = Planned /\ \A i : TargetOf(i)' = TargetOf(i)
    BY <1>1, SameFiles
<1>3. TypeOK'
    BY DEF SInv, TypeOK, FinishLoop, QaPass, stickVars
<1>4. PlanInv'
    BY <1>1, <1>2 DEF SInv, PlanInv
<1>5. IndicesInv' /\ TracksInv'
    BY <1>1, <1>2 DEF SInv, IndicesInv, TracksInv, Working
<1>6. MovesInv'
    BY <1>1, <1>2 DEF SInv, MovesInv, Working
<1>7. InProgressInv'
    BY <1>1 DEF SInv, InProgressInv, InterruptedMoveIsFound
<1> QED
    BY <1>3, <1>4, <1>5, <1>6, <1>7 DEF SInv

-----------------------------------------------------------------------------
\* The loop's files are added at the end of the checkpoint in memory.
LEMMA RecordedFacts ==
    ASSUME SInv, pc = "loop", k \in Planned,
           NEW st \in {"InProgress", "Completed", "Failed"}
    PROVE  Recorded(st) \in Seq(Entry) /\ Len(Recorded(st)) = k
<1> DEFINE e == [idx |-> Target.idx, of |-> Track, status |-> st]
<1>1. e \in Entry
    BY TargetFacts DEF Slots, Entry
<1>2. mem \in Seq(Entry) /\ Len(mem) = k - 1 /\ k \in Nat
    BY TargetFacts DEF SInv, TypeOK
<1>3. Recorded(st) = Append(mem, e)
    BY DEF Recorded
<1> HIDE DEF e
<1> QED
    BY <1>1, <1>2, <1>3, AppendProperties

LEMMA MarkedFacts ==
    ASSUME SInv, pc \in Working,
           NEW st \in {"InProgress", "Completed", "Failed"}
    PROVE  Marked(st) \in Seq(Entry) /\ Len(Marked(st)) = k
<1>1. mem \in Seq(Entry) /\ Len(mem) = k /\ k \in 1..Len(mem)
    BY PlannedFacts DEF SInv, TypeOK, Working, Planned
<1>2. mem[k] \in Entry
    BY <1>1, ElementOfSeq
<1>3. [mem[k] EXCEPT !.status = st] \in Entry
    BY <1>2 DEF Entry
<1>4. Marked(st) = [mem EXCEPT ![k] = [mem[k] EXCEPT !.status = st]]
    BY DEF Marked
<1> QED
    BY <1>1, <1>3, <1>4, ExceptSeq

\* From one file to the next: what the file in work wrote is below the next.
LEMMA NextFile ==
    ASSUME SInv, pc = "loop" \/ pc \in Working, k \in Planned,
           pc' = "loop", k' = k + 1, diff' = diff,
           \A p \in CompliantPresent' : p \in CompliantPresent \/ p = Target
    PROVE  /\ \A p \in CompliantPresent' : p.idx < diff'.next + k' - 1
           /\ \A p \in SlotsPresent', i \in Planned' :
                  p.of = diff'.process[i] => i < k'
<1>1. /\ Target.idx = diff.next + k - 1 /\ Target.of = diff.process[k]
      /\ k \in Nat /\ diff.next \in Nat
    BY TargetFacts DEF Working
<1>2. Planned' = Planned /\ \A i \in Planned : i \in Nat
    BY DEF Planned
<1>3. \A p \in CompliantPresent : p.idx < diff.next + k - 1 \/ p = Target
    BY DEF SInv, IndicesInv
<1>4. \A p \in CompliantPresent : p.idx \in Nat
    BY CompliantNames DEF CompliantPresent
<1>5. ASSUME NEW p \in CompliantPresent' PROVE p.idx < diff'.next + k' - 1
  <2>1. CASE p = Target
      BY <1>1, <2>1
  <2>2. CASE p # Target
      BY <1>1, <1>3, <1>4, <2>2
  <2> QED
      BY <2>1, <2>2
<1>6. ASSUME NEW p \in SlotsPresent', NEW i \in Planned', p.of = diff'.process[i]
      PROVE  i < k'
  <2>1. CASE p = Target
    <3>1. i = k
        BY <1>1, <1>2, <1>6, <2>1 DEF SInv, PlanInv, Working
    <3> QED
        BY <1>1, <3>1
  <2>2. CASE p # Target
    <3>1. p \in SlotsPresent
        BY <2>2 DEF SlotsPresent, CompliantPresent, Compliant
    <3>2. i < k
        BY <1>2, <1>6, <2>2, <3>1 DEF SInv, TracksInv
    <3>3. i \in Nat
        BY <1>2
    <3> QED
        BY <1>1, <3>2, <3>3
  <2> QED
      BY <2>1, <2>2
<1> QED
    BY <1>5, <1>6

\* The target is the only slot the loop writes to.
LEMMA OnlyTarget ==
    ASSUME SInv, pc = "loop" \/ pc \in Working, k \in Planned,
           \A p \in CompliantPresent' : p \in CompliantPresent \/ p = Target
    PROVE  /\ \A p \in SlotsPresent' : p \in SlotsPresent \/ p = Target
           /\ \A p, q \in SlotsPresent' : p.idx = q.idx => p = q
           /\ \A p, q \in SlotsPresent' : p.of = q.of => p = q
<1>1. /\ Target.idx = diff.next + k - 1 /\ Target.of = diff.process[k]
      /\ k \in Nat /\ diff.next \in Nat
    BY TargetFacts DEF Working
<1>2. ASSUME NEW p \in SlotsPresent, p # Target
      PROVE  p.idx # Target.idx /\ p.of # Target.of
  <2>1. p \in CompliantPresent /\ p.idx \in Nat
      BY CompliantNames DEF CompliantPresent, SlotsPresent, Compliant
  <2>2. p.idx < diff.next + k - 1
      BY <1>2, <2>1 DEF SInv, IndicesInv
  <2>3. p.of # diff.process[k]
      BY <1>1, <1>2 DEF SInv, TracksInv
  <2> QED
      BY <1>1, <2>1, <2>2, <2>3
<1>3. /\ \A p, q \in SlotsPresent : p.idx = q.idx => p = q
      /\ \A p, q \in SlotsPresent : p.of = q.of => p = q
    BY DEF SInv, IndicesInv, TracksInv
<1>4. \A p \in SlotsPresent' : p \in SlotsPresent \/ p = Target
    BY DEF SlotsPresent, CompliantPresent, Compliant
<1> QED
    BY <1>2, <1>3, <1>4

\* From a file in hand to the same file at work.
LEMMA FileInWork ==
    ASSUME SInv, pc = "loop" \/ pc \in Working, k \in Planned,
           pc' \in Working, k' = k, diff' = diff,
           \A p \in CompliantPresent' : p \in CompliantPresent \/ p = Target
    PROVE  IndicesInv' /\ TracksInv'
<1>1. Target' = Target /\ Planned' = Planned
    BY DEF Target, Track, FolderOf, Planned
<1>2. \A p \in CompliantPresent' : p.idx < diff'.next + k' - 1 \/ p = Target'
    BY <1>1 DEF SInv, IndicesInv
<1>3. \A p \in SlotsPresent', i \in Planned' :
          p.of = diff'.process[i] => i < k' \/ p = Target'
    BY <1>1, OnlyTarget DEF SInv, TracksInv
<1> QED
    BY <1>2, <1>3, OnlyTarget DEF IndicesInv, TracksInv, Working

LEMMA FileDone ==
    ASSUME SInv, pc = "loop" \/ pc \in Working, k \in Planned,
           pc' = "loop", k' = k + 1, diff' = diff,
           \A p \in CompliantPresent' : p \in CompliantPresent \/ p = Target
    PROVE  IndicesInv' /\ TracksInv'
BY NextFile, OnlyTarget DEF IndicesInv, TracksInv, Working

\* The loop leaves the planned moves alone, but for the statuses.
LEMMA MovesKept ==
    ASSUME SInv, pc = "loop" \/ pc \in Working,
           pc' = "loop" \/ pc' \in Working, diff' = diff,
           DOMAIN journal' = DOMAIN journal,
           \A to \in DOMAIN journal : journal'[to].from = journal[to].from,
           \A p \in Spots : files'[p] = files[p] \/ files'[p] = Absent,
           pc' = "move" => From' # Nowhere /\ files'[From'] = Track' /\ Kind[Track'] = "clean",
           pc' = "moved" => files'[Target'] = Track'
    PROVE  MovesInv'
<1>1. Planned' = Planned /\ \A i : TargetOf(i)' = TargetOf(i)
    BY DEF Planned, TargetOf, FolderOf
<1>2. ASSUME NEW i \in Planned, diff.displaced[diff.process[i]] # Nowhere
      PROVE  files'[diff.displaced[diff.process[i]]] \in {Absent, diff.process[i]}
  <2>1. diff.process[i] \in Tracks
      BY PlannedFacts DEF SInv
  <2>2. diff.displaced[diff.process[i]] \in Spots
      BY <1>2, <2>1 DEF SInv, TypeOK
  <2>3. files[diff.displaced[diff.process[i]]] \in {Absent, diff.process[i]}
      BY <1>2 DEF SInv, MovesInv, Working
  <2> QED
      BY <2>2, <2>3
<1>3. ASSUME NEW i \in Planned,
             Kind[diff.process[i]] = "clean", diff.displaced[diff.process[i]] # Nowhere
      PROVE  /\ TargetOf(i) \in DOMAIN journal'
             /\ journal'[TargetOf(i)].from = diff.displaced[diff.process[i]]
  <2>1. /\ TargetOf(i) \in DOMAIN journal
        /\ journal[TargetOf(i)].from = diff.displaced[diff.process[i]]
      BY <1>3 DEF SInv, MovesInv
  <2> QED
      BY <2>1
<1> QED
    BY <1>1, <1>2, <1>3 DEF MovesInv

\* A step of the loop on the statuses of the journal.
LEMMA StatusFacts ==
    ASSUME TypeOK, NEW st \in {"Pending", "InProgress", "Committed", "Failed"},
           journal' = [journal EXCEPT ![Target].status = st]
    PROVE  /\ DOMAIN journal' = DOMAIN journal
           /\ \A to \in DOMAIN journal :
                  /\ journal'[to] \in Transaction
                  /\ journal'[to].from = journal[to].from
                  /\ journal'[to].status = IF to = Target THEN st ELSE journal[to].status
<1>1. \A to \in DOMAIN journal : journal[to] \in Transaction
    BY DEF TypeOK
<1>2. DOMAIN journal' = DOMAIN journal
    OBVIOUS
<1>3. \A to \in DOMAIN journal :
          journal'[to] = IF to = Target THEN [journal[to] EXCEPT !.status = st]
                         ELSE journal[to]
    OBVIOUS
<1> QED
    BY <1>1, <1>2, <1>3 DEF Transaction

LEMMA BeginMoveStep == SInv /\ BeginMove => SInv'
<1> SUFFICES ASSUME SInv, BeginMove PROVE SInv'
    OBVIOUS
<1>1. /\ pc = "loop" /\ pc' = "move" /\ k' = k /\ mem' = Recorded("InProgress")
      /\ files' = files /\ diff' = diff
      /\ journal' = [journal EXCEPT ![Target].status = "InProgress"]
      /\ Kind[Track] = "clean" /\ From # Nowhere /\ files[From] # Absent
    BY DEF BeginMove, stickVars, Movable
<1>2. k \in Planned
    BY PlannedFacts DEF BeginMove, More, SInv, TypeOK, Planned
<1>3. /\ UNCHANGED <<CompliantPresent, SlotsPresent>> /\ Planned' = Planned
      /\ \A i : TargetOf(i)' = TargetOf(i)
    BY <1>1, SameFiles
<1>4. Target' = Target /\ Track' = Track /\ From' = From
    BY <1>1 DEF Target, Track, From, FolderOf
<1>5. /\ Target = TargetOf(k) /\ Track = diff.process[k] /\ Target.of = Track
    BY <1>1, <1>2, TargetFacts
<1>6. files[From] = Track
    BY <1>1, <1>2, <1>5 DEF SInv, MovesInv, From
<1>7. Target \in DOMAIN journal /\ journal[Target].from = From
    BY <1>1, <1>2, <1>5 DEF SInv, MovesInv, From
<1>8. /\ DOMAIN journal' = DOMAIN journal
      /\ \A to \in DOMAIN journal :
             /\ journal'[to] \in Transaction
             /\ journal'[to].from = journal[to].from
             /\ journal'[to].status = IF to = Target THEN "InProgress" ELSE journal[to].status
    BY <1>1, StatusFacts DEF SInv
<1>9. TypeOK'
  <2>1. mem' \in Seq(Entry) /\ Len(mem') = k
      BY <1>1, <1>2, RecordedFacts
  <2> QED
      BY <1>1, <1>2, <1>8, <2>1, PlannedFacts DEF SInv, TypeOK, BeginMove, stickVars
<1>10. PlanInv'
    BY <1>1, <1>3 DEF SInv, PlanInv
<1>11. IndicesInv' /\ TracksInv'
    BY <1>1, <1>2, <1>3, FileInWork DEF Working
<1>12. MovesInv'
    BY <1>1, <1>4, <1>6, <1>8, MovesKept DEF Working
<1>13. InProgressInv'
  <2>1. \A to \in DOMAIN journal : journal[to].status # "InProgress"
      BY <1>1 DEF SInv, InProgressInv
  <2>2. \A to \in DOMAIN journal' : journal'[to].status = "InProgress" => to = Target
      BY <1>8, <2>1
  <2> QED
      BY <1>1, <1>4, <1>5, <1>6, <1>7, <1>8, <2>2 DEF InProgressInv, InterruptedMoveIsFound
<1> QED
    BY <1>9, <1>10, <1>11, <1>12, <1>13 DEF SInv

\* A working step is about a planned file.
LEMMA InWork ==
    ASSUME SInv, pc \in Working
    PROVE  k \in Planned
BY PlannedFacts DEF SInv, TypeOK, Working, Planned

LEMMA PlanKept ==
    ASSUME SInv, pc = "loop" \/ pc \in Working, diff' = diff,
           pc' = "loop" \/ pc' \in Working
    PROVE  PlanInv'
<1>1. Planned' = Planned /\ \A i : TargetOf(i)' = TargetOf(i)
    BY DEF Planned, TargetOf, FolderOf
<1> QED
    BY <1>1 DEF SInv, PlanInv, Working

LEMMA RenameMoveStep == SInv /\ RenameMove => SInv'
<1> SUFFICES ASSUME SInv, RenameMove PROVE SInv'
    OBVIOUS
<1>1. /\ pc = "move" /\ pc' = "moved" /\ k' = k /\ mem' = mem
      /\ files' = [files EXCEPT ![Target] = files[From], ![From] = Absent]
      /\ diff' = diff /\ journal' = journal
    BY DEF RenameMove
<1>2. k \in Planned
    BY <1>1, InWork DEF Working
<1>3. Target' = Target /\ Track' = Track
    BY <1>1 DEF Target, Track, FolderOf
<1>4. /\ Target \in Slots /\ Target \in Places /\ Target.of = Track
      /\ Track \in Tracks /\ From \in Spots \cup {Nowhere}
    BY <1>1, <1>2, TargetFacts
<1>5. From \in Spots /\ files[From] = Track
    BY <1>1, <1>4 DEF SInv, MovesInv
<1>6. /\ files \in [Places -> Content] /\ From \in Places /\ From # Target
      /\ From \notin Compliant
    BY <1>4, <1>5, SpotsAssumption DEF SInv, TypeOK, Places, Compliant
<1>7. /\ files' \in [Places -> Content]
      /\ files'[Target] = Track
      /\ files'[From] = Absent
      /\ \A p \in Places : p # Target /\ p # From => files'[p] = files[p]
    BY <1>1, <1>4, <1>5, <1>6 DEF Content
<1>8. \A p \in CompliantPresent' : p \in CompliantPresent \/ p = Target
    BY <1>6, <1>7 DEF CompliantPresent, SlotsPresent, Present
<1>9. \A p \in Spots : files'[p] = files[p] \/ files'[p] = Absent
    BY <1>4, <1>7, SpotsAssumption DEF Places, Compliant
<1>10. TypeOK'
    BY <1>1, <1>7 DEF SInv, TypeOK, RenameMove
<1>11. PlanInv'
    BY <1>1, PlanKept DEF Working
<1>12. IndicesInv' /\ TracksInv'
    BY <1>1, <1>2, <1>8, FileInWork DEF Working
<1>13. MovesInv'
    BY <1>1, <1>3, <1>7, <1>9, MovesKept DEF Working
<1>14. InProgressInv'
    BY <1>1, <1>3, <1>4, <1>7 DEF SInv, InProgressInv, InterruptedMoveIsFound
<1> QED
    BY <1>10, <1>11, <1>12, <1>13, <1>14 DEF SInv

LEMMA CommitMoveStep == SInv /\ CommitMove => SInv'
<1> SUFFICES ASSUME SInv, CommitMove PROVE SInv'
    OBVIOUS
<1>1. /\ pc = "moved" /\ pc' = "loop" /\ k' = k + 1 /\ mem' = Marked("Completed")
      /\ files' = files /\ diff' = diff
      /\ journal' = [journal EXCEPT ![Target].status = "Committed"]
    BY DEF CommitMove, stickVars
<1>2. k \in Planned /\ k \in Nat
    BY <1>1, InWork, TargetFacts DEF Working
<1>3. UNCHANGED <<CompliantPresent, SlotsPresent>>
    BY <1>1, SameFiles
<1>4. /\ DOMAIN journal' = DOMAIN journal
      /\ \A to \in DOMAIN journal :
             /\ journal'[to] \in Transaction
             /\ journal'[to].from = journal[to].from
             /\ journal'[to].status = IF to = Target THEN "Committed" ELSE journal[to].status
    BY <1>1, StatusFacts DEF SInv
<1>5. TypeOK'
  <2>1. mem' \in Seq(Entry) /\ Len(mem') = k' - 1
      BY <1>1, <1>2, MarkedFacts DEF Working
  <2>2. k' \in 1..Len(diff'.process) + 1
      BY <1>1, <1>2, PlannedFacts DEF SInv, Planned
  <2> QED
      BY <1>1, <1>4, <2>1, <2>2 DEF SInv, TypeOK, CommitMove, stickVars
<1>6. PlanInv'
    BY <1>1, PlanKept DEF Working
<1>7. IndicesInv' /\ TracksInv'
    BY <1>1, <1>2, <1>3, FileDone DEF Working
<1>8. MovesInv'
    BY <1>1, <1>4, MovesKept DEF Working
<1>9. InProgressInv'
  <2>1. \A to \in DOMAIN journal' : journal'[to].status # "InProgress"
      BY <1>1, <1>4 DEF SInv, InProgressInv
  <2> QED
      BY <1>1, <2>1 DEF InProgressInv, InterruptedMoveIsFound
<1> QED
    BY <1>5, <1>6, <1>7, <1>8, <1>9 DEF SInv

LEMMA RejectFileStep == SInv /\ RejectFile => SInv'
<1> SUFFICES ASSUME SInv, RejectFile PROVE SInv'
    OBVIOUS
<1>1. /\ pc = "loop" /\ pc' = "loop" /\ k' = k + 1 /\ mem' = Recorded("Failed")
      /\ files' = files /\ diff' = diff /\ journal' = journal
    BY DEF RejectFile, stickVars
<1>2. k \in Planned
    BY PlannedFacts DEF RejectFile, More, SInv, TypeOK, Planned
<1>3. UNCHANGED <<CompliantPresent, SlotsPresent>>
    BY <1>1, SameFiles
<1>4. TypeOK'
  <2>1. mem' \in Seq(Entry) /\ Len(mem') = k' - 1
      BY <1>1, <1>2, RecordedFacts, TargetFacts
  <2>2. k' \in 1..Len(diff'.process) + 1
      BY <1>1, <1>2, PlannedFacts DEF SInv, Planned
  <2> QED
      BY <1>1, <2>1, <2>2 DEF SInv, TypeOK, RejectFile, stickVars
<1>5. PlanInv'
    BY <1>1, PlanKept
<1>6. IndicesInv' /\ TracksInv'
    BY <1>1, <1>2, <1>3, FileDone
<1>7. MovesInv'
    BY <1>1, MovesKept
<1>8. InProgressInv'
    BY <1>1 DEF SInv, InProgressInv, InterruptedMoveIsFound
<1> QED
    BY <1>4, <1>5, <1>6, <1>7, <1>8 DEF SInv

LEMMA BeginEncodeStep == SInv /\ BeginEncode => SInv'
<1> SUFFICES ASSUME SInv, BeginEncode PROVE SInv'
    OBVIOUS
<1>1. /\ pc = "loop" /\ pc' = "encode" /\ k' = k /\ mem' = Recorded("InProgress")
      /\ files' \in {files, [files EXCEPT ![Target] = Torn]}
      /\ diff' = diff /\ journal' = journal
    BY DEF BeginEncode
<1>2. k \in Planned
    BY PlannedFacts DEF BeginEncode, More, SInv, TypeOK, Planned
<1>3. Target \in Slots /\ Target \in Places /\ files \in [Places -> Content]
    BY <1>1, <1>2, TargetFacts DEF SInv, TypeOK
<1>4. /\ files' \in [Places -> Content]
      /\ \A p \in Places : p # Target => files'[p] = files[p]
    BY <1>1, <1>3 DEF Content
<1>5. \A p \in CompliantPresent' : p \in CompliantPresent \/ p = Target
    BY <1>4 DEF CompliantPresent, SlotsPresent, Present
<1>6. \A p \in Spots : files'[p] = files[p]
    BY <1>3, <1>4, SpotsAssumption DEF Places, Compliant
<1>7. TypeOK'
  <2>1. mem' \in Seq(Entry) /\ Len(mem') = k
      BY <1>1, <1>2, RecordedFacts
  <2> QED
      BY <1>1, <1>2, <1>4, <2>1, PlannedFacts DEF SInv, TypeOK, BeginEncode
<1>8. PlanInv'
    BY <1>1, PlanKept DEF Working
<1>9. IndicesInv' /\ TracksInv'
    BY <1>1, <1>2, <1>5, FileInWork DEF Working
<1>10. MovesInv'
    BY <1>1, <1>6, MovesKept DEF Working
<1>11. InProgressInv'
  <2>1. \A to \in DOMAIN journal : journal[to].status # "InProgress"
      BY <1>1 DEF SInv, InProgressInv
  <2> QED
      BY <1>1, <2>1 DEF InProgressInv, InterruptedMoveIsFound
<1> QED
    BY <1>7, <1>8, <1>9, <1>10, <1>11 DEF SInv

\* The two ends of an encoding.
LEMMA EncodeStep == SInv /\ (EncodeOk \/ EncodeFails) => SInv'
<1> SUFFICES ASSUME SInv, EncodeOk \/ EncodeFails PROVE SInv'
    OBVIOUS
<1>1. /\ pc = "encode" /\ pc' = "loop" /\ k' = k + 1
      /\ mem' = Marked("Completed") \/ mem' = Marked("Failed")
      /\ files' = files \/ files' = [files EXCEPT ![Target] = Track]
      /\ diff' = diff /\ journal' = journal
    BY DEF EncodeOk, EncodeFails, stickVars
<1>2. k \in Planned /\ k \in Nat
    BY <1>1, InWork, TargetFacts DEF Working
<1>3. /\ Target \in Slots /\ Target \in Places /\ Track \in Tracks
      /\ files \in [Places -> Content]
    BY <1>1, <1>2, TargetFacts DEF SInv, TypeOK
<1>4. /\ files' \in [Places -> Content]
      /\ \A p \in Places : p # Target => files'[p] = files[p]
    BY <1>1, <1>3 DEF Content
<1>5. \A p \in CompliantPresent' : p \in CompliantPresent \/ p = Target
    BY <1>4 DEF CompliantPresent, SlotsPresent, Present
<1>6. \A p \in Spots : files'[p] = files[p]
    BY <1>3, <1>4, SpotsAssumption DEF Places, Compliant
<1>7. TypeOK'
  <2>1. mem' \in Seq(Entry) /\ Len(mem') = k' - 1
      BY <1>1, <1>2, MarkedFacts DEF Working
  <2>2. k' \in 1..Len(diff'.process) + 1
      BY <1>1, <1>2, PlannedFacts DEF SInv, Planned
  <2> QED
      BY <1>1, <1>4, <2>1, <2>2 DEF SInv, TypeOK, EncodeOk, EncodeFails, stickVars
<1>8. PlanInv'
    BY <1>1, PlanKept DEF Working
<1>9. IndicesInv' /\ TracksInv'
    BY <1>1, <1>2, <1>5, FileDone DEF Working
<1>10. MovesInv'
    BY <1>1, <1>6, MovesKept DEF Working
<1>11. InProgressInv'
  <2>1. \A to \in DOMAIN journal : journal[to].status # "InProgress"
      BY <1>1 DEF SInv, InProgressInv
  <2> QED
      BY <1>1, <2>1 DEF InProgressInv, InterruptedMoveIsFound
<1> QED
    BY <1>7, <1>8, <1>9, <1>10, <1>11 DEF SInv


-----------------------------------------------------------------------------
(***************************************************************************)
(* Folders.  What a session finds has indices below diff.next and lies in  *)
(* folders up to diff.volume, which holds diff.count of it; the rest are   *)
(* files of the plan, which counts them on from there.                     *)
(***************************************************************************)
FoundIn(v) == {p \in CompliantPresent : p.vol = v /\ p.idx < diff.next}

FoundAtMost(v) == IF v < diff.volume THEN Cap
                  ELSE IF v = diff.volume THEN diff.count ELSE 0

CapInv ==
    /\ pc = "idle" => FoldersHoldCap
    /\ pc # "idle" =>
          /\ diff.count <= Cap
          /\ \A v \in Volumes : Cardinality(FoundIn(v)) <= FoundAtMost(v)
          /\ \A p \in CompliantPresent :
                 p.idx >= diff.next => \E i \in Planned : p = TargetOf(i)

LEMMA CountedInt ==
    ASSUME NEW T \in SUBSET Compliant
    PROVE  IsFiniteSet(T) /\ Cardinality(T) \in Nat
BY FiniteCompliant, FS_Subset, FS_CardinalityType

\* The places of the plan that fall into a folder.
LEMMA FolderPlaces ==
    ASSUME NEW x \in Nat, NEW w \in Int, x \div Cap = w
    PROVE  w >= 0 /\ w * Cap \in Nat /\ x \in w * Cap..w * Cap + Cap - 1
<1>1. Cap \in Nat /\ Cap > 0
    BY CapAssumption
<1>2. w \in Nat
    BY FolderGrows
<1>3. x = Cap * (x \div Cap) + (x % Cap) /\ x % Cap \in 0..Cap - 1
    BY <1>1
<1>4. Cap * w = w * Cap /\ w * Cap \in Nat
    BY <1>1, <1>2
<1> QED
    BY <1>1, <1>2, <1>3, <1>4

LEMMA FoldersFromPlan ==
    ASSUME SInv, CapInv, pc # "idle"
    PROVE  FoldersHoldCap
<1> SUFFICES ASSUME NEW v \in Volumes PROVE CountIn(v) <= Cap
    BY DEF FoldersHoldCap
<1> DEFINE all == {p \in CompliantPresent : p.vol = v}
           new == {p \in CompliantPresent : p.vol = v /\ p.idx >= diff.next}
           w == v - diff.volume
           place == [p \in new |-> diff.count + p.idx - diff.next]
           low == IF w = 0 THEN diff.count ELSE w * Cap
<1>1. /\ diff.volume \in Nat /\ diff.count \in Nat /\ diff.next \in Nat
      /\ Cap \in Nat /\ Cap > 0 /\ diff.count <= Cap /\ v \in Nat
    BY CapAssumption DEF SInv, TypeOK, CapInv, Volumes
<1>2. /\ IsFiniteSet(all) /\ Cardinality(all) \in Nat
      /\ IsFiniteSet(new) /\ Cardinality(new) \in Nat
      /\ IsFiniteSet(FoundIn(v)) /\ Cardinality(FoundIn(v)) \in Nat
  <2>1. /\ all \in SUBSET Compliant /\ new \in SUBSET Compliant
        /\ FoundIn(v) \in SUBSET Compliant
      BY DEF CompliantPresent, FoundIn
  <2> QED
      BY <2>1, CountedInt
<1>3. Cardinality(all) <= Cardinality(FoundIn(v)) + Cardinality(new)
  <2>1. \A p \in CompliantPresent : p.idx \in Nat
      BY CompliantNames DEF CompliantPresent
  <2>2. all = FoundIn(v) \cup new
      BY <1>1, <2>1 DEF FoundIn
  <2>3. Cardinality(FoundIn(v) \cup new) =
            Cardinality(FoundIn(v)) + Cardinality(new) - Cardinality(FoundIn(v) \cap new)
      BY <1>2, FS_Union
  <2>4. Cardinality(FoundIn(v) \cap new) \in Nat
      BY <1>2, FS_Intersection, FS_CardinalityType
  <2> HIDE DEF all, new
  <2> QED
      BY <1>2, <2>2, <2>3, <2>4
<1>4. ASSUME NEW p \in new
      PROVE  /\ w >= 0
             /\ place[p] \in low..w * Cap + Cap - 1
  <2>1. PICK i \in Planned : p = TargetOf(i)
      BY DEF CapInv
  <2>2. /\ i \in Nat /\ i >= 1 /\ p.idx = diff.next + i - 1
        /\ v = diff.volume + (diff.count + i - 1) \div Cap
      BY <2>1 DEF TargetOf, FolderOf, Planned
  <2>3. diff.count + i - 1 \in Nat /\ (diff.count + i - 1) \div Cap \in Nat
      BY <1>1, <2>2, FolderGrows
  <2>4. (diff.count + i - 1) \div Cap = w
      BY <1>1, <2>2, <2>3
  <2>5. w \in Nat
      BY <2>3, <2>4
  <2>6. /\ w >= 0 /\ w * Cap \in Nat
        /\ diff.count + i - 1 \in w * Cap..w * Cap + Cap - 1
      BY <2>3, <2>4, <2>5, FolderPlaces
  <2>7. place[p] = diff.count + i - 1
      BY <1>1, <2>2
  <2> HIDE DEF place, w
  <2>8. CASE w = 0
      BY <1>1, <2>2, <2>6, <2>7, <2>8
  <2>9. CASE w # 0
      BY <1>1, <2>2, <2>6, <2>7, <2>9
  <2> QED
      BY <2>8, <2>9
<1>5. \A p, q \in new : place[p] = place[q] => p = q
  <2> TAKE p, q \in new
  <2>1. p.idx \in Nat /\ q.idx \in Nat
      BY CompliantNames DEF CompliantPresent
  <2>2. place[p] = place[q] => p.idx = q.idx
      BY <1>1, <2>1
  <2>3. p \in SlotsPresent /\ q \in SlotsPresent
    <3>1. \A x \in new : x \in Slots
        BY DEF CapInv, SInv, PlanInv
    <3> QED
        BY <3>1 DEF CompliantPresent, SlotsPresent
  <2> QED
      BY <2>2, <2>3 DEF SInv, IndicesInv
<1>6. Cardinality(FoundIn(v)) <= FoundAtMost(v)
    BY DEF CapInv
<1>7. CASE new = {}
  <2>1. Cardinality(new) = 0
      BY <1>7, FS_EmptySet
  <2>2. FoundAtMost(v) <= Cap /\ FoundAtMost(v) \in Nat
      BY <1>1 DEF FoundAtMost
  <2> HIDE DEF all, new
  <2>3. Cardinality(all) <= Cap
      BY <1>1, <1>2, <1>3, <1>6, <2>1, <2>2
  <2> QED
      BY <2>3 DEF CountIn, all
<1>8. CASE new # {}
  <2> DEFINE high == w * Cap + Cap - 1
  <2>1. w \in Nat
    <3>1. PICK p \in new : TRUE
        BY <1>8
    <3>2. w >= 0
        BY <1>4, <3>1
    <3> QED
        BY <1>1, <3>2
  <2>2. w * Cap \in Nat /\ (w = 0 => w * Cap = 0)
      BY <1>1, <2>1
  <2>3. low \in Nat /\ high \in Nat
      BY <1>1, <2>2
  <2>4. place \in Injection(new, low..high)
    <3>1. place \in [new -> low..high]
        BY <1>4
    <3> QED
        BY <1>5, <3>1 DEF Injection, IsInjective
  <2>5. IsFiniteSet(low..high) /\
        Cardinality(low..high) = IF low <= high THEN high - low + 1 ELSE 0
    <3> HIDE DEF low, high
    <3> QED
        BY <2>3, FS_Interval
  <2>6. Cardinality(new) <= Cardinality(low..high)
      BY <2>4, <2>5, FS_Injection
  <2>7. FoundAtMost(v) = IF w = 0 THEN diff.count ELSE 0
      BY <1>1, <2>1 DEF FoundAtMost
  <2> HIDE DEF all, new, place, w
  <2>8. FoundAtMost(v) + Cardinality(low..high) <= Cap
    <3>1. CASE w = 0
        BY <1>1, <2>2, <2>3, <2>5, <2>7, <3>1
    <3>2. CASE w # 0
        BY <1>1, <2>2, <2>3, <2>5, <2>7, <3>2
    <3> QED
        BY <3>1, <3>2
  <2>9. FoundAtMost(v) \in Nat /\ Cardinality(low..high) \in Nat
      BY <1>1, <2>3, <2>5, <2>7
  <2>10. Cardinality(all) <= Cap
    <3> HIDE DEF low, high
    <3> QED
        BY <1>1, <1>2, <1>3, <1>6, <2>6, <2>8, <2>9
  <2> QED
      BY <2>10 DEF CountIn, all
<1> QED
    BY <1>7, <1>8

\* A step of a session: of the slots, only the target may be new.
LEMMA SessionCap ==
    ASSUME SInv, CapInv, pc # "idle", pc' # "idle", diff' = diff,
           \A p \in CompliantPresent' : p \in CompliantPresent \/ (k \in Planned /\ p = Target)
    PROVE  CapInv'
<1>1. Planned' = Planned /\ \A i : TargetOf(i)' = TargetOf(i)
    BY DEF Planned, TargetOf, FolderOf
<1>2. ASSUME NEW p \in CompliantPresent', p \notin CompliantPresent
      PROVE  k \in Planned /\ p = TargetOf(k) /\ ~(p.idx < diff.next)
  <2>1. k \in Planned /\ p = Target
      BY <1>2
  <2>2. /\ Target = TargetOf(k) /\ Target.idx = diff.next + k - 1
        /\ diff.next \in Nat /\ k \in Nat /\ k >= 1
      BY <2>1, TargetFacts DEF Planned
  <2> QED
      BY <2>1, <2>2
<1>3. ASSUME NEW p \in CompliantPresent', p.idx >= diff.next
      PROVE  \E i \in Planned : p = TargetOf(i)
    BY <1>2, <1>3 DEF CapInv
<1>4. ASSUME NEW v \in Volumes
      PROVE  Cardinality(FoundIn(v)') <= FoundAtMost(v)
  <2>1. FoundIn(v)' \subseteq FoundIn(v)
      BY <1>2 DEF FoundIn
  <2>2. FoundIn(v) \in SUBSET Compliant
      BY DEF FoundIn, CompliantPresent
  <2>3. Cardinality(FoundIn(v)') <= Cardinality(FoundIn(v))
      BY <2>1, <2>2, CountedInt, FS_Subset
  <2>4. Cardinality(FoundIn(v)) <= FoundAtMost(v)
      BY DEF CapInv
  <2>5. Cardinality(FoundIn(v)') \in Nat /\ Cardinality(FoundIn(v)) \in Nat
      BY <2>1, <2>2, CountedInt
  <2>6. FoundAtMost(v) \in Nat
      BY CapAssumption DEF FoundAtMost, SInv, TypeOK
  <2> QED
      BY <2>3, <2>4, <2>5, <2>6
<1>5. \A v : FoundAtMost(v)' = FoundAtMost(v)
    BY DEF FoundAtMost
<1> QED
    BY <1>1, <1>3, <1>4, <1>5 DEF CapInv

\* What users copy under compliant names finds room in its folder.
LEMMA UserCopiesCap == SInv /\ CapInv /\ UserCopies => CapInv'
<1> SUFFICES ASSUME SInv, CapInv, UserCopies PROVE CapInv'
    OBVIOUS
<1>1. pc = "idle" /\ pc' = "idle"
    BY DEF UserCopies
<1>2. PICK p \in (Spots \cup Unhashed) \cap Places :
          /\ files[p] = Absent
          /\ p \in Unhashed => CountIn(p.vol) < Cap
          /\ \A q \in Places : q # p => files'[q] = files[q]
    BY CopyFacts
<1> SUFFICES ASSUME NEW v \in Volumes PROVE CountIn(v)' <= Cap
    BY <1>1 DEF CapInv, FoldersHoldCap
<1> DEFINE here == {q \in CompliantPresent : q.vol = v}
           after == {q \in CompliantPresent' : q.vol = v}
<1>3. here \in SUBSET Compliant /\ p \notin here
    BY <1>2 DEF CompliantPresent, Present
<1>4. /\ CountIn(v) = Cardinality(here) /\ CountIn(v)' = Cardinality(after)
      /\ Cardinality(here) <= Cap /\ Cardinality(here) \in Nat
    BY <1>1, <1>3, CountedInt DEF CapInv, FoldersHoldCap, CountIn
<1>5. CASE after \subseteq here
  <2>1. Cardinality(after) <= Cardinality(here) /\ Cardinality(after) \in Nat
      BY <1>3, <1>5, CountedInt, FS_Subset
  <2> HIDE DEF here, after
  <2> QED
      BY <1>4, <2>1, CapAssumption
<1>6. CASE ~(after \subseteq here)
  <2>1. after \subseteq here \cup {p}
      BY <1>2 DEF CompliantPresent, Present, Places
  <2>2. p \in after /\ p \in Compliant /\ p.vol = v
      BY <1>6, <2>1 DEF CompliantPresent
  <2>3. p \in Unhashed
      BY <1>2, <2>2, SpotsAssumption
  <2>4. Cardinality(here) < Cap
      BY <1>2, <1>4, <2>2, <2>3
  <2>5. Cardinality(here \cup {p}) = Cardinality(here) + 1
      BY <1>3, CountedInt, FS_AddElement
  <2>6. Cardinality(after) <= Cardinality(here \cup {p}) /\ Cardinality(after) \in Nat
    <3>1. here \cup {p} \in SUBSET Compliant
        BY <1>3, <2>2
    <3> HIDE DEF here, after
    <3> QED
        BY <2>1, <3>1, CountedInt, FS_Subset
  <2> HIDE DEF here, after
  <2> QED
      BY <1>4, <2>4, <2>5, <2>6, CapAssumption
<1> QED
    BY <1>5, <1>6

\* The end of a session, and what happens between sessions.
LEMMA IdleCap ==
    ASSUME SInv, CapInv, pc' = "idle", CompliantPresent' = CompliantPresent
    PROVE  CapInv'
<1>1. FoldersHoldCap
    BY FoldersFromPlan DEF CapInv
<1> QED
    BY <1>1 DEF CapInv, FoldersHoldCap, CountIn

LEMMA StartSyncCap == SInv /\ CapInv /\ StartSync => CapInv'
<1> SUFFICES ASSUME SInv, CapInv, StartSync PROVE CapInv'
    OBVIOUS
<1>1. /\ pc = "idle" /\ pc' = "sandbox" /\ diff' = Diff
      /\ CompliantPresent' = CompliantPresent
    BY DEF StartSync, stickVars, CompliantPresent, Present
<1>2. /\ Diff.volume \in Volumes /\ Diff.next \in Nat \ {0}
      /\ Diff.count = CountIn(Diff.volume)
      /\ \A p \in CompliantPresent : p.vol <= Diff.volume /\ p.idx < Diff.next
    BY DiffFacts DEF SInv, Diff
<1>3. \A v \in Volumes : CountIn(v) <= Cap
    BY <1>1 DEF CapInv, FoldersHoldCap
<1>4. \A p \in CompliantPresent : p.idx \in Nat /\ p.vol \in Nat
    BY CompliantNames DEF CompliantPresent
<1>5. ASSUME NEW v \in Volumes
      PROVE  Cardinality(FoundIn(v)') <= FoundAtMost(v)'
  <2>1. FoundIn(v)' = {p \in CompliantPresent : p.vol = v}
      BY <1>1, <1>2 DEF FoundIn
  <2>2. Cardinality(FoundIn(v)') = CountIn(v) /\ CountIn(v) \in Nat
    <3>1. {p \in CompliantPresent : p.vol = v} \in SUBSET Compliant
        BY DEF CompliantPresent
    <3> QED
        BY <2>1, <3>1, CountedInt DEF CountIn
  <2>3. CASE v < Diff.volume
      BY <1>1, <1>3, <2>2, <2>3 DEF FoundAtMost
  <2>4. CASE v = Diff.volume
      BY <1>1, <1>2, <2>2, <2>4 DEF FoundAtMost, Volumes
  <2>5. CASE v > Diff.volume
    <3>1. FoundIn(v)' = {}
        BY <1>2, <1>4, <2>1, <2>5 DEF Volumes
    <3>2. Cardinality(FoundIn(v)') = 0
        BY <3>1, FS_EmptySet
    <3> QED
        BY <1>1, <1>2, <2>5, <3>2 DEF FoundAtMost, Volumes
  <2> QED
      BY <1>2, <2>3, <2>4, <2>5 DEF Volumes
<1>6. \A p \in CompliantPresent' : ~(p.idx >= diff'.next)
    BY <1>1, <1>2, <1>4
<1>7. diff'.count <= Cap
    BY <1>1, <1>2, <1>3
<1> QED
    BY <1>1, <1>5, <1>6, <1>7 DEF CapInv

LEMMA CapStep == SInv /\ CapInv /\ [Next]_vars => CapInv'
<1> SUFFICES ASSUME SInv, CapInv, [Next]_vars PROVE CapInv'
    OBVIOUS
<1>1. files \in [Places -> Content]
    BY DEF SInv, TypeOK
<1>2. CASE StartSync
    BY <1>2, StartSyncCap
<1>3. CASE NoChange \/ EditSource \/ OnlyIsolated \/ QaFail \/ ClearJournal \/ Abort
  <2>1. pc' = "idle" /\ files' = files
      BY <1>3 DEF NoChange, EditSource, OnlyIsolated, QaFail, ClearJournal, Abort,
                  Stop, stickVars
  <2>2. CompliantPresent' = CompliantPresent
      BY <2>1 DEF CompliantPresent, Present
  <2> QED
      BY <2>1, <2>2, IdleCap
<1>4. CASE UserCopies
    BY <1>4, UserCopiesCap
<1>5. CASE SandboxEntry \/ IsolateFile
  <2>1. PICK p \in Places : Isolate(p)
      BY <1>5 DEF SandboxEntry, IsolateFile, SInv, TypeOK, Places, Spots
  <2>2. \A q \in Places : files'[q] = files[q] \/ files'[q] = Absent
      BY <1>1, <2>1 DEF Isolate
  <2>3. \A q \in CompliantPresent' : q \in CompliantPresent
      BY <2>2 DEF CompliantPresent, SlotsPresent, Present
  <2> QED
      BY <1>5, <2>3, SessionCap DEF SandboxEntry, IsolateFile
<1>6. CASE RenameMove \/ BeginEncode \/ EncodeOk
  <2>1. /\ pc \in {"loop"} \cup Working /\ pc' # "idle" /\ diff' = diff
        /\ k \in Planned
      BY <1>6, InWork, PlannedFacts
         DEF RenameMove, BeginEncode, EncodeOk, More, SInv, TypeOK, Planned, Working
  <2>2. Target \in Slots /\ From \in Spots \cup {Nowhere} /\ pc # "idle"
      BY <2>1, TargetFacts DEF Working
  <2>3. ASSUME NEW q \in Compliant, q # Target PROVE files'[q] = files[q]
    <3>1. CASE RenameMove
      <4>1. From \in Spots
          BY <2>2, <3>1 DEF RenameMove, SInv, MovesInv
      <4> QED
          BY <1>1, <2>3, <3>1, <4>1, SpotsAssumption DEF RenameMove, Places
    <3>2. CASE BeginEncode \/ EncodeOk
        BY <1>1, <2>3, <3>2 DEF BeginEncode, EncodeOk, Places
    <3> QED
        BY <1>6, <3>1, <3>2
  <2>4. \A q \in CompliantPresent' : q \in CompliantPresent \/ q = Target
      BY <2>3 DEF CompliantPresent, SlotsPresent, Present
  <2> QED
      BY <2>1, <2>2, <2>4, SessionCap
<1>7. CASE BackupTracks \/ OpenSession \/ PlanFile \/ StartLoop \/ EnterVolume
           \/ BeginMove \/ CommitMove \/ RejectFile \/ EncodeFails \/ FinishLoop \/ QaPass
  <2>1. pc # "idle" /\ pc' # "idle" /\ files' = files /\ diff' = diff
      BY <1>7 DEF BackupTracks, OpenSession, PlanFile, StartLoop, EnterVolume,
                  BeginMove, CommitMove, RejectFile, EncodeFails, FinishLoop, QaPass,
                  stickVars
  <2>2. CompliantPresent' = CompliantPresent
      BY <2>1, SameFiles
  <2> QED
      BY <2>1, <2>2, SessionCap
<1>8. CASE UNCHANGED vars
  <2>1. pc' = pc /\ files' = files /\ diff' = diff
      BY <1>8 DEF vars, stickVars
  <2>2. CompliantPresent' = CompliantPresent
      BY <2>1, SameFiles
  <2> QED
      BY <2>1, <2>2, IdleCap, SessionCap
<1> QED
    BY <1>2, <1>3, <1>4, <1>5, <1>6, <1>7, <1>8 DEF Next, Undisturbed, Move

-----------------------------------------------------------------------------
LEMMA StutterStep == SInv /\ UNCHANGED vars => SInv'
<1> SUFFICES ASSUME SInv, UNCHANGED vars PROVE SInv'
    OBVIOUS
<1> USE DEF vars
<1>1. /\ UNCHANGED <<CompliantPresent, SlotsPresent>> /\ Present' = Present
      /\ Planned' = Planned /\ \A i : TargetOf(i)' = TargetOf(i)
    BY SameFiles
<1>2. Target' = Target /\ Track' = Track /\ From' = From
    BY DEF Target, Track, From, FolderOf
<1>3. TypeOK'
    BY DEF SInv, TypeOK
<1>4. PlanInv'
    BY <1>1 DEF SInv, PlanInv
<1>5. IndicesInv' /\ TracksInv'
    BY <1>1, <1>2 DEF SInv, IndicesInv, TracksInv
<1>6. MovesInv'
    BY <1>1, <1>2 DEF SInv, MovesInv
<1>7. InProgressInv'
    BY <1>2 DEF SInv, InProgressInv, InterruptedMoveIsFound
<1> QED
    BY <1>3, <1>4, <1>5, <1>6, <1>7 DEF SInv

\* The steps that end a session.
LEMMA EndSteps == SInv /\ (OnlyIsolated \/ QaFail \/ ClearJournal \/ Abort) => SInv'
<1> SUFFICES ASSUME SInv, OnlyIsolated \/ QaFail \/ ClearJournal \/ Abort PROVE SInv'
    OBVIOUS
<1>1. \E report \in BOOLEAN : Stop(report)
    BY DEF OnlyIsolated, QaFail, ClearJournal, Abort
<1>2. UNCHANGED <<stickVars, disk>> /\ (journal' = journal \/ journal' = <<>>)
    BY DEF OnlyIsolated, QaFail, ClearJournal, Abort, stickVars
<1> QED
    BY <1>1, <1>2, StopStep

LEMMA Invariance == Spec => []SInv
<1>1. SInv /\ [Next]_vars => SInv'
  <2> SUFFICES ASSUME SInv, [Next]_vars PROVE SInv'
      OBVIOUS
  <2>1. CASE Undisturbed
      BY <2>1, NoChangeStep, StartSyncStep, SandboxEntryStep, BackupTracksStep,
         IsolateFileStep, OpenSessionStep, PlanFileStep, StartLoopStep,
         EnterVolumeStep, BeginMoveStep, RenameMoveStep, CommitMoveStep,
         RejectFileStep, BeginEncodeStep, EncodeStep, AfterLoopStep, EndSteps,
         EditSourceStep, UserCopiesStep DEF Undisturbed, Move
  <2>2. CASE EncodeFails \/ Abort
      BY <2>2, EncodeStep, EndSteps
  <2>3. CASE UNCHANGED vars
      BY <2>3, StutterStep
  <2> QED
      BY <2>1, <2>2, <2>3 DEF Next
<1> QED
    BY InitInv, <1>1, PTL DEF Spec

(***************************************************************************)
(* The types, among them that the file in work is the last one recorded in *)
(* the checkpoint.                                                         *)
(***************************************************************************)
THEOREM SyncTypeCorrect == Spec => []TypeOK
<1>1. SInv => TypeOK
    BY DEF SInv
<1> QED
    BY <1>1, Invariance, PTL

(***************************************************************************)
(* Whichever sessions were killed, no two files of the stick share an      *)
(* index, and the main loop gives none that a file of the stick has.        *)
(***************************************************************************)
THEOREM IndicesUnique == Spec => []IndicesAreUnique
<1>1. SInv => IndicesAreUnique
  <2> SUFFICES ASSUME SInv PROVE IndicesAreUnique
      OBVIOUS
  <2>1. ASSUME pc = "loop", More, NEW p \in CompliantPresent
        PROVE  p.idx # Target.idx
    <3>1. k \in Planned
        BY <2>1, PlannedFacts DEF More, SInv, TypeOK, Planned
    <3>2. /\ Target \in Slots /\ Target \in Places
          /\ Target.idx = diff.next + k - 1 /\ k \in Nat /\ diff.next \in Nat
        BY <2>1, <3>1, TargetFacts
    <3>3. p.idx < diff.next + k - 1 /\ p.idx \in Nat
        BY <2>1, CompliantNames DEF SInv, IndicesInv, CompliantPresent
    <3> QED
        BY <3>2, <3>3
  <2> QED
      BY <2>1 DEF SInv, IndicesInv, IndicesAreUnique
<1> QED
    BY <1>1, Invariance, PTL

(***************************************************************************)
(* No track is on the stick twice in VOL_XX folders: a sync run again      *)
(* skips what the killed one has written.                                  *)
(***************************************************************************)
THEOREM TracksUnique == Spec => []TracksAreUnique
<1>1. SInv => TracksAreUnique
    BY DEF SInv, TracksInv, TracksAreUnique
<1> QED
    BY <1>1, Invariance, PTL

LEMMA CapAlways == Spec => []CapInv
<1>1. Init => CapInv
  <2> SUFFICES ASSUME Init, NEW v \in Volumes PROVE CountIn(v) <= Cap
      BY DEF Init, CapInv, FoldersHoldCap
  <2>1. {p \in CompliantPresent : p.vol = v} = {}
      BY DEF Init, CompliantPresent, SlotsPresent, Present
  <2> QED
      BY <2>1, FS_EmptySet, CapAssumption DEF CountIn
<1> QED
    BY <1>1, CapStep, Invariance, PTL DEF Spec

(***************************************************************************)
(* No folder ever holds more than MAX_FILES_PER_FOLDER files under legacy  *)
(* names: the plan counts on from what the last folder holds.              *)
(***************************************************************************)
THEOREM FolderCapacity == Spec => []FoldersHoldCap
<1>1. SInv /\ CapInv => FoldersHoldCap
    BY FoldersFromPlan DEF CapInv
<1> QED
    BY <1>1, CapAlways, Invariance, PTL

(***************************************************************************)
(* A crash in a move leaves the file at one of the two ends its journal    *)
(* names, whatever users and later sessions do before the next reconcile.  *)
(***************************************************************************)
THEOREM InterruptedFound == Spec => []InterruptedMoveIsFound
<1>1. SInv => InterruptedMoveIsFound
    BY DEF SInv, InProgressInv
<1> QED
    BY <1>1, Invariance, PTL

(***************************************************************************)
(* Both quarantines move only what is backed up, and no step loses a       *)
(* backup.                                                                 *)
(***************************************************************************)
THEOREM QuarantineSafe == Spec => []QuarantineIsBackedUp
<1>1. Init => QuarantineIsBackedUp
    BY DEF Init, QuarantineIsBackedUp
<1>2. QuarantineIsBackedUp /\ [Next]_vars => QuarantineIsBackedUp'
  <2> SUFFICES ASSUME QuarantineIsBackedUp, [Next]_vars PROVE QuarantineIsBackedUp'
      OBVIOUS
  <2>1. CASE SandboxEntry \/ IsolateFile
      BY <2>1 DEF SandboxEntry, IsolateFile, Isolate, QuarantineIsBackedUp
  <2>2. CASE BackupTracks
      BY <2>2 DEF BackupTracks, QuarantineIsBackedUp
  <2>3. CASE UNCHANGED <<quarantine, backup>>
      BY <2>3 DEF QuarantineIsBackedUp
  <2>4. SandboxEntry \/ IsolateFile \/ BackupTracks \/ UNCHANGED <<quarantine, backup>>
      BY DEF Next, Undisturbed, Move, vars, stickVars, NoChange, StartSync,
             OnlyIsolated, OpenSession, PlanFile, StartLoop, EnterVolume, BeginMove,
             RenameMove, CommitMove, RejectFile, BeginEncode, EncodeOk, EncodeFails,
             FinishLoop, QaPass, QaFail, ClearJournal, Abort, EditSource, UserCopies
  <2> QED
      BY <2>1, <2>2, <2>3, <2>4
<1> QED
    BY <1>1, <1>2, PTL DEF Spec
-----------------------------------------------------------------------------
(***************************************************************************)
(* What is whole.  An entry of the checkpoint, on the host or in memory,   *)
(* that says Completed has its file; the file in work has the last entry,  *)
(* and nothing that is whole lies where it is written.                     *)
(***************************************************************************)
Vouched(e) ==
    e.status = "Completed" =>
        \/ \E p \in Slots : p.idx = e.idx /\ p.of = e.of /\ files[p] = p.of
        \/ e.of \in quarantine

\* And it has it after the step.
StillVouched(e) ==
    e.status = "Completed" =>
        \/ \E p \in Slots : p.idx = e.idx /\ p.of = e.of /\ files'[p] = p.of
        \/ e.of \in quarantine'

EntryInv == pc \in Working => mem[k].idx = Target.idx /\ mem[k].of = Target.of

FreeInv ==
    /\ pc = "move" => files[Target] = Absent
    /\ pc = "encode" => files[Target] \in {Absent, Torn}

WrittenInv ==
    /\ \A i \in 1..Len(disk) : Vouched(disk[i])
    /\ \A i \in 1..Len(mem) : Vouched(mem[i])
    /\ EntryInv
    /\ FreeInv

LEMMA InLoop ==
    ASSUME SInv, More
    PROVE  k \in Planned
BY PlannedFacts DEF More, SInv, TypeOK, Planned

LEMMA TargetFree ==
    ASSUME SInv, pc = "loop", More
    PROVE  files[Target] = Absent
<1>1. k \in Planned
    BY InLoop
<1>2. /\ Target \in Slots /\ Target \in Places
      /\ Target.idx = diff.next + k - 1 /\ k \in Nat /\ diff.next \in Nat
    BY <1>1, TargetFacts
<1>3. Target \notin CompliantPresent
    BY <1>2 DEF SInv, IndicesInv
<1> QED
    BY <1>2, <1>3 DEF CompliantPresent, SlotsPresent, Compliant, Present

LEMMA MoveFacts ==
    ASSUME SInv, RenameMove
    PROVE  /\ Target \in Slots /\ Target \in Places /\ From \in Spots
           /\ From \in Places /\ From \notin Slots
           /\ files[From] = Track /\ Track \in Tracks
           /\ files'[Target] = Track /\ files'[From] = Absent
           /\ \A p \in Places : p # Target /\ p # From => files'[p] = files[p]
<1>1. pc = "move" /\ k \in Planned
    BY InWork DEF RenameMove, Working
<1>2. /\ Target \in Slots /\ Target \in Places
      /\ Track \in Tracks /\ From \in Spots \cup {Nowhere}
    BY <1>1, TargetFacts
<1>3. From \in Spots /\ files[From] = Track
    BY <1>1, <1>2 DEF SInv, MovesInv
<1>4. From \in Places /\ From \notin Slots /\ files \in [Places -> Content]
    BY <1>3, SpotsAssumption DEF SInv, TypeOK, Places, Compliant
<1> QED
    BY <1>2, <1>3, <1>4 DEF RenameMove

LEMMA TargetWritten ==
    ASSUME SInv, BeginEncode \/ EncodeOk
    PROVE  /\ Target \in Slots /\ Target \in Places
           /\ \A p \in Places : p # Target => files'[p] = files[p]
           /\ EncodeOk => files'[Target] = Track
           /\ BeginEncode => files'[Target] \in {files[Target], Torn}
<1>1. pc # "idle" /\ k \in Planned
    BY InLoop, InWork DEF BeginEncode, EncodeOk, Working
<1>2. Target \in Slots /\ Target \in Places /\ files \in [Places -> Content]
    BY <1>1, TargetFacts DEF SInv, TypeOK
<1> QED
    BY <1>2 DEF BeginEncode, EncodeOk

\* The steps on the stick, and all the others.
LEMMA FileSteps ==
    ASSUME [Next]_vars
    PROVE  \/ SandboxEntry \/ IsolateFile \/ RenameMove \/ BeginEncode \/ EncodeOk
           \/ UserCopies
           \/ files' = files /\ quarantine' = quarantine
BY DEF Next, Undisturbed, Move, vars, stickVars, NoChange, StartSync, BackupTracks,
       OnlyIsolated, OpenSession, PlanFile, StartLoop, EnterVolume, BeginMove,
       CommitMove, RejectFile, EncodeFails, FinishLoop, QaPass, QaFail, ClearJournal,
       Abort, EditSource

LEMMA QuarantineGrows ==
    ASSUME [Next]_vars
    PROVE  quarantine \subseteq quarantine'
<1>1. CASE SandboxEntry \/ IsolateFile
    BY <1>1 DEF SandboxEntry, IsolateFile, Isolate
<1>2. CASE RenameMove \/ BeginEncode \/ EncodeOk \/ UserCopies
    BY <1>2 DEF RenameMove, BeginEncode, EncodeOk, UserCopies
<1> QED
    BY <1>1, <1>2, FileSteps

\* What is in a place stays there, but for the file on the move, a torn one
\* that is written again, and what is put away.
LEMMA FileKept ==
    ASSUME SInv, FreeInv, [Next]_vars, NEW p \in Places, files[p] # Absent
    PROVE  \/ files'[p] = files[p]
           \/ files[p] \in quarantine'
           \/ RenameMove /\ p = From
           \/ EncodeOk /\ p = Target /\ files[p] = Torn
<1>1. files \in [Places -> Content]
    BY DEF SInv, TypeOK
<1>2. CASE SandboxEntry \/ IsolateFile
  <2>1. PICK q \in Places : Isolate(q)
    <3>1. sandbox \subseteq Places /\ untracked \subseteq Places
        BY DEF SInv, TypeOK, Places, Spots
    <3> QED
        BY <1>2, <3>1 DEF SandboxEntry, IsolateFile
  <2> QED
      BY <1>1, <2>1 DEF Isolate
<1>3. CASE RenameMove
  <2>1. files[Target] = Absent
      BY <1>3 DEF FreeInv, RenameMove
  <2> QED
      BY <1>3, <2>1, MoveFacts
<1>4. CASE BeginEncode
  <2>1. files[Target] = Absent
      BY <1>4, TargetFree DEF BeginEncode
  <2> QED
      BY <1>4, <2>1, TargetWritten
<1>5. CASE EncodeOk
  <2>1. files[Target] \in {Absent, Torn}
      BY <1>5 DEF FreeInv, EncodeOk
  <2> QED
      BY <1>5, <2>1, TargetWritten
<1>6. CASE UserCopies
  <2>1. PICK q \in Places, t \in Copied :
            files[q] = Absent /\ files' = [files EXCEPT ![q] = t]
      BY <1>6, CopyFacts
  <2> QED
      BY <1>1, <2>1
<1> QED
    BY <1>2, <1>3, <1>4, <1>5, <1>6, FileSteps

LEMMA VouchedKept ==
    ASSUME SInv, WrittenInv, [Next]_vars, NEW e, Vouched(e)
    PROVE  StillVouched(e)
<1> SUFFICES ASSUME e.status = "Completed"
             PROVE  \/ \E p \in Slots : p.idx = e.idx /\ p.of = e.of /\ files'[p] = p.of
                    \/ e.of \in quarantine'
    BY DEF StillVouched
<1>1. CASE e.of \in quarantine
    BY <1>1, QuarantineGrows
<1>2. ASSUME NEW p \in Slots, p.idx = e.idx, p.of = e.of, files[p] = p.of
      PROVE  files'[p] = p.of \/ e.of \in quarantine'
  <2>1. p \in Places /\ p.of \in Tracks
      BY DEF Places, Compliant, Slots
  <2>2. files[p] # Absent /\ files[p] # Torn
      BY <1>2, <2>1, TracksAssumption DEF Absent, Torn
  <2>3. ~(RenameMove /\ p = From)
      BY MoveFacts
  <2> QED
      BY <1>2, <2>1, <2>2, <2>3, FileKept DEF WrittenInv
<1> QED
    BY <1>1, <1>2 DEF Vouched

LEMMA RecordedVouched ==
    ASSUME SInv, WrittenInv, [Next]_vars, pc = "loop", More,
           NEW st \in {"InProgress", "Failed"}, mem' = Recorded(st)
    PROVE  /\ \A i \in 1..Len(mem') : StillVouched(mem'[i])
           /\ mem'[k].idx = Target.idx /\ mem'[k].of = Target.of
<1> DEFINE e == [idx |-> Target.idx, of |-> Track, status |-> st]
<1>1. k \in Planned /\ k \in Nat /\ Target.of = Track /\ e \in Entry
    BY InLoop, TargetFacts DEF Slots, Entry
<1>2. mem \in Seq(Entry) /\ Len(mem) = k - 1 /\ mem' = Append(mem, e)
    BY DEF SInv, TypeOK, Recorded
<1>3. e.status = st /\ e.idx = Target.idx /\ e.of = Track
    OBVIOUS
<1> HIDE DEF e
<1>4. /\ Len(mem') = k /\ mem'[k] = e
      /\ \A i \in 1..k - 1 : mem'[i] = mem[i]
    BY <1>1, <1>2, AppendProperties
<1>5. ASSUME NEW i \in 1..Len(mem') PROVE StillVouched(mem'[i])
  <2>1. CASE i = k
      BY <1>3, <1>4, <2>1 DEF StillVouched
  <2>2. CASE i # k
    <3>1. i \in 1..k - 1
        BY <1>1, <1>4, <2>2
    <3>2. mem'[i] = mem[i] /\ Vouched(mem[i])
        BY <1>2, <1>4, <3>1 DEF WrittenInv
    <3>3. StillVouched(mem[i])
        BY <3>2, VouchedKept
    <3> QED
        BY <3>2, <3>3 DEF StillVouched
  <2> QED
      BY <2>1, <2>2
<1> QED
    BY <1>1, <1>3, <1>4, <1>5

LEMMA MarkedVouched ==
    ASSUME SInv, WrittenInv, [Next]_vars, pc \in Working,
           NEW st \in {"Completed", "Failed"}, mem' = Marked(st),
           st = "Completed" => files'[Target] = Track
    PROVE  \A i \in 1..Len(mem') : StillVouched(mem'[i])
<1>1. /\ k \in Planned /\ Target \in Slots /\ Target.of = Track
    BY InWork, TargetFacts DEF Working
<1>2. mem \in Seq(Entry) /\ Len(mem) = k /\ k \in 1..Len(mem)
    BY <1>1, PlannedFacts DEF SInv, TypeOK, Working, Planned
<1>3. mem[k].idx = Target.idx /\ mem[k].of = Target.of /\ mem[k] \in Entry
    BY <1>2, ElementOfSeq DEF WrittenInv, EntryInv
<1>4. /\ Len(mem') = Len(mem)
      /\ mem'[k] = [mem[k] EXCEPT !.status = st]
      /\ \A i \in 1..Len(mem) : i # k => mem'[i] = mem[i]
    BY <1>2 DEF Marked
<1>5. mem'[k].status = st /\ mem'[k].idx = Target.idx /\ mem'[k].of = Target.of
    BY <1>3, <1>4 DEF Entry
<1>6. ASSUME NEW i \in 1..Len(mem') PROVE StillVouched(mem'[i])
  <2>1. CASE i = k
      BY <1>1, <1>5, <2>1 DEF StillVouched
  <2>2. CASE i # k
    <3>1. mem'[i] = mem[i] /\ Vouched(mem[i])
        BY <1>4, <2>2 DEF WrittenInv
    <3>2. StillVouched(mem[i])
        BY <3>1, VouchedKept
    <3> QED
        BY <3>1, <3>2 DEF StillVouched
  <2> QED
      BY <2>1, <2>2
<1> QED
    BY <1>6

LEMMA WrittenStep ==
    ASSUME SInv, WrittenInv, [Next]_vars
    PROVE  WrittenInv'
<1> DEFINE Same == /\ mem' = mem /\ disk' = disk
                   /\ pc \notin Working /\ pc' \notin Working
<1>1. \A i \in 1..Len(disk) : StillVouched(disk[i])
    BY VouchedKept DEF WrittenInv
<1>2. \A i \in 1..Len(mem) : StillVouched(mem[i])
    BY VouchedKept DEF WrittenInv
<1>3. SUFFICES /\ \A i \in 1..Len(disk') : StillVouched(disk'[i])
               /\ \A i \in 1..Len(mem') : StillVouched(mem'[i])
               /\ EntryInv' /\ FreeInv'
    BY DEF WrittenInv, Vouched, StillVouched
<1>4. ASSUME Same PROVE EntryInv' /\ FreeInv'
    BY <1>4 DEF EntryInv, FreeInv, Working
<1>5. CASE NoChange \/ StartSync \/ SandboxEntry \/ BackupTracks \/ IsolateFile
           \/ OpenSession \/ PlanFile \/ StartLoop
           \/ EditSource \/ UserCopies
  <2>1. Same
      BY <1>5 DEF Working, NoChange, StartSync, SandboxEntry, BackupTracks, IsolateFile,
                  OpenSession, PlanFile, StartLoop, EditSource, UserCopies
  <2> QED
      BY <1>1, <1>2, <1>4, <2>1
<1>6. CASE OnlyIsolated \/ QaFail \/ ClearJournal \/ Abort
  <2>1. mem' = <<>> /\ disk' = disk /\ pc' = "idle"
      BY <1>6 DEF OnlyIsolated, QaFail, ClearJournal, Abort, Stop
  <2>2. \A i \in 1..Len(mem') : FALSE
      BY <2>1
  <2> QED
      BY <1>1, <2>1, <2>2 DEF EntryInv, FreeInv, Working
<1>7. CASE EnterVolume \/ FinishLoop \/ QaPass
  <2>1. /\ mem' = mem /\ (disk' = disk \/ disk' = mem)
        /\ pc' \notin Working
      BY <1>7 DEF EnterVolume, FinishLoop, QaPass, Working
  <2> QED
      BY <1>1, <1>2, <2>1 DEF EntryInv, FreeInv, Working
<1>8. CASE BeginMove
  <2>1. /\ pc = "loop" /\ More /\ mem' = Recorded("InProgress") /\ disk' = disk
        /\ pc' = "move" /\ files' = files /\ k' = k /\ diff' = diff
      BY <1>8 DEF BeginMove, stickVars
  <2>2. Target' = Target
      BY <2>1 DEF Target, Track, FolderOf
  <2>3. files[Target] = Absent
      BY <2>1, TargetFree
  <2>4. /\ \A i \in 1..Len(mem') : StillVouched(mem'[i])
        /\ mem'[k].idx = Target.idx /\ mem'[k].of = Target.of
      BY <2>1, RecordedVouched
  <2> QED
      BY <1>1, <2>1, <2>2, <2>3, <2>4 DEF EntryInv, FreeInv
<1>9. CASE RenameMove
  <2>1. /\ pc = "move" /\ pc' = "moved" /\ mem' = mem /\ disk' = disk
        /\ k' = k /\ diff' = diff
      BY <1>9 DEF RenameMove
  <2>2. Target' = Target
      BY <2>1 DEF Target, Track, FolderOf
  <2>3. EntryInv' /\ FreeInv'
      BY <2>1, <2>2 DEF WrittenInv, EntryInv, FreeInv, Working
  <2> QED
      BY <1>1, <1>2, <2>1, <2>3
<1>10. CASE CommitMove
  <2>1. /\ pc = "moved" /\ pc' = "loop" /\ mem' = Marked("Completed") /\ disk' = disk
        /\ files'[Target] = Track
      BY <1>10 DEF CommitMove, stickVars
  <2>2. \A i \in 1..Len(mem') : StillVouched(mem'[i])
      BY <2>1, MarkedVouched DEF Working
  <2> QED
      BY <1>1, <2>1, <2>2 DEF EntryInv, FreeInv, Working
<1>11. CASE RejectFile
  <2>1. /\ pc = "loop" /\ More /\ pc' = "loop" /\ mem' = Recorded("Failed")
        /\ disk' = disk
      BY <1>11 DEF RejectFile
  <2>2. \A i \in 1..Len(mem') : StillVouched(mem'[i])
      BY <2>1, RecordedVouched
  <2> QED
      BY <1>1, <2>1, <2>2 DEF EntryInv, FreeInv, Working
<1>12. CASE BeginEncode
  <2>1. /\ pc = "loop" /\ More /\ mem' = Recorded("InProgress") /\ disk' = disk
        /\ pc' = "encode" /\ k' = k /\ diff' = diff
      BY <1>12 DEF BeginEncode
  <2>2. Target' = Target
      BY <2>1 DEF Target, Track, FolderOf
  <2>3. files'[Target] \in {Absent, Torn}
      BY <1>12, <2>1, TargetFree, TargetWritten
  <2>4. /\ \A i \in 1..Len(mem') : StillVouched(mem'[i])
        /\ mem'[k].idx = Target.idx /\ mem'[k].of = Target.of
      BY <2>1, RecordedVouched
  <2> QED
      BY <1>1, <2>1, <2>2, <2>3, <2>4 DEF EntryInv, FreeInv
<1>13. CASE EncodeOk \/ EncodeFails
  <2>1. /\ pc = "encode" /\ pc' = "loop" /\ disk' = disk
        /\ \/ mem' = Marked("Completed") /\ EncodeOk
           \/ mem' = Marked("Failed")
      BY <1>13 DEF EncodeOk, EncodeFails
  <2>2. \A i \in 1..Len(mem') : StillVouched(mem'[i])
      BY <2>1, MarkedVouched, TargetWritten DEF Working
  <2> QED
      BY <1>1, <2>1, <2>2 DEF EntryInv, FreeInv, Working
<1>14. CASE UNCHANGED vars
  <2>1. Target' = Target
      BY <1>14 DEF vars, Target, Track, FolderOf
  <2>2. EntryInv' /\ FreeInv'
      BY <1>14, <2>1 DEF vars, WrittenInv, EntryInv, FreeInv
  <2> QED
      BY <1>1, <1>2, <1>14, <2>2 DEF vars
<1> QED
    BY <1>5, <1>6, <1>7, <1>8, <1>9, <1>10, <1>11, <1>12, <1>13, <1>14
       DEF Next, Undisturbed, Move

LEMMA WrittenAlways == Spec => []WrittenInv
<1>1. Init => WrittenInv
    BY DEF Init, WrittenInv, EntryInv, FreeInv, Working
<1>2. SInv /\ WrittenInv /\ [Next]_vars => WrittenInv'
    BY WrittenStep
<1> QED
    BY <1>1, <1>2, Invariance, PTL DEF Spec

(***************************************************************************)
(* What the checkpoint on the host calls Completed is whole on the stick   *)
(* or was put away, after any number of killed and of later sessions.      *)
(***************************************************************************)
THEOREM CheckpointSound == Spec => []CheckpointVouches
<1>1. WrittenInv => CheckpointVouches
    BY DEF WrittenInv, Vouched, CheckpointVouches
<1> QED
    BY <1>1, WrittenAlways, PTL

(***************************************************************************)
(* No step of any sync, killed or not, makes a recording vanish from the   *)
(* stick other than into the quarantine.                                   *)
(***************************************************************************)
THEOREM NothingIsLost == Spec => NothingVanishes
<1>1. SInv /\ WrittenInv /\ [Next]_vars
          => [\A t \in Tracks : OnStick(t) => OnStick(t)' \/ t \in quarantine']_vars
  <2> SUFFICES ASSUME SInv, WrittenInv, [Next]_vars,
                      NEW t \in Tracks, NEW p \in Places, files[p] = t
               PROVE  (\E q \in Places : files'[q] = t) \/ t \in quarantine'
      BY DEF OnStick
  <2>1. files[p] # Absent /\ files[p] # Torn
      BY TracksAssumption DEF Absent, Torn
  <2>2. RenameMove /\ p = From => files'[Target] = t /\ Target \in Places
      BY MoveFacts
  <2> QED
      BY <2>1, <2>2, FileKept DEF WrittenInv
<1> QED
    BY <1>1, Invariance, WrittenAlways, PTL DEF Spec, NothingVanishes
-----------------------------------------------------------------------------
(***************************************************************************)
(* The volumes as a shelf.                                                 *)
(***************************************************************************)
Archive == quarantine \cap Tracks

LEMMA TakenPresent == Taken = CompliantPresent \cap Slots /\ Taken = SlotsPresent
BY DEF Taken, CompliantPresent, SlotsPresent, Compliant, Present, Places

\* What a step leaves alone in the slots it leaves alone on the shelf.
LEMMA SlotsKept ==
    ASSUME \A p \in Slots : files'[p] = files[p]
    PROVE  Taken' = Taken /\ Whole' = Whole
BY DEF Taken, Whole

LEMMA ShutOutside ==
    /\ pc # "encode" => Open = {}
    /\ pc' # "encode" => Open' = {}
BY DEF Open

\* The file a loop has come to goes to the end of the shelf.
LEMMA TargetIsLast ==
    ASSUME SInv, CapInv, pc = "loop" \/ pc \in Working, k \in Planned,
           files[Target] = Absent, NEW q \in Taken
    PROVE  q.idx < Target.idx /\ q.vol <= Target.vol /\ q.of # Target.of
<1>1. /\ Target = TargetOf(k) /\ Target \in Slots
      /\ Target.idx = diff.next + k - 1 /\ Target.of = diff.process[k]
      /\ Target.vol = FolderOf(diff, k)
      /\ k \in Nat /\ k > 0 /\ diff.next \in Nat
  <2>1. pc # "idle"
      BY DEF Working
  <2>2. k > 0
      BY DEF Planned
  <2> QED
      BY <2>1, <2>2, TargetFacts DEF TargetOf
<1>2. q \in CompliantPresent /\ q \in SlotsPresent /\ q # Target /\ q \in Slots
    BY TakenPresent, <1>1 DEF Taken
<1>3. q.idx < Target.idx
    BY <1>1, <1>2 DEF SInv, IndicesInv
<1>4. q.of # Target.of
  <2>1. q.of = diff.process[k] => k < k
      BY <1>2 DEF SInv, TracksInv
  <2> QED
      BY <1>1, <2>1
<1>5. /\ diff.volume \in Nat /\ diff.count \in Nat /\ Cap \in Nat /\ Cap > 0
      /\ q.vol \in Volumes /\ q.idx \in Nat
    BY <1>2, CapAssumption DEF SInv, TypeOK, Slots
<1>6. CASE q.idx >= diff.next
  <2>1. PICK i \in Planned : q = TargetOf(i)
      BY <1>2, <1>6 DEF CapInv, Working
  <2>2. i \in Nat /\ i > 0 /\ q.idx = diff.next + i - 1 /\ q.vol = FolderOf(diff, i)
      BY <2>1 DEF Planned, TargetOf
  <2>3. i < k
      BY <1>1, <1>3, <2>2
  <2>4. /\ diff.count + i - 1 \in Nat /\ diff.count + k - 1 \in Nat
        /\ diff.count + i - 1 <= diff.count + k - 1
      BY <1>1, <1>5, <2>2, <2>3
  <2>5. /\ (diff.count + i - 1) \div Cap \in Nat
        /\ (diff.count + k - 1) \div Cap \in Nat
        /\ (diff.count + i - 1) \div Cap <= (diff.count + k - 1) \div Cap
      BY <2>4, FolderGrows
  <2>6. q.vol <= Target.vol
      BY <1>1, <1>5, <2>2, <2>5 DEF FolderOf
  <2> QED
      BY <1>3, <1>4, <2>6
<1>7. CASE q.idx < diff.next
  <2>1. FoundIn(q.vol) \in SUBSET Compliant /\ q \in FoundIn(q.vol)
      BY <1>2, <1>7 DEF FoundIn, CompliantPresent, Compliant
  <2>2. Cardinality(FoundIn(q.vol)) <= FoundAtMost(q.vol)
      BY <1>5 DEF CapInv, Working
  <2>3. Cardinality(FoundIn(q.vol)) # 0 /\ Cardinality(FoundIn(q.vol)) \in Nat
      BY <2>1, CountedInt, FS_EmptySet
  <2>4. q.vol <= diff.volume
    <3>1. q.vol \in Nat
        BY <1>5 DEF Volumes
    <3> QED
        BY <1>5, <2>2, <2>3, <3>1 DEF FoundAtMost
  <2>5. diff.count + k - 1 \in Nat
      BY <1>1, <1>5
  <2>6. (diff.count + k - 1) \div Cap \in Nat
      BY <2>5, FolderGrows
  <2>7. q.vol <= Target.vol
      BY <1>1, <1>5, <2>4, <2>6 DEF FolderOf, Volumes
  <2> QED
      BY <1>3, <1>4, <2>7
<1> QED
    BY <1>1, <1>5, <1>6, <1>7

\* And its folder has room.
LEMMA TargetFits ==
    ASSUME SInv, CapInv, FoldersHoldCap', pc = "loop" \/ pc \in Working, k \in Planned,
           files[Target] = Absent, Taken' = Taken \cup {Target}, Open = {}
    PROVE  Shelf!IsNext(Target)
<1>1. Target \in Slots /\ Target \notin Taken
    BY TargetFacts DEF Working, Taken
<1>2. Target.vol \in Volumes
    BY <1>1 DEF Slots
<1> DEFINE here == {q \in Taken : q.vol = Target.vol}
           after == {q \in Taken' : q.vol = Target.vol}
<1>3. here \in SUBSET Slots /\ Target \notin here /\ after = here \cup {Target}
    BY <1>1 DEF Taken
<1>4. /\ Cardinality(here) \in Nat
      /\ Cardinality(after) = Cardinality(here) + 1
  <2>1. here \in SUBSET Compliant
      BY <1>3 DEF Compliant
  <2> QED
      BY <1>3, <2>1, CountedInt, FS_AddElement
<1>5. Taken' \subseteq CompliantPresent'
    BY DEF Taken, CompliantPresent, SlotsPresent, Compliant, Present, Places
<1>6. Cardinality(after) <= Cap
  <2> DEFINE all == {q \in CompliantPresent' : q.vol = Target.vol}
  <2>1. Cardinality(all) <= Cap
      BY <1>2 DEF FoldersHoldCap, CountIn
  <2>2. after \subseteq all /\ all \in SUBSET Compliant
      BY <1>5 DEF CompliantPresent
  <2> HIDE DEF after, all
  <2>3. /\ Cardinality(after) <= Cardinality(all)
        /\ Cardinality(after) \in Nat /\ Cardinality(all) \in Nat
      BY <2>2, CountedInt, FS_Subset
  <2> QED
      BY <2>1, <2>3, CapAssumption
<1>7. Cardinality(here) < Cap
    BY <1>4, <1>6, CapAssumption
<1>8. Shelf!Cardinality(here) = Cardinality(here)
    BY DEF Shelf!Cardinality, Cardinality
<1> QED
    BY <1>7, <1>8, TargetIsLast DEF Shelf!IsNext

\* A file comes to the shelf whole, or as a torn one that is being written.
LEMMA TargetShelved ==
    ASSUME SInv, CapInv, FoldersHoldCap', pc = "loop" \/ pc \in Working, k \in Planned,
           files[Target] = Absent, Open = {}, quarantine' = quarantine,
           \A p \in Slots : p # Target => files'[p] = files[p]
    PROVE  /\ files'[Target] = Track /\ Open' = {} => Shelf!Shelve(Target)
           /\ files'[Target] = Torn /\ Open' = {Target} => Shelf!Begin(Target)
<1>1. /\ Target \in Slots /\ Target.of = Track /\ Track \in Tracks
      /\ Track # Absent /\ Torn # Absent /\ Track # Torn
    BY TargetFacts, TracksAssumption DEF Working, Absent, Torn
<1>2. files'[Target] \in {Track, Torn} => Taken' = Taken \cup {Target}
    BY <1>1 DEF Taken
<1>3. files'[Target] = Track => Whole' = Whole \cup {Target}
    BY <1>1 DEF Whole
<1>4. files'[Target] = Torn => Whole' = Whole
    BY <1>1 DEF Whole
<1>5. files'[Target] \in {Track, Torn} => Shelf!IsNext(Target)
    BY <1>2, TargetFits
<1> QED
    BY <1>2, <1>3, <1>4, <1>5 DEF Shelf!Shelve, Shelf!Begin

\* A name says the truth: under it is its track, or a part of it.
NamedInv == \A p \in Slots : files[p] \in {Absent, Torn, p.of}

LEMMA NamedStep ==
    ASSUME SInv, NamedInv, [Next]_vars
    PROVE  NamedInv'
<1> SUFFICES ASSUME NEW p \in Slots PROVE files'[p] \in {Absent, Torn, p.of}
    BY DEF NamedInv
<1>1. files \in [Places -> Content] /\ p \in Places /\ files[p] \in {Absent, Torn, p.of}
    BY DEF SInv, TypeOK, NamedInv, Places, Compliant
<1>2. CASE files' = files
    BY <1>1, <1>2
<1>3. CASE SandboxEntry \/ IsolateFile
    BY <1>1, <1>3 DEF SandboxEntry, IsolateFile, Isolate
<1>4. CASE RenameMove
  <2>1. Target.of = Track
      BY DEF Target
  <2> QED
      BY <1>1, <1>4, <2>1, MoveFacts
<1>5. CASE BeginEncode \/ EncodeOk
  <2>1. Target.of = Track
      BY DEF Target
  <2> QED
      BY <1>1, <1>5, <2>1, TargetWritten
<1>6. CASE UserCopies
  <2>1. PICK q \in Places, t \in Copied : q \notin Slots /\ files' = [files EXCEPT ![q] = t]
      BY <1>6, CopyFacts
  <2>2. p # q
      BY <2>1
  <2> QED
      BY <1>1, <2>1, <2>2
<1> QED
    BY <1>2, <1>3, <1>4, <1>5, <1>6, FileSteps

LEMMA IsolateOnShelf ==
    ASSUME SInv, NamedInv, pc # "encode", pc' # "encode",
           NEW p \in Present, Isolate(p)
    PROVE  [Shelf!Next]_<<Taken, Whole, Open, Archive>>
<1>1. Open = {} /\ Open' = {}
    BY ShutOutside
<1>2. files \in [Places -> Content] /\ p \in Places
    BY DEF SInv, TypeOK, Present
<1>3. CASE UNCHANGED <<files, quarantine>>
  <2>1. Taken' = Taken /\ Whole' = Whole
      BY <1>3, SlotsKept
  <2> QED
      BY <1>1, <1>3, <2>1 DEF Archive
<1>4. CASE /\ quarantine' = quarantine \cup {files[p]}
           /\ files' = [files EXCEPT ![p] = Absent]
  <2>1. files'[p] = Absent /\ \A q \in Places : q # p => files'[q] = files[q]
      BY <1>2, <1>4
  <2>2. CASE p \in Slots
    <3>1. p \in Taken /\ Taken' = Taken \ {p}
        BY <2>1, <2>2 DEF Taken, Present, Places, Compliant
    <3>2. p.of \in Tracks /\ p.of # Absent
        BY <2>2, TracksAssumption DEF Slots, Absent
    <3>3. Whole' = Whole \ {p}
        BY <2>1, <2>2, <3>2 DEF Whole, Places, Compliant
    <3>4. Archive' = Archive \cup (IF p \in Whole THEN {p.of} ELSE {})
      <4>1. files[p] \in {Torn, p.of} /\ Torn \notin Tracks
          BY <2>2, TracksAssumption DEF NamedInv, Present, Torn
      <4> QED
          BY <1>4, <2>2, <3>2, <4>1 DEF Archive, Whole
    <3> QED
        BY <1>1, <2>2, <3>1, <3>3, <3>4 DEF Shelf!Next, Shelf!Withdraw, Archive
  <2>3. CASE p \notin Slots
    <3>1. Taken' = Taken /\ Whole' = Whole
        BY <2>1, <2>3, SlotsKept DEF Places, Compliant
    <3>2. CASE files[p] \in Tracks
      <4>1. Archive' = Archive \cup {files[p]}
          BY <1>4, <3>2 DEF Archive
      <4> QED
          BY <1>1, <3>1, <3>2, <4>1 DEF Shelf!Next, Shelf!Elsewhere, Archive
    <3>3. CASE files[p] \notin Tracks
      <4>1. Archive' = Archive
          BY <1>4, <3>3 DEF Archive
      <4> QED
          BY <1>1, <3>1, <4>1 DEF Archive
    <3> QED
        BY <3>2, <3>3
  <2> QED
      BY <2>2, <2>3
<1> QED
    BY <1>3, <1>4 DEF Isolate

\* Every step of a sync is a step of the shelf.
LEMMA ShelfStep ==
    ASSUME SInv, CapInv, WrittenInv, NamedInv, FoldersHoldCap', [Next]_vars
    PROVE  [Shelf!Next]_<<Taken, Whole, Open, Archive>>
<1>1. CASE UNCHANGED vars
  <2>1. UNCHANGED <<Taken, Whole, Open, Archive>>
      BY <1>1 DEF vars, Taken, Whole, Open, Archive, Target, Track, FolderOf
  <2> QED
      BY <2>1
<1>2. CASE SandboxEntry \/ IsolateFile
  <2>1. /\ pc # "encode" /\ pc' # "encode"
        /\ \E p \in Present : Isolate(p)
      BY <1>2 DEF SandboxEntry, IsolateFile, SInv, PlanInv
  <2> QED
      BY <2>1, IsolateOnShelf
<1>3. CASE RenameMove
  <2>1. /\ pc = "move" /\ pc' = "moved" /\ quarantine' = quarantine
        /\ k \in Planned /\ files[Target] = Absent
      BY <1>3, InWork DEF RenameMove, Working, WrittenInv, FreeInv
  <2>2. /\ files'[Target] = Track
        /\ \A p \in Slots : p # Target => files'[p] = files[p]
      BY <1>3, MoveFacts DEF Places, Compliant
  <2>3. Shelf!Shelve(Target) /\ Target \in Slots
      BY <1>3, <2>1, <2>2, TargetShelved, ShutOutside, MoveFacts DEF Working
  <2> QED
      BY <2>3 DEF Shelf!Next
<1>4. CASE BeginEncode
  <2>1. /\ pc = "loop" /\ pc' = "encode" /\ quarantine' = quarantine
        /\ k \in Planned /\ files[Target] = Absent /\ Open = {} /\ Target' = Target
      BY <1>4, InLoop, TargetFree, ShutOutside DEF BeginEncode, Target, Track, FolderOf
  <2>2. /\ files'[Target] \in {Absent, Torn} /\ Target \in Slots
        /\ \A p \in Slots : p # Target => files'[p] = files[p]
      BY <1>4, <2>1, TargetWritten DEF Places, Compliant
  <2>3. CASE files'[Target] = Torn
    <3>1. Open' = {Target}
        BY <2>1, <2>2, <2>3 DEF Open, Taken, Torn, Absent
    <3>2. Shelf!Begin(Target)
        BY <2>1, <2>2, <2>3, <3>1, TargetShelved
    <3> QED
        BY <2>2, <3>2 DEF Shelf!Next
  <2>4. CASE files'[Target] = Absent
    <3>1. Taken' = Taken /\ Whole' = Whole
        BY <2>1, <2>2, <2>4, SlotsKept
    <3>2. Open' = {}
        BY <2>1, <2>4 DEF Open, Taken
    <3> QED
        BY <2>1, <3>1, <3>2 DEF Archive
  <2> QED
      BY <2>2, <2>3, <2>4
<1>5. CASE EncodeOk
  <2>1. /\ pc = "encode" /\ pc' = "loop" /\ quarantine' = quarantine
        /\ k \in Planned /\ Open' = {} /\ files[Target] \in {Absent, Torn}
      BY <1>5, InWork, ShutOutside DEF EncodeOk, Working, WrittenInv, FreeInv
  <2>2. /\ files'[Target] = Track /\ Target \in Slots
        /\ \A p \in Slots : p # Target => files'[p] = files[p]
      BY <1>5, TargetWritten DEF Places, Compliant
  <2>3. CASE files[Target] = Absent
    <3>1. Open = {}
        BY <2>3 DEF Open, Taken
    <3>2. Shelf!Shelve(Target)
        BY <2>1, <2>2, <2>3, <3>1, TargetShelved DEF Working
    <3> QED
        BY <2>2, <3>2 DEF Shelf!Next
  <2>4. CASE files[Target] = Torn
    <3>1. Open = {Target} /\ Open # {}
        BY <2>1, <2>2, <2>4 DEF Open, Taken, Torn, Absent
    <3>2. Target.of = Track /\ Track # Absent
        BY <2>1, TargetFacts, TracksAssumption DEF Absent
    <3>3. Taken' = Taken
        BY <2>2, <2>4, <3>2 DEF Taken, Torn, Absent
    <3>4. Whole' = Whole \cup {Target}
        BY <2>2, <3>2 DEF Whole
    <3> QED
        BY <2>1, <3>1, <3>3, <3>4 DEF Shelf!Next, Shelf!Complete, Archive
  <2> QED
      BY <2>1, <2>3, <2>4
<1>6. CASE UserCopies
  <2>1. pc # "encode" /\ pc' # "encode" /\ quarantine' = quarantine
      BY <1>6 DEF UserCopies
  <2>2. \A p \in Slots : files'[p] = files[p]
      BY <1>6, CopyFacts
  <2> QED
      BY <2>1, <2>2, SlotsKept, ShutOutside DEF Archive
<1>7. CASE files' = files /\ quarantine' = quarantine /\ pc' # "encode"
  <2>1. Taken' = Taken /\ Whole' = Whole /\ Open' = {}
      BY <1>7, SlotsKept, ShutOutside
  <2> QED
      BY <1>7, <2>1 DEF Shelf!Next, Shelf!GiveUp, Archive
<1>8. \/ pc' # "encode" \/ BeginEncode \/ UNCHANGED vars
    BY DEF Next, Undisturbed, Move, NoChange, StartSync, SandboxEntry, BackupTracks,
       IsolateFile, OnlyIsolated, OpenSession, PlanFile, StartLoop, EnterVolume,
       BeginMove, RenameMove, CommitMove, RejectFile, EncodeOk, EncodeFails,
       FinishLoop, QaPass, QaFail, ClearJournal, Abort, EditSource, UserCopies, Stop
<1> QED
    BY <1>1, <1>2, <1>3, <1>4, <1>5, <1>6, <1>7, <1>8, FileSteps

(***************************************************************************)
(* The VOL_XX folders are a NumberedShelf, through any number of syncs,    *)
(* whatever is killed, fails, is edited or copied by hand between them     *)
(* (OPERATIONAL_DECISIONS.md AD-02).                                       *)
(***************************************************************************)
THEOREM ImplementsShelf == Spec => IsShelf
<1>1. Init => Shelf!Init /\ NamedInv
  <2> SUFFICES ASSUME Init PROVE Shelf!Init /\ NamedInv
      OBVIOUS
  <2>1. \A p \in Slots : files[p] = Absent /\ p.of # Absent
      BY TracksAssumption DEF Init, Places, Compliant, Slots, Absent
  <2>2. Taken = {} /\ Whole = {} /\ Open = {} /\ quarantine = {}
      BY <2>1 DEF Init, Taken, Whole, Open
  <2> QED
      BY <2>1, <2>2 DEF Shelf!Init, NamedInv
<1>2. SInv /\ NamedInv /\ [Next]_vars => NamedInv'
    BY NamedStep
<1>3. SInv /\ CapInv /\ WrittenInv /\ NamedInv /\ FoldersHoldCap' /\ [Next]_vars
          => [Shelf!Next]_<<Taken, Whole, Open, quarantine \cap Tracks>>
    BY ShelfStep DEF Archive
<1> QED
    BY <1>1, <1>2, <1>3, Invariance, CapAlways, WrittenAlways, FolderCapacity, PTL
       DEF Spec, IsShelf, Shelf!Spec
-----------------------------------------------------------------------------
(***************************************************************************)
(* Progress.                                                               *)
(***************************************************************************)
Length == Len(diff.process)
Rest == Length + 1 - k

LEMMA LoopLeft ==
    /\ pc = "loop" => StepsLeft \in {4 * Rest + 3, 4 * Rest + 4}
    /\ pc' = "loop" => StepsLeft' \in {4 * Rest' + 3, 4 * Rest' + 4}
    /\ pc = "loop" /\ More /\ Target.vol # active => StepsLeft = 4 * Rest + 4
    /\ pc' = "loop" /\ ~(More' /\ Target'.vol # active') => StepsLeft' = 4 * Rest' + 3
<1>1. pc = "loop" =>
          StepsLeft = 4 * Rest + (IF More /\ Target.vol # active THEN 4 ELSE 3)
    BY DEF StepsLeft, Rest, Length
<1>2. pc' = "loop" =>
          StepsLeft' = 4 * Rest' + (IF More' /\ Target'.vol # active' THEN 4 ELSE 3)
    BY DEF StepsLeft, Rest, Length
<1> QED
    BY <1>1, <1>2

LEMMA LeftElsewhere ==
    /\ pc = "plan" => StepsLeft = Rest + 4 * Length + 5
    /\ pc' = "plan" => StepsLeft' = Rest' + 4 * Length' + 5
    /\ pc \in {"move", "encode"} => StepsLeft = 4 * Rest + 2
    /\ pc' \in {"move", "encode"} => StepsLeft' = 4 * Rest' + 2
    /\ pc = "moved" => StepsLeft = 4 * Rest + 1
    /\ pc' = "moved" => StepsLeft' = 4 * Rest' + 1
BY DEF StepsLeft, Rest, Length

LEMMA RestType ==
    ASSUME SInv
    PROVE  /\ Length \in Nat /\ Rest \in Nat /\ k \in Nat /\ k >= 1
           /\ More => Rest >= 1
           /\ ~More => Rest = 0
           /\ pc \in {"idle", "sandbox", "isolate"} => Rest = Length
           /\ pc \in Working => Rest >= 1
<1>1. Length \in Nat /\ k \in 1..Length + 1
    BY PlannedFacts DEF SInv, TypeOK, Length
<1>2. pc \in Working => k \in 1..Length
    BY InWork DEF Planned, Length
<1>3. pc \in {"idle", "sandbox", "isolate"} => k = 1
    BY DEF SInv, PlanInv
<1> QED
    BY <1>1, <1>2, <1>3 DEF Rest, More, Length

\* There is a finite number of files, and so of files to be put away.
FiniteInv == IsFiniteSet(Present) /\ IsFiniteSet(sandbox) /\ IsFiniteSet(untracked)

LEMMA PresentGrows ==
    ASSUME SInv, [Next]_vars
    PROVE  \E q : Present' \subseteq Present \cup {q}
<1> USE DEF Present
<1>1. files \in [Places -> Content]
    BY DEF SInv, TypeOK
<1>2. CASE files' = files
    BY <1>2
<1>3. CASE SandboxEntry \/ IsolateFile
    BY <1>1, <1>3 DEF SandboxEntry, IsolateFile, Isolate
<1>4. CASE RenameMove
  <2>1. \A p \in Places : p # Target => files'[p] = files[p] \/ p = From
      BY <1>4, MoveFacts
  <2>2. \A p \in Places : p = From => files[p] # Absent
    <3>1. files[From] \in Tracks
        BY <1>4, MoveFacts
    <3> QED
        BY <3>1, TracksAssumption DEF Absent
  <2> QED
      BY <2>1, <2>2
<1>5. CASE BeginEncode \/ EncodeOk
    BY <1>5, TargetWritten
<1>6. CASE UserCopies
  <2>1. PICK q \in Places, t \in Copied : files' = [files EXCEPT ![q] = t]
      BY <1>6, CopyFacts
  <2> QED
      BY <1>1, <2>1
<1> QED
    BY <1>2, <1>3, <1>4, <1>5, <1>6, FileSteps

LEMMA FiniteStep ==
    ASSUME SInv, FiniteInv, [Next]_vars
    PROVE  FiniteInv'
<1>1. IsFiniteSet(Present')
  <2>1. PICK q : Present' \subseteq Present \cup {q}
      BY PresentGrows
  <2>2. IsFiniteSet(Present \cup {q})
      BY FS_AddElement DEF FiniteInv
  <2> QED
      BY <2>1, <2>2, FS_Subset
<1>2. \/ sandbox' \subseteq sandbox /\ untracked' \subseteq untracked
      \/ sandbox' = Candidates /\ untracked' = Untracked
    BY DEF Next, Undisturbed, Move, vars, stickVars, NoChange, StartSync, SandboxEntry,
       BackupTracks, IsolateFile, OnlyIsolated, OpenSession, PlanFile, StartLoop,
       EnterVolume, BeginMove, RenameMove, CommitMove, RejectFile, BeginEncode, EncodeOk,
       EncodeFails, FinishLoop, QaPass, QaFail, ClearJournal, Abort, EditSource,
       UserCopies, Stop
<1>3. Candidates \subseteq Present /\ Untracked \subseteq Present
    BY DEF Candidates, Untracked, CompliantPresent, SpotsPresent
<1>4. IsFiniteSet(sandbox') /\ IsFiniteSet(untracked')
  <2>1. CASE sandbox' \subseteq sandbox /\ untracked' \subseteq untracked
      BY <2>1, FS_Subset DEF FiniteInv
  <2>2. CASE sandbox' = Candidates /\ untracked' = Untracked
      BY <1>3, <2>2, FS_Subset DEF FiniteInv
  <2> QED
      BY <1>2, <2>1, <2>2
<1> QED
    BY <1>1, <1>4 DEF FiniteInv

LEMMA PutAwayCount ==
    ASSUME FiniteInv
    PROVE  /\ Cardinality(sandbox) \in Nat /\ Cardinality(untracked) \in Nat
           /\ \A p \in sandbox : Cardinality(sandbox \ {p}) = Cardinality(sandbox) - 1
           /\ \A p \in untracked :
                  Cardinality(untracked \ {p}) = Cardinality(untracked) - 1
           /\ Cardinality(untracked \cap Present) \in 0..Cardinality(untracked)
<1>1. IsFiniteSet(sandbox) /\ IsFiniteSet(untracked)
    BY DEF FiniteInv
<1>2. /\ IsFiniteSet(untracked \cap Present)
      /\ Cardinality(untracked \cap Present) <= Cardinality(untracked)
    BY <1>1, FS_Subset
<1> QED
    BY <1>1, <1>2, FS_CardinalityType, FS_RemoveElement

\* Before the loop: files are put away, then every track is planned.
LEMMA EarlyProgress ==
    ASSUME SInv, FiniteInv,
           SandboxEntry \/ BackupTracks \/ IsolateFile \/ OpenSession \/ PlanFile \/ StartLoop
    PROVE  StepsLeft' \in 0..StepsLeft - 1
<1>1. /\ Length \in Nat /\ Rest \in Nat /\ k \in Nat
      /\ Cardinality(sandbox) \in Nat /\ Cardinality(untracked) \in Nat
    BY RestType, PutAwayCount
<1>2. diff' = diff /\ Length' = Length
    BY DEF SandboxEntry, BackupTracks, IsolateFile, OpenSession, PlanFile, StartLoop, Length
<1>3. /\ pc = "sandbox" =>
             StepsLeft = Cardinality(sandbox) + Cardinality(untracked) + 5 * Length + 7
      /\ pc' = "sandbox" =>
             StepsLeft' = Cardinality(sandbox') + Cardinality(untracked') + 5 * Length' + 7
      /\ pc = "isolate" => StepsLeft = Cardinality(untracked) + 5 * Length + 6
      /\ pc' = "isolate" => StepsLeft' = Cardinality(untracked') + 5 * Length' + 6
    BY DEF StepsLeft, Length
<1>4. CASE SandboxEntry
  <2>1. /\ pc = "sandbox" /\ pc' = "sandbox" /\ untracked' = untracked
        /\ \E p \in sandbox : sandbox' = sandbox \ {p}
      BY <1>4 DEF SandboxEntry
  <2>2. Cardinality(sandbox') = Cardinality(sandbox) - 1 /\ Cardinality(sandbox') \in Nat
    <3>1. IsFiniteSet(sandbox')
        BY <2>1, FS_Subset DEF FiniteInv
    <3> QED
        BY <2>1, <3>1, PutAwayCount, FS_CardinalityType
  <2> QED
      BY <1>1, <1>2, <1>3, <2>1, <2>2
<1>5. CASE BackupTracks
  <2>1. /\ pc = "sandbox" /\ pc' = "isolate"
        /\ untracked' = untracked \cap Present
      BY <1>5 DEF BackupTracks
  <2>2. Cardinality(untracked') \in 0..Cardinality(untracked)
      BY <2>1, PutAwayCount
  <2> QED
      BY <1>1, <1>2, <1>3, <2>1, <2>2
<1>6. CASE IsolateFile
  <2>1. /\ pc = "isolate" /\ pc' = "isolate"
        /\ \E p \in untracked : untracked' = untracked \ {p}
      BY <1>6 DEF IsolateFile
  <2>2. /\ Cardinality(untracked') = Cardinality(untracked) - 1
        /\ Cardinality(untracked') \in Nat
    <3>1. IsFiniteSet(untracked')
        BY <2>1, FS_Subset DEF FiniteInv
    <3> QED
        BY <2>1, <3>1, PutAwayCount, FS_CardinalityType
  <2> QED
      BY <1>1, <1>2, <1>3, <2>1, <2>2
<1>7. CASE OpenSession
  <2>1. pc = "isolate" /\ pc' = "plan" /\ Rest = Length /\ Rest' = Rest
      BY <1>7, <1>2, RestType DEF OpenSession, Rest
  <2> QED
      BY <1>1, <1>2, <1>3, <2>1, LeftElsewhere
<1>8. CASE PlanFile
  <2>1. pc = "plan" /\ pc' = "plan" /\ Rest >= 1 /\ Rest' = Rest - 1
      BY <1>8, <1>1, <1>2, RestType DEF PlanFile, Rest
  <2> QED
      BY <1>1, <1>2, <2>1, LeftElsewhere
<1>9. CASE StartLoop
  <2>1. pc = "plan" /\ pc' = "loop" /\ Rest = 0 /\ Rest' = Length
      BY <1>9, <1>1, <1>2, RestType DEF StartLoop, Rest
  <2> QED
      BY <1>1, <1>2, <2>1, LeftElsewhere, LoopLeft
<1> QED
    BY <1>4, <1>5, <1>6, <1>7, <1>8, <1>9

LEMMA LoopProgress ==
    ASSUME SInv,
           EnterVolume \/ Move \/ RejectFile \/ BeginEncode \/ EncodeOk \/ EncodeFails
           \/ FinishLoop \/ QaPass
    PROVE  StepsLeft' \in 0..StepsLeft - 1
<1>1. Length \in Nat /\ Rest \in Nat /\ k \in Nat
    BY RestType
<1>2. diff' = diff /\ Length' = Length
    BY DEF EnterVolume, Move, BeginMove, RenameMove, CommitMove, RejectFile, BeginEncode,
       EncodeOk, EncodeFails, FinishLoop, QaPass, Length
<1>3. k' = k => Rest' = Rest
    BY <1>2 DEF Rest
<1>4. k' = k + 1 => Rest' = Rest - 1
    BY <1>1, <1>2 DEF Rest
<1>5. CASE EnterVolume
  <2>1. /\ pc = "loop" /\ pc' = "loop" /\ More /\ Target.vol # active
        /\ active' = Target.vol /\ k' = k
      BY <1>5 DEF EnterVolume
  <2>2. Target' = Target
      BY <1>2, <2>1 DEF Target, Track, FolderOf
  <2>3. StepsLeft = 4 * Rest + 4 /\ StepsLeft' = 4 * Rest + 3
      BY <1>3, <2>1, <2>2, LoopLeft
  <2> QED
      BY <1>1, <2>3
<1>6. CASE BeginMove \/ BeginEncode
  <2>1. /\ pc = "loop" /\ pc' \in {"move", "encode"} /\ k' = k
      BY <1>6 DEF BeginMove, BeginEncode
  <2> QED
      BY <1>1, <1>3, <2>1, LoopLeft, LeftElsewhere
<1>7. CASE RenameMove
  <2>1. pc = "move" /\ pc' = "moved" /\ k' = k
      BY <1>7 DEF RenameMove
  <2> QED
      BY <1>1, <1>3, <2>1, LeftElsewhere
<1>8. CASE CommitMove \/ EncodeOk \/ EncodeFails
  <2>1. pc \in {"moved", "encode"} /\ pc' = "loop" /\ k' = k + 1 /\ Rest >= 1
      BY <1>8, RestType DEF CommitMove, EncodeOk, EncodeFails, Working
  <2> QED
      BY <1>1, <1>4, <2>1, LoopLeft, LeftElsewhere
<1>9. CASE RejectFile
  <2>1. pc = "loop" /\ pc' = "loop" /\ k' = k + 1 /\ Rest >= 1
      BY <1>9, RestType DEF RejectFile
  <2> QED
      BY <1>1, <1>4, <2>1, LoopLeft
<1>10. CASE FinishLoop
  <2>1. pc = "loop" /\ StepsLeft' = 2
      BY <1>10 DEF FinishLoop, StepsLeft
  <2> QED
      BY <1>1, <2>1, LoopLeft
<1>11. CASE QaPass
    BY <1>11 DEF QaPass, StepsLeft
<1> QED
    BY <1>5, <1>6, <1>7, <1>8, <1>9, <1>10, <1>11 DEF Move

LEMMA LeftWhileBusy ==
    ASSUME SInv, FiniteInv, pc # "idle"
    PROVE  StepsLeft \in Nat /\ StepsLeft >= 1
<1>1. /\ Length \in Nat /\ Rest \in Nat
      /\ Cardinality(sandbox) \in Nat /\ Cardinality(untracked) \in Nat
    BY RestType, PutAwayCount
<1>2. /\ pc = "sandbox" =>
             StepsLeft = Cardinality(sandbox) + Cardinality(untracked) + 5 * Length + 7
      /\ pc = "isolate" => StepsLeft = Cardinality(untracked) + 5 * Length + 6
      /\ pc = "qa" => StepsLeft = 2
      /\ pc = "clear" => StepsLeft = 1
    BY DEF StepsLeft, Length
<1>3. pc \in {"sandbox", "isolate", "plan", "loop", "move", "moved", "encode", "qa", "clear"}
    BY DEF SInv, TypeOK
<1> QED
    BY <1>1, <1>2, <1>3, LoopLeft, LeftElsewhere

LEMMA StepProgress ==
    ASSUME SInv, FiniteInv, [Next]_vars, pc # "idle"
    PROVE  StepsLeft' \in 0..StepsLeft - 1 \/ UNCHANGED vars
<1>1. CASE OnlyIsolated \/ QaFail \/ ClearJournal \/ Abort
  <2>1. StepsLeft' = 0
    <3>1. pc' = "idle"
        BY <1>1 DEF OnlyIsolated, QaFail, ClearJournal, Abort, Stop
    <3> QED
        BY <3>1 DEF StepsLeft
  <2> QED
      BY <2>1, LeftWhileBusy
<1>2. ~(NoChange \/ StartSync \/ EditSource \/ UserCopies)
    BY DEF NoChange, StartSync, EditSource, UserCopies
<1> QED
    BY <1>1, <1>2, EarlyProgress, LoopProgress DEF Next, Undisturbed

(***************************************************************************)
(* Every step of a sync brings it nearer to its end, whatever fails on the *)
(* way, for any stick and any source.                                      *)
(***************************************************************************)
THEOREM SyncGoesOn == Spec => SyncsProgress
<1>1. Init => FiniteInv
  <2>1. Init => Present = {} /\ sandbox = {} /\ untracked = {}
      BY DEF Init, Present
  <2> QED
      BY <2>1, FS_EmptySet DEF FiniteInv
<1>2. SInv /\ FiniteInv /\ [Next]_vars
          => [pc # "idle" => StepsLeft' \in 0..StepsLeft - 1]_vars
    BY StepProgress
<1>3. SInv /\ FiniteInv /\ [Next]_vars => FiniteInv'
    BY FiniteStep
<1> QED
    BY <1>1, <1>2, <1>3, Invariance, PTL DEF Spec, SyncsProgress
=============================================================================
