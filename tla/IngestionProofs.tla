--------------------------- MODULE IngestionProofs ---------------------------
(***************************************************************************)
(* Proofs about Ingestion, for any walk, any names and any recordings.     *)
(***************************************************************************)
EXTENDS Ingestion, FiniteSetTheorems, WellFoundedInduction, TLAPS

LEMMA LeastNumber ==
    ASSUME NEW S \in SUBSET Nat, S # {}
    PROVE  \E n \in S : \A m \in S : n <= m
<1>1. PICK n \in S : \A m \in S : ~(<<m, n>> \in OpToRel(<, Nat))
    BY WFMin, NatLessThanWellFounded
<1>2. ASSUME NEW m \in S PROVE n <= m
  <2>1. <<m, n>> \in Nat \X Nat /\ <<m, n>>[1] = m /\ <<m, n>>[2] = n
      OBVIOUS
  <2>2. ~(m < n)
      BY <1>1, <2>1 DEF OpToRel
  <2> QED
      BY <2>1, <2>2
<1> QED
    BY <1>2

(***************************************************************************)
(* A resolved name is free: one more number than there are names taken is  *)
(* tried (ingestion.rs resolve_collision_free_name).                       *)
(***************************************************************************)
LEMMA ResolvedIsFree ==
    ASSUME NEW base, base[2] \in Seq(Nat), NEW taken, IsFiniteSet(taken)
    PROVE  ResolveName(base, taken) \notin taken
<1> DEFINE n == Cardinality(taken)
           numbers == 1..n + 1
           name(i) == <<base[1], Append(base[2], i)>>
           free == {i \in numbers : name(i) \notin taken}
<1>1. n \in Nat
    BY FS_CardinalityType
<1>2. \A i, j \in Nat : name(i) = name(j) => i = j
  <2> TAKE i, j \in Nat
  <2>1. Append(base[2], i)[Len(base[2]) + 1] = i
      OBVIOUS
  <2>2. Append(base[2], j)[Len(base[2]) + 1] = j
      OBVIOUS
  <2>3. name(i) = name(j) => Append(base[2], i) = Append(base[2], j)
      OBVIOUS
  <2> QED
      BY <2>1, <2>2, <2>3
<1>3. free # {}
  <2> SUFFICES ASSUME \A i \in numbers : name(i) \in taken PROVE FALSE
      OBVIOUS
  <2> DEFINE f == [i \in numbers |-> name(i)]
  <2>1. numbers \subseteq Nat
      BY <1>1
  <2>2. f \in Injection(numbers, taken)
    <3> HIDE DEF numbers, name
    <3>1. f \in [numbers -> taken]
        OBVIOUS
    <3>2. \A i, j \in numbers : f[i] = f[j] => i = j
        BY <1>2, <2>1
    <3> QED
        BY <3>1, <3>2 DEF Injection, IsInjective
  <2>3. Cardinality(numbers) = n + 1
      BY <1>1, FS_Interval
  <2>4. Cardinality(numbers) <= n
      BY <2>2, FS_Injection
  <2> QED
      BY <1>1, <2>3, <2>4
<1>4. free \in SUBSET Nat
    BY <1>1
<1>5. (CHOOSE i \in free : \A m \in free : i <= m) \in free
    BY <1>3, <1>4, LeastNumber
<1>6. CASE base \notin taken
    BY <1>6 DEF ResolveName
<1>7. CASE base \in taken
  <2>1. ResolveName(base, taken) = name(CHOOSE i \in free : \A m \in free : i <= m)
      BY <1>7 DEF ResolveName
  <2> HIDE DEF name, numbers
  <2> QED
      BY <1>5, <2>1
<1> QED
    BY <1>6, <1>7

-----------------------------------------------------------------------------
(***************************************************************************)
(* The invariant.  A naming is what the walk makes of the stick: each file *)
(* gets the first name that none before it has.  It is a property of the   *)
(* stick alone, so that every ingest of the same stick that can read all   *)
(* of it follows the same naming, as far as it comes; the staging          *)
(* directory holds nothing else.                                           *)
(***************************************************************************)
Steps == 1..Len(Walk)
Present(i) == tree[Walk[i]] # Absent
Taken(f, i) == {f[j] : j \in {j \in Steps : j < i /\ Present(j)}}
Naming(f, m) ==
    \A i \in Steps : i <= m /\ Present(i) =>
        f[i] = ResolveName(Base[Walk[i]], Taken(f, i))

Running == pc \in {"ingest", "refactor"}

UsedInv == IsFiniteSet(used) /\ used = Range(placed)
Passed == {Walk[i] : i \in {i \in Steps : i < k /\ Present(i)}}
CopyInv ==
    Running =>
        /\ DOMAIN placed = Passed \ missed
        /\ missed \subseteq Passed
        /\ ~edited => missed = {}
        /\ \A p \in DOMAIN placed : placed[p] \in DOMAIN staging /\ staging[placed[p]] = tree[p]
        /\ \A p, q \in DOMAIN placed : placed[p] = placed[q] => p = q
Explains(f, m) ==
    /\ m \in Nat
    /\ Naming(f, m)
    /\ \A n \in DOMAIN staging : \E i \in Steps : i <= m /\ Present(i) /\ f[i] = n
    /\ Running =>
          \A i \in Steps : i < k /\ Present(i) => i <= m /\ f[i] = placed[Walk[i]]
RestInv == ~edited => \E m, f : Explains(f, m)
DoneInv ==
    /\ done => pc \in {"idle", "session"}
    /\ EveryFileIsStaged
    /\ RerunLeavesNoRest

IInv == TypeOK /\ UsedInv /\ CopyInv /\ RestInv /\ DoneInv

LEMMA WalkFacts ==
    /\ Len(Walk) \in Nat
    /\ Steps \subseteq Nat
    /\ \A i \in Steps : Walk[i] \in Paths
    /\ \A i, j \in Steps : Walk[i] = Walk[j] => i = j
    /\ \A p \in Paths : \E i \in Steps : Walk[i] = p
<1>1. Walk \in Seq(Paths)
    BY WalkAssumption
<1>2. Len(Walk) \in Nat /\ DOMAIN Walk = 1..Len(Walk)
    BY <1>1
<1> QED
    BY <1>1, <1>2, WalkAssumption DEF Steps, Paths, Range

LEMMA InitIInv == Init => IInv
<1> SUFFICES ASSUME Init PROVE IInv
    OBVIOUS
<1>1. DOMAIN placed = {} /\ DOMAIN staging = {} /\ used = {} /\ Range(placed) = {}
    BY DEF Init, Range
<1>2. TypeOK
  <2>1. 1 \in 1..Len(Walk) + 1
      BY WalkFacts
  <2>2. tree \in [Paths -> Data \cup {Absent}]
      BY DEF Init
  <2> QED
      BY <1>1, <2>1, <2>2 DEF Init, TypeOK
<1>3. UsedInv
    BY <1>1, FS_EmptySet DEF UsedInv
<1>4. CopyInv /\ DoneInv
    BY DEF Init, CopyInv, DoneInv, Running, EveryFileIsStaged, RerunLeavesNoRest
<1>5. RestInv
  <2> DEFINE f == [i \in Steps |-> 0]
  <2>1. Naming(f, 0)
      BY WalkFacts DEF Naming, Steps
  <2>2. ~Running
      BY DEF Init, Running
  <2> QED
      BY <1>1, <2>1, <2>2 DEF RestInv, Explains
<1> QED
    BY <1>2, <1>3, <1>4, <1>5 DEF IInv

-----------------------------------------------------------------------------
(***************************************************************************)
(* The copy of one file.                                                   *)
(***************************************************************************)
LEMMA HereFacts ==
    ASSUME IInv, Copying, tree[Here] # Absent
    PROVE  /\ k \in Steps /\ Present(k) /\ Here = Walk[k] /\ Here \in Paths
           /\ Here \notin DOMAIN placed /\ Here \notin missed
           /\ Name \notin used
<1>1. k \in Steps /\ Running
    BY WalkFacts DEF IInv, TypeOK, Copying, Steps, Running
<1>2. Here = Walk[k] /\ Here \in Paths
    BY <1>1, WalkFacts DEF Here
<1>3. Here \notin Passed
    BY <1>1, <1>2, WalkFacts DEF Passed
<1>4. Here \notin DOMAIN placed /\ Here \notin missed
    BY <1>1, <1>3 DEF IInv, CopyInv
<1>5. Name \notin used
    BY <1>2, BaseAssumption, ResolvedIsFree DEF Name, IInv, UsedInv
<1> QED
    BY <1>1, <1>2, <1>4, <1>5 DEF Present

\* The names taken so far are those of the naming.
LEMMA TakenSoFar ==
    ASSUME IInv, Running, ~edited, k \in Steps, NEW f,
           \A i \in Steps : i < k /\ Present(i) => f[i] = placed[Walk[i]]
    PROVE  Taken(f, k) = used
<1> DEFINE before == {i \in Steps : i < k /\ Present(i)}
<1>1. DOMAIN placed = {Walk[i] : i \in before}
    BY DEF IInv, CopyInv, Passed
<1>2. used = {placed[p] : p \in DOMAIN placed}
    BY DEF IInv, UsedInv, Range
<1>3. \A i \in before : f[i] = placed[Walk[i]]
    OBVIOUS
<1>4. Taken(f, k) = {f[i] : i \in before}
    BY DEF Taken
<1> HIDE DEF before
<1>5. {f[i] : i \in before} = {placed[p] : p \in DOMAIN placed}
    BY <1>1, <1>3
<1> QED
    BY <1>2, <1>4, <1>5

\* The next name is the one the naming has, or the naming goes on with it.
LEMMA NextName ==
    ASSUME IInv, Copying, tree[Here] # Absent, ~edited
    PROVE  \E m, f :
              /\ m \in Nat
              /\ Naming(f, m)
              /\ \A n \in DOMAIN staging \cup {Name} :
                    \E i \in Steps : i <= m /\ Present(i) /\ f[i] = n
              /\ k <= m /\ f[k] = Name
              /\ \A i \in Steps : i < k /\ Present(i) => i <= m /\ f[i] = placed[Walk[i]]
<1>1. k \in Steps /\ Present(k) /\ Running /\ k \in Nat
    BY HereFacts, WalkFacts DEF Copying, Running
<1>0. PICK m, f : Explains(f, m)
    BY DEF IInv, RestInv
<1>2. /\ m \in Nat
      /\ Naming(f, m)
      /\ \A n \in DOMAIN staging : \E i \in Steps : i <= m /\ Present(i) /\ f[i] = n
      /\ \A i \in Steps : i < k /\ Present(i) => i <= m /\ f[i] = placed[Walk[i]]
    BY <1>0, <1>1 DEF Explains
<1>3. Taken(f, k) = used
    BY <1>1, <1>2, TakenSoFar
<1>4. CASE k <= m
  <2>1. f[k] = Name
      BY <1>1, <1>2, <1>3, <1>4 DEF Naming, Name, Here
  <2> QED
      BY <1>1, <1>2, <1>4, <2>1
<1>5. CASE ~(k <= m)
  <2> DEFINE g == [i \in Steps |-> IF i = k THEN Name ELSE f[i]]
  <2>1. g[k] = Name /\ \A i \in Steps : i # k => g[i] = f[i]
      BY <1>1
  <2> HIDE DEF g
  <2>2. m \in Nat /\ m < k
      BY <1>1, <1>2, <1>5
  <2>3. \A i \in Steps : i <= k => Taken(g, i) = Taken(f, i)
    <3> TAKE i \in Steps
    <3> HAVE i <= k
    <3>1. \A j \in {j \in Steps : j < i /\ Present(j)} : g[j] = f[j]
        BY <1>1, <2>1, WalkFacts
    <3> QED
        BY <3>1 DEF Taken
  <2>4. Naming(g, k)
    <3> SUFFICES ASSUME NEW i \in Steps, i <= k, Present(i)
                 PROVE  g[i] = ResolveName(Base[Walk[i]], Taken(g, i))
        BY DEF Naming
    <3>1. CASE i = k
        BY <1>3, <2>1, <2>3, <3>1 DEF Name, Here
    <3>2. CASE i # k
      <4>1. i <= m
          BY <1>1, <1>2, <3>2, WalkFacts
      <4> QED
          BY <1>2, <2>1, <2>3, <3>2, <4>1 DEF Naming
    <3> QED
        BY <3>1, <3>2
  <2>5. \A i \in Steps : i <= m => i <= k /\ g[i] = f[i]
      BY <1>1, <2>1, <2>2, WalkFacts
  <2>6. \A n \in DOMAIN staging \cup {Name} :
           \E i \in Steps : i <= k /\ Present(i) /\ g[i] = n
    <3> TAKE n \in DOMAIN staging \cup {Name}
    <3>1. CASE n = Name
        BY <1>1, <2>1, <3>1
    <3>2. CASE n \in DOMAIN staging
        BY <1>2, <2>5, <3>2
    <3> QED
        BY <3>1, <3>2
  <2>7. \A i \in Steps : i < k /\ Present(i) => i <= k /\ g[i] = placed[Walk[i]]
      BY <1>2, <2>5
  <2> QED
      BY <1>1, <2>1, <2>4, <2>6, <2>7
<1> QED
    BY <1>4, <1>5

-----------------------------------------------------------------------------
(***************************************************************************)
(* The steps.                                                              *)
(***************************************************************************)
\* The naming is one of the tree.
LEMMA SameNaming ==
    ASSUME UNCHANGED tree
    PROVE  /\ \A i : Present(i)' <=> Present(i)
           /\ \A f, m : Naming(f, m)' <=> Naming(f, m)
<1>1. \A i : Present(i)' <=> Present(i)
    BY DEF Present
<1>2. \A f, i : Taken(f, i)' = Taken(f, i)
    BY <1>1 DEF Taken
<1> QED
    BY <1>1, <1>2 DEF Naming

\* What is staged gets less: the rest is still of the same naming.
LEMMA LessStaged ==
    ASSUME RestInv, DOMAIN staging' \subseteq DOMAIN staging,
           UNCHANGED <<tree, edited>>,
           \/ ~Running'
           \/ \A i \in Steps : ~(i < k')
           \/ Running /\ UNCHANGED <<k, placed>>
    PROVE  RestInv'
<1> SUFFICES ASSUME ~edited PROVE RestInv'
    BY DEF RestInv
<1>1. PICK m, f : Explains(f, m)
    BY DEF RestInv
<1>2. /\ Naming(f, m)'
      /\ \A i : Present(i)' <=> Present(i)
    BY <1>1, SameNaming DEF Explains
<1>3. \A n \in DOMAIN staging' : \E i \in Steps : i <= m /\ Present(i)' /\ f[i] = n
    BY <1>1, <1>2 DEF Explains
<1>4. Running' =>
         \A i \in Steps : i < k' /\ Present(i)' => i <= m /\ f[i] = placed'[Walk[i]]
    BY <1>1, <1>2 DEF Explains
<1>5. Explains(f, m)'
    BY <1>1, <1>2, <1>3, <1>4 DEF Explains
<1> QED
    BY <1>5 DEF RestInv

LEMMA StartIInv == IInv /\ StartIngest => IInv'
<1> SUFFICES ASSUME IInv, StartIngest PROVE IInv'
    OBVIOUS
<1>1. /\ DOMAIN placed' = {} /\ used' = {} /\ Range(placed') = {}
      /\ k' = 1 /\ pc' \in {"ingest", "refactor"} /\ done' = FALSE
      /\ missed' = {} /\ UNCHANGED <<tree, staging, edited>>
    BY DEF StartIngest, Range
<1>2. (\A i \in Steps : ~(i < k')) /\ Passed' = {}
    BY <1>1 DEF Steps, Passed
<1>3. 1 \in 1..Len(Walk) + 1
    BY WalkFacts
<1>4. TypeOK'
    BY <1>1, <1>3 DEF IInv, TypeOK
<1>5. UsedInv' /\ CopyInv' /\ DoneInv'
    BY <1>1, <1>2, FS_EmptySet
    DEF UsedInv, CopyInv, DoneInv, EveryFileIsStaged, RerunLeavesNoRest
<1>6. RestInv'
    BY <1>1, <1>2, LessStaged DEF IInv
<1> QED
    BY <1>4, <1>5, <1>6 DEF IInv

LEMMA PassIInv == IInv /\ NothingHere => IInv'
<1> SUFFICES ASSUME IInv, NothingHere PROVE IInv'
    OBVIOUS
<1>1. /\ k \in Steps /\ k \in Nat /\ ~Present(k) /\ k' = k + 1 /\ Running /\ ~done
      /\ UNCHANGED <<tree, staging, pc, used, placed, done, edited, missed>>
    BY WalkFacts DEF IInv, DoneInv, TypeOK, NothingHere, Copying, Running, Steps,
       Present, Here
<1>2. /\ \A i : Present(i)' <=> Present(i)
      /\ \A i \in Steps : i < k + 1 /\ Present(i) <=> i < k /\ Present(i)
  <2>1. \A i : Present(i)' <=> Present(i)
      BY <1>1, SameNaming
  <2>2. \A i \in Steps : i < k + 1 <=> i < k \/ i = k
      BY <1>1, WalkFacts
  <2> QED
      BY <1>1, <2>1, <2>2
<1>3. TypeOK' /\ UsedInv'
    BY <1>1, WalkFacts DEF IInv, TypeOK, UsedInv, Steps
<1>4. CopyInv'
  <2>1. Passed' = Passed
      BY <1>1, <1>2 DEF Passed
  <2> QED
      BY <1>1, <2>1 DEF IInv, CopyInv, Running
<1>5. DoneInv'
    BY <1>1 DEF DoneInv, EveryFileIsStaged, RerunLeavesNoRest
<1>6. RestInv'
  <2> SUFFICES ASSUME ~edited PROVE RestInv'
      BY <1>1 DEF RestInv
  <2>1. PICK m, f : Explains(f, m)
      BY DEF IInv, RestInv
  <2>2. Naming(f, m)'
      BY <1>1, <2>1, SameNaming DEF Explains
  <2>3. \A i \in Steps : i < k' /\ Present(i)' => i <= m /\ f[i] = placed'[Walk[i]]
      BY <1>1, <1>2, <2>1 DEF Explains
  <2>4. Explains(f, m)'
      BY <1>1, <1>2, <2>1, <2>2, <2>3 DEF Explains
  <2> QED
      BY <2>4 DEF RestInv
<1> QED
    BY <1>3, <1>4, <1>5, <1>6 DEF IInv

\* The file at which the walk is joins those that it has passed.
LEMMA OnePassed ==
    ASSUME k \in Steps, Present(k), k' = k + 1, UNCHANGED tree
    PROVE  Passed' = Passed \cup {Walk[k]}
<1>1. \A i : Present(i)' <=> Present(i)
    BY SameNaming
<1>2. \A i \in Steps : i < k + 1 /\ Present(i) <=> i = k \/ (i < k /\ Present(i))
    BY WalkFacts
<1> QED
    BY <1>1, <1>2 DEF Passed

\* A file that cannot be read: no naming is claimed from then on.
LEMMA UnreadableIInv == IInv /\ Unreadable => IInv'
<1> SUFFICES ASSUME IInv, Unreadable PROVE IInv'
    OBVIOUS
<1>1. /\ k \in Steps /\ k \in Nat /\ Present(k) /\ Here = Walk[k] /\ Here \in Paths
      /\ Here \notin DOMAIN placed /\ Running /\ ~done
    BY HereFacts, WalkFacts DEF IInv, DoneInv, Unreadable, Copying, Running
<1>2. /\ k' = k + 1 /\ missed' = missed \cup {Here} /\ edited'
      /\ UNCHANGED <<tree, staging, pc, used, placed, done>>
    BY DEF Unreadable
<1>3. TypeOK' /\ UsedInv'
    BY <1>1, <1>2, WalkFacts DEF Unreadable, IInv, TypeOK, UsedInv, Steps
<1>4. CopyInv'
  <2>1. Passed' = Passed \cup {Here}
      BY <1>1, <1>2, OnePassed
  <2> QED
      BY <1>1, <1>2, <2>1 DEF IInv, CopyInv, Running
<1>5. RestInv' /\ DoneInv'
    BY <1>1, <1>2 DEF RestInv, DoneInv, EveryFileIsStaged, RerunLeavesNoRest
<1> QED
    BY <1>3, <1>4, <1>5 DEF IInv

LEMMA CopyIInv == IInv /\ CopyFile => IInv'
<1> SUFFICES ASSUME IInv, CopyFile PROVE IInv'
    OBVIOUS
<1>1. /\ Copying /\ k \in Steps /\ k \in Nat /\ Present(k) /\ Here = Walk[k] /\ Here \in Paths
      /\ Here \notin DOMAIN placed /\ Here \notin missed /\ Name \notin used
      /\ Running /\ ~done /\ tree[Here] # Absent
    BY HereFacts, WalkFacts DEF IInv, DoneInv, CopyFile, Copying, Running
<1>2. /\ staging' = Put(staging, Name, tree[Here])
      /\ placed' = Put(placed, Here, Name)
      /\ used' = used \cup {Name} /\ k' = k + 1
      /\ UNCHANGED <<tree, pc, done, edited, missed>>
    BY DEF CopyFile
<1>3. /\ DOMAIN staging' = DOMAIN staging \cup {Name}
      /\ staging'[Name] = tree[Here]
      /\ \A n \in DOMAIN staging : n # Name => staging'[n] = staging[n]
    BY <1>2 DEF Put
<1>4. /\ DOMAIN placed' = DOMAIN placed \cup {Here}
      /\ placed'[Here] = Name
      /\ \A p \in DOMAIN placed : placed'[p] = placed[p]
    BY <1>1, <1>2 DEF Put
<1>5. /\ Range(placed') = Range(placed) \cup {Name}
      /\ \A p \in DOMAIN placed : placed[p] \in used /\ placed[p] # Name
    BY <1>1, <1>4 DEF Range, IInv, UsedInv
<1>6. TypeOK'
  <2>1. tree[Here] \in Data
      BY <1>1 DEF IInv, TypeOK
  <2>2. \A n \in DOMAIN staging' : staging'[n] \in Data \cup {Torn}
      BY <1>3, <2>1 DEF IInv, TypeOK
  <2>3. k' \in 1..Len(Walk) + 1
      BY <1>1, <1>2, WalkFacts DEF Steps
  <2>4. DOMAIN placed' \subseteq Paths
      BY <1>1, <1>4 DEF IInv, TypeOK
  <2> QED
      BY <1>2, <1>5, <2>2, <2>3, <2>4 DEF IInv, TypeOK
<1>7. UsedInv'
    BY <1>2, <1>5, FS_AddElement DEF IInv, UsedInv
<1>8. CopyInv'
  <2>1. Passed' = Passed \cup {Here}
      BY <1>1, <1>2, OnePassed
  <2>2. /\ DOMAIN placed' = Passed' \ missed' /\ missed' \subseteq Passed'
        /\ ~edited' => missed' = {}
      BY <1>1, <1>2, <1>4, <2>1 DEF IInv, CopyInv
  <2>3. \A p \in DOMAIN placed' : placed'[p] \in DOMAIN staging' /\ staging'[placed'[p]] = tree[p]
    <3> TAKE p \in DOMAIN placed'
    <3>1. CASE p = Here
        BY <1>3, <1>4, <3>1
    <3>2. CASE p \in DOMAIN placed
      <4>1. placed'[p] = placed[p] /\ placed[p] # Name
          BY <1>4, <1>5, <3>2
      <4>2. placed[p] \in DOMAIN staging /\ staging[placed[p]] = tree[p]
          BY <1>1, <3>2 DEF IInv, CopyInv
      <4> QED
          BY <1>3, <4>1, <4>2
    <3> QED
        BY <1>4, <3>1, <3>2
  <2>4. \A p, q \in DOMAIN placed' : placed'[p] = placed'[q] => p = q
      BY <1>1, <1>4, <1>5 DEF IInv, CopyInv
  <2> QED
      BY <1>2, <2>2, <2>3, <2>4 DEF CopyInv
<1>9. DoneInv'
    BY <1>1, <1>2 DEF DoneInv, EveryFileIsStaged, RerunLeavesNoRest
<1>10. RestInv'
  <2> SUFFICES ASSUME ~edited PROVE RestInv'
      BY <1>2 DEF RestInv
  <2>1. PICK m, f :
           /\ m \in Nat
           /\ Naming(f, m)
           /\ \A n \in DOMAIN staging \cup {Name} :
                 \E i \in Steps : i <= m /\ Present(i) /\ f[i] = n
           /\ k <= m /\ f[k] = Name
           /\ \A i \in Steps : i < k /\ Present(i) => i <= m /\ f[i] = placed[Walk[i]]
      BY <1>1, NextName
  <2>2. Naming(f, m)' /\ \A i : Present(i)' <=> Present(i)
      BY <1>2, <2>1, SameNaming
  <2>3. \A i \in Steps : i < k' /\ Present(i) => i <= m /\ f[i] = placed'[Walk[i]]
    <3> SUFFICES ASSUME NEW i \in Steps, i < k', Present(i)
                 PROVE  i <= m /\ f[i] = placed'[Walk[i]]
        OBVIOUS
    <3>1. CASE i = k
        BY <1>1, <1>4, <2>1, <3>1
    <3>2. CASE i # k
      <4>1. i < k
          BY <1>1, <1>2, <3>2, WalkFacts
      <4>2. Walk[i] \in DOMAIN placed
          BY <1>1, <4>1 DEF IInv, CopyInv, Passed
      <4> QED
          BY <1>4, <2>1, <4>1, <4>2
    <3> QED
        BY <3>1, <3>2
  <2>4. Explains(f, m)'
      BY <1>3, <2>1, <2>2, <2>3 DEF Explains
  <2> QED
      BY <2>4 DEF RestInv
<1> QED
    BY <1>6, <1>7, <1>8, <1>9, <1>10 DEF IInv

\* The walk is over: all files have passed, and nothing else is staged.
LEMMA FinishIInv == IInv /\ FinishIngest => IInv'
<1> SUFFICES ASSUME IInv, FinishIngest PROVE IInv'
    OBVIOUS
<1>1. /\ Running /\ k = Len(Walk) + 1 /\ pc' \in {"idle", "session"} /\ done'
      /\ UNCHANGED <<tree, staging, k, used, placed, edited, missed>>
    BY DEF FinishIngest, Running
<1>2. \A i \in Steps : i < k
    BY <1>1, WalkFacts DEF Steps
<1>3. TypeOK' /\ UsedInv'
    BY <1>1 DEF IInv, TypeOK, UsedInv
<1>4. ~Running' /\ CopyInv'
    BY <1>1 DEF Running, CopyInv
<1>5. RestInv'
    BY <1>1, <1>4, LessStaged DEF IInv
<1>6. EveryFileIsStaged'
  <2>1. Passed = {Walk[i] : i \in {i \in Steps : Present(i)}}
      BY <1>2 DEF Passed
  <2>2. Passed = {p \in Paths : tree[p] # Absent}
    <3>1. \A p \in Passed : p \in Paths /\ tree[p] # Absent
        BY <2>1, WalkFacts DEF Present
    <3>2. ASSUME NEW p \in Paths, tree[p] # Absent PROVE p \in Passed
      <4>1. PICK i \in Steps : Walk[i] = p
          BY WalkFacts
      <4> QED
          BY <2>1, <3>2, <4>1 DEF Present
    <3> QED
        BY <3>1, <3>2
  <2> QED
      BY <1>1, <2>2 DEF IInv, CopyInv, EveryFileIsStaged
<1>7. RerunLeavesNoRest'
  <2> SUFFICES ASSUME ~edited PROVE DOMAIN staging = Range(placed)
      BY <1>1 DEF RerunLeavesNoRest
  <2>1. Range(placed) \subseteq DOMAIN staging
      BY <1>1 DEF IInv, CopyInv, Range
  <2>2. PICK m, f : Explains(f, m)
      BY DEF IInv, RestInv
  <2>3. \A i \in Steps : Present(i) => Walk[i] \in DOMAIN placed
      BY <1>1, <1>2 DEF IInv, CopyInv, Passed
  <2>4. DOMAIN staging \subseteq Range(placed)
      BY <1>1, <1>2, <2>2, <2>3 DEF Range, Explains
  <2> QED
      BY <2>1, <2>4
<1>8. DoneInv'
    BY <1>1, <1>6, <1>7 DEF DoneInv
<1> QED
    BY <1>3, <1>4, <1>5, <1>8 DEF IInv

\* An empty directory is of any naming.
LEMMA NothingStaged ==
    ASSUME DOMAIN staging' = {}, ~Running'
    PROVE  RestInv'
<1> DEFINE f == [i \in Steps |-> 0]
<1>1. Naming(f, 0)'
    BY WalkFacts DEF Naming, Steps
<1> QED
    BY <1>1 DEF RestInv, Explains

LEMMA SessionIInv == IInv /\ Session => IInv'
<1> SUFFICES ASSUME IInv, Session PROVE IInv'
    OBVIOUS
<1>1. /\ pc' \in {"cleanup", "idle"} /\ edited' = TRUE /\ done' = FALSE
      /\ tree' \in [Paths -> Data \cup {Absent}]
      /\ UNCHANGED <<staging, k, used, placed, missed>>
    BY DEF Session, Trees
<1>2. TypeOK' /\ UsedInv'
    BY <1>1 DEF IInv, TypeOK, UsedInv
<1>3. CopyInv' /\ RestInv' /\ DoneInv'
    BY <1>1 DEF CopyInv, RestInv, DoneInv, Running, EveryFileIsStaged, RerunLeavesNoRest
<1> QED
    BY <1>2, <1>3 DEF IInv

LEMMA CleanupIInv == IInv /\ Cleanup => IInv'
<1> SUFFICES ASSUME IInv, Cleanup PROVE IInv'
    OBVIOUS
<1>1. /\ pc' = "idle" /\ ~done /\ UNCHANGED <<tree, k, used, placed, done, missed>>
    BY DEF Cleanup, IInv, DoneInv
<1>2. /\ DOMAIN staging' \subseteq DOMAIN staging
      /\ \A n \in DOMAIN staging' : staging'[n] = staging[n]
      /\ (DOMAIN staging' = {} /\ edited' = FALSE) \/ edited' = edited
  <2>1. CASE Emptied
    <3>1. DOMAIN staging' = {}
        BY <2>1 DEF Emptied
    <3> QED
        BY <2>1, <3>1 DEF Emptied
  <2>2. CASE \E n \in DOMAIN staging :
                staging' = [i \in DOMAIN staging \ {n} |-> staging[i]] /\ UNCHANGED edited
      BY <2>2
  <2>3. CASE UNCHANGED <<staging, edited>>
      BY <2>3
  <2> QED
      BY <2>1, <2>2, <2>3 DEF Cleanup
<1>3. TypeOK' /\ UsedInv'
    BY <1>1, <1>2 DEF IInv, TypeOK, UsedInv
<1>4. ~Running' /\ CopyInv' /\ DoneInv'
    BY <1>1 DEF CopyInv, DoneInv, Running, EveryFileIsStaged, RerunLeavesNoRest
<1>5. RestInv'
    BY <1>1, <1>2, <1>4, LessStaged, NothingStaged DEF IInv
<1> QED
    BY <1>3, <1>4, <1>5 DEF IInv

LEMMA AbortIInv == IInv /\ Abort => IInv'
<1> SUFFICES ASSUME IInv, Abort PROVE IInv'
    OBVIOUS
<1>1. /\ pc' = "idle" /\ done' = FALSE /\ UNCHANGED <<tree, k, used, placed, edited, missed>>
      /\ ~Running'
    BY DEF Abort, Running
<1>2. UsedInv' /\ CopyInv' /\ DoneInv'
    BY <1>1 DEF IInv, UsedInv, CopyInv, DoneInv, EveryFileIsStaged, RerunLeavesNoRest
<1>3. CASE UNCHANGED staging
  <2>1. TypeOK'
      BY <1>1, <1>3 DEF IInv, TypeOK
  <2>2. RestInv'
      BY <1>1, <1>3, LessStaged DEF IInv
  <2> QED
      BY <1>2, <2>1, <2>2 DEF IInv
<1>4. CASE Copying /\ tree[Here] # Absent /\ staging' = Put(staging, Name, Torn)
  <2>1. /\ DOMAIN staging' = DOMAIN staging \cup {Name}
        /\ staging'[Name] = Torn
        /\ \A n \in DOMAIN staging : n # Name => staging'[n] = staging[n]
      BY <1>4 DEF Put
  <2>2. TypeOK'
      BY <1>1, <2>1 DEF IInv, TypeOK
  <2>3. RestInv'
    <3> SUFFICES ASSUME ~edited PROVE RestInv'
        BY <1>1 DEF RestInv
    <3>1. PICK m, f :
             /\ m \in Nat
             /\ Naming(f, m)
             /\ \A n \in DOMAIN staging \cup {Name} :
                   \E i \in Steps : i <= m /\ Present(i) /\ f[i] = n
        BY <1>4, NextName
    <3>2. Naming(f, m)' /\ \A i : Present(i)' <=> Present(i)
        BY <1>1, <3>1, SameNaming
    <3>3. Explains(f, m)'
        BY <1>1, <2>1, <3>1, <3>2 DEF Explains
    <3> QED
        BY <3>3 DEF RestInv
  <2> QED
      BY <1>2, <2>2, <2>3 DEF IInv
<1> QED
    BY <1>3, <1>4 DEF Abort

LEMMA UserIInv == IInv /\ (EditTree \/ RemoveStaging) => IInv'
<1> SUFFICES ASSUME IInv, EditTree \/ RemoveStaging PROVE IInv'
    OBVIOUS
<1>1. /\ pc' = "idle" /\ done' = FALSE /\ UNCHANGED <<k, used, placed, missed>>
      /\ ~Running'
    BY DEF EditTree, RemoveStaging, Running
<1>2. UsedInv' /\ CopyInv' /\ DoneInv'
    BY <1>1 DEF IInv, UsedInv, CopyInv, DoneInv, EveryFileIsStaged, RerunLeavesNoRest
<1>3. CASE EditTree
  <2>1. tree' \in [Paths -> Data \cup {Absent}] /\ edited' \in BOOLEAN
        /\ UNCHANGED staging
      BY <1>3 DEF EditTree, IInv, TypeOK
  <2>2. TypeOK'
      BY <1>1, <2>1 DEF IInv, TypeOK
  <2>3. ~edited' => DOMAIN staging' = {}
    <3>1. staging = <<>> => DOMAIN staging = {}
        OBVIOUS
    <3>2. edited' = (staging # <<>>)
        BY <1>3 DEF EditTree
    <3> QED
        BY <2>1, <3>1, <3>2
  <2>4. RestInv'
      BY <1>1, <2>3, NothingStaged DEF RestInv
  <2> QED
      BY <1>2, <2>2, <2>4 DEF IInv
<1>4. CASE RemoveStaging
  <2>1. DOMAIN staging' = {} /\ edited' = FALSE /\ UNCHANGED tree
      BY <1>4 DEF RemoveStaging, Emptied
  <2>2. TypeOK' /\ RestInv'
      BY <1>1, <2>1, NothingStaged DEF IInv, TypeOK
  <2> QED
      BY <1>2, <2>2 DEF IInv
<1> QED
    BY <1>3, <1>4

LEMMA StutterIInv == IInv /\ UNCHANGED vars => IInv'
<1> SUFFICES ASSUME IInv, UNCHANGED vars PROVE IInv'
    OBVIOUS
<1>1. Running' = Running /\ \A i : Present(i)' <=> Present(i)
    BY DEF vars, Running, Present
<1>2. TypeOK' /\ UsedInv' /\ CopyInv'
    BY <1>1 DEF vars, IInv, TypeOK, UsedInv, CopyInv, Passed
<1>3. RestInv'
    BY <1>1, LessStaged DEF vars, IInv
<1>4. DoneInv'
    BY DEF vars, IInv, DoneInv, EveryFileIsStaged, RerunLeavesNoRest
<1> QED
    BY <1>2, <1>3, <1>4 DEF IInv

LEMMA StepIInv == IInv /\ [Next]_vars => IInv'
BY StartIInv, PassIInv, UnreadableIInv, CopyIInv, FinishIInv, SessionIInv, CleanupIInv, AbortIInv,
   UserIInv, StutterIInv
   DEF Next

LEMMA IngestIInv == Spec => []IInv
BY InitIInv, StepIInv, PTL DEF Spec

-----------------------------------------------------------------------------
(***************************************************************************)
(* The staging directory holds recordings and torn copies, and every name  *)
(* of the manifest is marked as used (ingestion.rs                         *)
(* ingest_audio_files_with_progress).                                      *)
(***************************************************************************)
THEOREM IngestTypeCorrect == Spec => []TypeOK
<1>1. IInv => TypeOK
    BY DEF IInv
<1> QED
    BY IngestIInv, <1>1, PTL

(***************************************************************************)
(* An ingest that has ended well has a whole copy of every audio file that *)
(* the walk yielded, under a name of its own, whatever killed ingests left *)
(* in the directory, and it lacks the files that the walk could not read   *)
(* and no others (ingestion.rs resolve_collision_free_name and fs::copy,   *)
(* audio_discovery.rs visit_audio_core).                                   *)
(***************************************************************************)
THEOREM EveryFileStaged == Spec => []EveryFileIsStaged
<1>1. IInv => EveryFileIsStaged
    BY DEF IInv, DoneInv
<1> QED
    BY IngestIInv, <1>1, PTL

(***************************************************************************)
(* Ingests of one stick give every file the same name, so one that ends    *)
(* well leaves nothing of those that were killed before it                 *)
(* (audio_discovery.rs visit_audio_core sorts what it walks).              *)
(***************************************************************************)
THEOREM RerunIsClean == Spec => []RerunLeavesNoRest
<1>1. IInv => RerunLeavesNoRest
    BY DEF IInv, DoneInv
<1> QED
    BY IngestIInv, <1>1, PTL
-----------------------------------------------------------------------------
(***************************************************************************)
(* Progress.  A bound for the steps a command has still to take.           *)
(***************************************************************************)
StepsLeft ==
    CASE pc \in {"ingest", "refactor"} -> Len(Walk) + 1 - k + 3
      [] pc = "session" -> 2
      [] pc = "cleanup" -> 1
      [] OTHER -> 0

LEMMA StepProgress ==
    ASSUME TypeOK, [Next]_vars, pc # "idle"
    PROVE  StepsLeft' \in 0..StepsLeft - 1 \/ UNCHANGED vars
<1>1. Len(Walk) \in Nat /\ k \in 1..Len(Walk) + 1
    BY WalkFacts DEF TypeOK
<1>2. CASE NothingHere \/ Unreadable \/ CopyFile
  <2>1. Running /\ Running' /\ k' = k + 1 /\ k <= Len(Walk)
      BY <1>2 DEF NothingHere, Unreadable, CopyFile, Copying, Running
  <2> QED
      BY <1>1, <2>1 DEF Running, StepsLeft
<1>3. CASE FinishIngest \/ Session \/ Cleanup
    BY <1>1, <1>3 DEF FinishIngest, Session, Cleanup, StepsLeft
<1>4. CASE Abort
    BY <1>1, <1>4 DEF Abort, TypeOK, StepsLeft
<1>5. ~(StartIngest \/ EditTree \/ RemoveStaging)
    BY DEF StartIngest, EditTree, RemoveStaging
<1> QED
    BY <1>2, <1>3, <1>4, <1>5 DEF Next

(***************************************************************************)
(* Every step of an ingest or a refactor brings it nearer to its end, for  *)
(* a walk of any length: a file that cannot be copied ends the command and *)
(* is not tried again (ingestion.rs ingest_audio_files_with_progress).     *)
(***************************************************************************)
THEOREM IngestsGoOn ==
    Spec => [][pc # "idle" => StepsLeft' \in 0..StepsLeft - 1]_vars
<1>1. TypeOK /\ [Next]_vars => [pc # "idle" => StepsLeft' \in 0..StepsLeft - 1]_vars
    BY StepProgress
<1> QED
    BY <1>1, IngestTypeCorrect, PTL DEF Spec
=============================================================================
