---------------------------- MODULE NumberedShelf ----------------------------
(***************************************************************************)
(* What the numbered folders of a stick promise, whoever fills them.  New  *)
(* recordings go to the end: under a number above all others, in the last  *)
(* folder or a later one, as long as it has room.  One that is written     *)
(* here is finished at once or never.  Nothing is renumbered or written    *)
(* over, and nothing is taken away but what goes to the archive.           *)
(***************************************************************************)
EXTENDS Integers, FiniteSets

CONSTANTS Slots,   \* records with a folder vol, a number idx and a track of
          Tracks,
          Cap      \* how many recordings a folder holds

VARIABLES taken,   \* the slots with a file
          whole,   \* those with the whole recording
          open,    \* the one that is being written, if there is one
          archive  \* the recordings that were put away whole

Init == taken = {} /\ whole = {} /\ open = {} /\ archive = {}

IsNext(p) ==
    /\ open = {}
    /\ \A q \in taken : q.idx < p.idx /\ q.vol <= p.vol /\ q.of # p.of
    /\ Cardinality({q \in taken : q.vol = p.vol}) < Cap

\* A file is moved here, or is whole as soon as there is anything of it.
Shelve(p) ==
    /\ IsNext(p)
    /\ taken' = taken \cup {p}
    /\ whole' = whole \cup {p}
    /\ UNCHANGED <<open, archive>>

Begin(p) ==
    /\ IsNext(p)
    /\ taken' = taken \cup {p}
    /\ open' = {p}
    /\ UNCHANGED <<whole, archive>>

Complete ==
    /\ open # {}
    /\ whole' = whole \cup open
    /\ open' = {}
    /\ UNCHANGED <<taken, archive>>

\* Whatever there is of the file stays.
GiveUp ==
    /\ open' = {}
    /\ UNCHANGED <<taken, whole, archive>>

Withdraw(p) ==
    /\ open = {} /\ p \in taken
    /\ taken' = taken \ {p}
    /\ whole' = whole \ {p}
    /\ archive' = archive \cup (IF p \in whole THEN {p.of} ELSE {})
    /\ UNCHANGED open

\* A recording from elsewhere may be put away.
Elsewhere ==
    /\ UNCHANGED <<taken, whole, open>>
    /\ \E t \in Tracks : archive' \in {archive, archive \cup {t}}

Next == \/ Elsewhere \/ Complete \/ GiveUp
        \/ \E p \in Slots : Shelve(p) \/ Begin(p) \/ Withdraw(p)

Spec == Init /\ [][Next]_<<taken, whole, open, archive>>
=============================================================================
