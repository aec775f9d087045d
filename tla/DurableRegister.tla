--------------------------- MODULE DurableRegister ---------------------------
(***************************************************************************)
(* What a file replaced atomically promises to its readers: a write is     *)
(* seen whole or not at all, and a crash falls back to a value that was    *)
(* written whole since the last flush.                                     *)
(***************************************************************************)
CONSTANTS Values, None

VARIABLES visible,  \* what a reader of the file gets, None if there is no file
          maybe     \* what a reader may get after a power loss

Init == visible = None /\ maybe = {None}

Write == \E v \in Values :
            /\ visible' = v
            /\ maybe' = maybe \cup {v}

\* Up to date values are forced to the medium, or the kernel gets round to it.
Flush ==
    /\ maybe' = {visible}
    /\ UNCHANGED visible

Crash ==
    /\ visible' \in maybe
    /\ maybe' = {visible'}

Next == Write \/ Flush \/ Crash

Spec == Init /\ [][Next]_<<visible, maybe>>
=============================================================================
