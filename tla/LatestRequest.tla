---------------------------- MODULE LatestRequest ----------------------------
(***************************************************************************)
(* What the panels that ask the server for data promise: the answer that   *)
(* appears is the answer to the question asked last.  A panel may keep the *)
(* old answer while it waits, clear it, or withdraw its question; it never *)
(* lets an overtaken or withdrawn question change what is shown.           *)
(***************************************************************************)
CONSTANTS
    Questions,
    Nothing

VARIABLES
    asked,  \* the question whose answer the panel waits for or shows
    shown   \* the question whose answer is on the screen

Init == asked = Nothing /\ shown = Nothing

\* The old answer stays, or is cleared.
KeepOrClear == shown' \in {shown, Nothing}

Ask(question) == asked' = question /\ KeepOrClear

Withdraw == asked' = Nothing /\ KeepOrClear

Answer == asked # Nothing /\ shown' = asked /\ UNCHANGED asked

Next ==
    \/ \E question \in Questions : Ask(question)
    \/ Withdraw
    \/ Answer

Spec == Init /\ [][Next]_<<asked, shown>>
=============================================================================
