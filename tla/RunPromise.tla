------------------------------ MODULE RunPromise ------------------------------
(***************************************************************************)
(* What a run folder promises to whoever reads its manifest, however many  *)
(* sessions wrote it and wherever they stopped: an "ok" headline covers no *)
(* collector that is unfinished, and every collector that reads events was *)
(* read over the window the manifest names.  A collector whose record      *)
(* names no window is doubtful; only a headline with no window of its own  *)
(* may stand over it.                                                      *)
(***************************************************************************)
CONSTANTS Collectors, Windowed, Windows, NoWindow, Unrecorded

VARIABLES
    held,       \* what the folder records of each collector
    headline    \* the published verdict and its window

Unread     == [state |-> "unread", over |-> Unrecorded]
Unfinished == [state |-> "unfinished", over |-> Unrecorded]
Finished(w) == [state |-> "finished", over |-> w]

Verdicts == [overall : {"none", "ok", "partial"}, win : Windows]

Init == /\ held = [c \in Collectors |-> Unread]
        /\ headline = [overall |-> "none", win |-> NoWindow]

\* A collector that was read is finished or it is not; it never becomes unread.
Record(c) ==
    /\ \E h \in {Unfinished} \cup {Finished(w) : w \in Windows \cup {Unrecorded}} :
          held' = [held EXCEPT ![c] = h]
    /\ UNCHANGED headline

\* A windowed collector stands under a headline for w.
Stands(c, w) ==
    \/ held[c].state = "unread"
    \/ /\ held[c].state = "finished"
       /\ c \in Windowed => held[c].over = (IF held[c].over = Unrecorded /\ w = NoWindow
                                            THEN Unrecorded ELSE w)

Publish(v) ==
    /\ v \in Verdicts /\ v.overall # "none"
    /\ v.overall = "ok" => \A c \in Collectors : Stands(c, v.win)
    /\ headline' = v
    /\ UNCHANGED held

Next == \/ \E c \in Collectors : Record(c)
        \/ \E v \in Verdicts : Publish(v)

Spec == Init /\ [][Next]_<<held, headline>>
=============================================================================
