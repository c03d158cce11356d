---------------------------- MODULE DurableStore ----------------------------
(***************************************************************************)
(* What the store of a node promises: its values change one at a time and  *)
(* atomically, a running process sees what is stored, and a process that   *)
(* restarts finds what the last one left.  Once a write has failed nothing *)
(* is promised.                                                            *)
(***************************************************************************)
EXTENDS Naturals, Sequences

CONSTANTS Empty,  \* the store of a node that never ran
          Down    \* the view of a node that does not run

VARIABLES disk,   \* what is stored: [current_term, voted_for, voted, logs]
          view,   \* what the process of the node sees
          failed  \* a write has failed

Init == disk = Empty /\ view = Empty /\ failed = FALSE

\* Some entries are dropped from the end of the log, or one is added to it.
LogChange(before, after) ==
  \/ \E k \in 0 .. Len(before) - 1 : after = SubSeq(before, 1, k)
  \/ /\ Len(after) = Len(before) + 1
     /\ before = SubSeq(after, 1, Len(before))

\* One value changes, and the process sees it.
Write ==
  /\ view # Down
  /\ \/ disk' = [disk EXCEPT !.current_term = disk'.current_term]
     \/ disk' = [disk EXCEPT !.voted_for = disk'.voted_for]
     \/ disk' = [disk EXCEPT !.voted = disk'.voted]
     \/ /\ disk' = [disk EXCEPT !.logs = disk'.logs]
        /\ LogChange(disk.logs, disk'.logs)
  /\ view' = disk'

Crash == view' = Down /\ disk' = disk

Recover == view = Down /\ view' = disk /\ disk' = disk

Next == \/ (Write \/ Crash \/ Recover) /\ failed' = failed
        \/ failed'

Spec == Init /\ [][Next]_<<disk, view, failed>>
=============================================================================
