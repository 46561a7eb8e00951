---------------------------- MODULE Participant ----------------------------
(***************************************************************************)
(* What a restore participant promises the lifecycle adapter that stops    *)
(* and resumes it (restore_lifecycle.py, the protocol RestoreParticipant): *)
(* work is taken only while the gate is open; "quiet" is answered only     *)
(* when the gate is shut and nothing taken before is left; what the owner  *)
(* runs in the quiet is over before the gate opens again; work that was    *)
(* taken ends.  BoundedExecutor implements it.                             *)
(***************************************************************************)
CONSTANTS Jobs, Finalizers

VARIABLES gate,    \* "open", "shut" or, for good, "over"
          jobs,    \* work that was taken and is not over
          final,   \* what the owner runs in the quiet
          quiet    \* the owner may rely on the quiet

vars == <<gate, jobs, final, quiet>>

Init == gate = "open" /\ jobs = {} /\ final = {} /\ quiet = FALSE

Take(j) == /\ gate = "open" /\ j \notin jobs
           /\ jobs' = jobs \cup {j}
           /\ UNCHANGED <<gate, final, quiet>>

End(j) == /\ j \in jobs
          /\ jobs' = jobs \ {j}
          /\ UNCHANGED <<gate, final, quiet>>

\* block_new_work
Block == /\ gate = "open" /\ gate' = "shut"
         /\ UNCHANGED <<jobs, final, quiet>>

\* drain answers True
Settle == /\ gate # "open" /\ jobs = {}
          /\ quiet' = TRUE
          /\ UNCHANGED <<gate, jobs, final>>

\* finalize_owner_thread, and its end
Finalize(f) == /\ quiet /\ f \notin final
               /\ final' = final \cup {f}
               /\ UNCHANGED <<gate, jobs, quiet>>
EndFinal(f) == /\ f \in final
               /\ final' = final \ {f}
               /\ quiet' \in {quiet, FALSE}
               /\ UNCHANGED <<gate, jobs>>

\* The owner gives up waiting: a timeout, an answer False, an exception.
GiveUp == /\ quiet' = FALSE
          /\ UNCHANGED <<gate, jobs, final>>

\* resume_new_work
Reopen == /\ gate = "shut" /\ final = {}
          /\ gate' = "open" /\ quiet' = FALSE
          /\ UNCHANGED <<jobs, final>>

ShutDown == /\ gate' = "over"
            /\ UNCHANGED <<jobs, final, quiet>>

Next == \/ \E j \in Jobs : Take(j) \/ End(j)
        \/ \E f \in Finalizers : Finalize(f) \/ EndFinal(f)
        \/ Block \/ Settle \/ GiveUp \/ Reopen \/ ShutDown

Safety == Init /\ [][Next]_vars
Liveness == /\ \A j \in Jobs : WF_vars(End(j))
            /\ \A f \in Finalizers : WF_vars(EndFinal(f))
Spec == Safety /\ Liveness
=============================================================================
