------------------------- MODULE MCMetadataAnalysis -------------------------
(* Small instances of MetadataAnalysis: what the operator does and what fails. *)
EXTENDS MetadataAnalysis

Events == Commands \cup Faults
Budget(s) == [c \in Events |-> Cardinality({i \in DOMAIN s : s[i] = c})]

\* Pending rows are resumed, a track is analysed, and one fault meets one more command.
MCScenarios == {Budget(<<"resumePending", "analyze", x, y>>) : x \in Faults \ {"unavailable"}, y \in Commands}
                 \cup {Budget(<<"resumePending", "analyze", "restore", x>>) : x \in {"hang", "busy", "unavailable"}}
TwoResumes == {Budget(<<"resumePending", "resumePending">>)}
=============================================================================
