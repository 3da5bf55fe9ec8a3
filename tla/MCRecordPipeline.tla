-------------------------- MODULE MCRecordPipeline --------------------------
(* Instances of RecordPipeline for TLC: lines that differ in their text. *)
EXTENDS RecordPipeline

CONSTANTS Clears, Replacements, Rotations, Breaks, Stops, Ends

MCText == [l \in Line |-> l]
MCMaxFaults == [clear |-> Clears, replace |-> Replacements, rotate |-> Rotations,
                break |-> Breaks, stop |-> Stops, end |-> Ends]
=============================================================================
