-------------------------- MODULE MCCommandPipeline --------------------------
(* Instances of CommandPipeline for TLC. *)
EXTENDS CommandPipeline, TLC

\* Commands are interchangeable, and so are operators; only the safety runs say so.
PipelineSymmetry == Permutations(Commands) \union Permutations(Operators)
=============================================================================
