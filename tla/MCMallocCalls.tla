---------------------------- MODULE MCMallocCalls ----------------------------
(***************************************************************************)
(* Instances of MallocCalls for TLC, scaled down as in MCMalloc.           *)
(***************************************************************************)
EXTENDS MallocCalls, MallocContract

\* States that differ in the record of the last call alone are explored once:
\* no action reads it.
WithoutCall == <<heap, obj, lost>>

=============================================================================
