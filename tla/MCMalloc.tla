------------------------------ MODULE MCMalloc ------------------------------
(***************************************************************************)
(* Instances of Malloc for TLC. Memory is scaled down: MALLOC_ALIGN and    *)
(* the header take 2 bytes and a pointer 2 more, as 8, 8 and 16 on LP64.   *)
(***************************************************************************)
EXTENDS MallocContract
=============================================================================
