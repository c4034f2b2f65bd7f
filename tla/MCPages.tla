------------------------------ MODULE MCPages ------------------------------
(***************************************************************************)
(* The page allocator and the page tables.  They share no state: each      *)
(* behaviour is about one of them, part says which, and the variables of   *)
(* the other stay as they are initially.                                   *)
(***************************************************************************)
EXTENDS Palloc, Pagedir, TLC

VARIABLE part

Symmetry == Permutations(Thread)

MCInit ==
  /\ Init
  /\ PagedirInit
  /\ \/ part = "palloc" /\ cur = CHOOSE t \in Threads : TRUE
     \/ part = "pagedir"

MCNext ==
  /\ UNCHANGED part
  /\ \/ part = "palloc" /\ Next /\ UNCHANGED pagedirVars
     \/ part = "pagedir" /\ PagedirNext /\ UNCHANGED vars

MCSpec == MCInit /\ [][MCNext]_<<part, vars, pagedirVars>>
=============================================================================
