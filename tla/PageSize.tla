------------------------------ MODULE PageSize ------------------------------
(* The size of a page, PAGE_SIZE in the code, where 4096 is not written out. *)
CONSTANT PAGE_SIZE
=============================================================================
