---------------------------- MODULE MCLaosKernel ----------------------------
(* A machine of nine pages, whose kernel takes three. *)
EXTENDS LaosKernel
=============================================================================
