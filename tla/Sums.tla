-------------------------------- MODULE Sums --------------------------------
(***************************************************************************)
(* The sum of a function over a finite set of its arguments, as the        *)
(* accounting properties of the registrar need it: "everything escrowed",  *)
(* "everything owed to hooks".                                             *)
(***************************************************************************)
EXTENDS Integers, FiniteSetsExt

\* The sum of f[x] for all x in the finite set S.
Sum(f, S) == MapThenSumSet(LAMBDA x : f[x], S)

=============================================================================
