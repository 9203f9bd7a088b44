---------------------------- MODULE MCHttpServer ----------------------------
(***************************************************************************)
(* Instances of HttpServer for TLC: model values for the objects, and the  *)
(* sets of client behaviours and of failing calls that each run admits.    *)
(***************************************************************************)
EXTENDS HttpServer, TLC

(* The workers differ in name only.  (Cells, Irps and Socks are picked by  *)
(* CHOOSE, which would be unsound under a symmetry.)                       *)
Symmetry == Permutations(Workers)

(* The properties of the passing runs promise nothing after the first      *)
(* misread packet, so the exploration ends with it.                        *)
UntilMisread == ~misread
=============================================================================
