----------------------------- MODULE MCCollector -----------------------------
(* The instance of Collector's TLC run.                                    *)
EXTENDS Collector, TLC

\* Users are treated alike.
UserSymmetry == Permutations(Emails)
=============================================================================
