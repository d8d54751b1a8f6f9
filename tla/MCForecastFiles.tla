----------------------------- MODULE MCForecastFiles -----------------------------
(* Two builders whose results differ in every part, with one or two encoders. *)
EXTENDS ForecastFiles, TLC

BuilderSymmetry == Permutations(Builders)

================================================================================
