---------------------------- MODULE MCBrowserView ----------------------------
(***************************************************************************)
(* The ids of trains mean nothing: nothing orders them.                    *)
(***************************************************************************)
EXTENDS BrowserView, TLC

TrainSymmetry == Permutations(Trains)
=============================================================================
