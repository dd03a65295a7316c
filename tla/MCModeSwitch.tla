---------------------------- MODULE MCModeSwitch ----------------------------
(* ModeSwitch with two modes that share a format and one that has its own. *)
EXTENDS ModeSwitch, TLC

Kinds == "FFT" :> "fft" @@ "EYE" :> "phat" @@ "GAME" :> "phat"
=============================================================================
