------------------------------- MODULE Powers -------------------------------
(***************************************************************************)
(* Powers by repeated multiplication, as the shifts and the std::pow of    *)
(* the code compute them.  They are shared by the difficulty (Pow) and by  *)
(* the byte formats (Codec), and the provers know nothing of ^.            *)
(***************************************************************************)
EXTENDS Integers

\* base to the power k.
Power(base, k) ==
  LET power[i \in 0 .. k] == IF i = 0 THEN 1 ELSE base * power[i - 1]
  IN  power[k]
=============================================================================
