----------------------------- MODULE MCCookTui -----------------------------
(* Two or three recipes and a few failures. *)
EXTENDS CookTui

Run(count, inNonstop, threads, bound) ==
  [recipes |-> count, nonstop |-> inNonstop, failing |-> threads, max_failures |-> bound]

MCSetups == {Run(3, FALSE, {"cook"}, 2), Run(3, FALSE, {"fetch"}, 2), Run(2, TRUE, Thread, 3)}

BothFail == {Run(2, FALSE, Thread, 2)}
FetchFails == {Run(2, FALSE, {"fetch"}, 1)}
=============================================================================
