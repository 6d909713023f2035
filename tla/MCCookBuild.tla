---------------------------- MODULE MCCookBuild -----------------------------
(* A recipe of one or two packages, built against a sysroot and a toolchain, *)
(* under the faults each question is about.                                  *)
EXTENDS CookBuild

Recipe(k, c, d, f) ==
    [kind |-> k, roots |-> <<"sysroot", "toolchain">>, packages |-> <<"stage.dev", "stage">>,
     clean |-> c, as_deps |-> d, faults |-> f]
Small(recipe) == [recipe EXCEPT !.packages = <<"stage">>]

MCSetups == {
    Recipe("local", {FALSE}, BOOLEAN, {"script"}),
    Recipe("local", {TRUE}, {FALSE}, {"script"}),
    Recipe("local", {FALSE}, BOOLEAN, {"script", "kill"}),
    Small(Recipe("local", BOOLEAN, BOOLEAN, {"script", "install"})),
    [Small(Recipe("local", BOOLEAN, BOOLEAN, {"kill", "tear"})) EXCEPT !.roots = <<"sysroot">>],
    Recipe("remote", {FALSE}, BOOLEAN, {})}

FailedInstall == {Recipe("local", {FALSE}, {FALSE}, {"install"})}
Edited == {Small(Recipe("local", {FALSE}, {FALSE}, {"edit"}))}
CleanOrNot == {Recipe("local", BOOLEAN, {FALSE}, {})}
TornRemoval == {Recipe("local", {FALSE}, {FALSE}, {"tear"})}
KilledRemote == {Recipe("remote", {FALSE}, {FALSE}, {"kill"})}
=============================================================================
