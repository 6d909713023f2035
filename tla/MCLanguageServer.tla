-------------------------- MODULE MCLanguageServer --------------------------
(* Two documents, one of which the other may import, and one or two requests. *)
EXTENDS LanguageServer

Session(written, asked, changes, moved, fails) ==
  [texts |-> written, requests |-> asked, max_generation |-> changes, max_links |-> moved,
   projection_fails |-> fails]

MCSetups == {
  Session({"clean", "broken"}, {1}, 2, 0, TRUE),
  Session({"clean"}, {1, 2}, 2, 0, FALSE),
  Session(AllTexts, {}, 3, 1, FALSE),
  Session({"broken", "imports"}, {1}, 3, 0, FALSE)}

LinkedPaths == {Session({"clean", "broken"}, {1}, 3, 1, FALSE)}
=============================================================================
