----------------------------- MODULE MCTestRun -----------------------------
(***************************************************************************)
(* A test run for TLC: suites of two cases that share an environment or    *)
(* do not, import from each other or do not, and apply or do not.          *)
(***************************************************************************)
EXTENDS TestRun

C(doc, id, applies, fp, imports, exports, body) ==
    [doc |-> doc, id |-> id, applies |-> applies, fp |-> fp, imports |-> imports,
     exports |-> exports, body |-> body]

MCSuites == {
    <<C("good", "a", "runs", "x", "none", "yes", <<"do", "expect">>),
      C("good", "b", "runs", "x", "a", "no", <<"expect">>)>>,
    <<C("good", "a", "runs", "x", "none", "yes", <<"expect">>),
      C("good", "b", "runs", "y", "a", "no", <<"do">>)>>,
    <<C("good", "a", "runs", "x", "none", "yes", <<"do">>),
      C("good", "a", "runs", "x", "none", "yes", <<"do">>),
      C("good", "b", "runs", "x", "a", "no", <<"do">>)>>,
    <<C("bad", "a", "runs", "x", "none", "no", <<>>),
      C("good", "b", "stale", "x", "none", "no", <<"do">>)>>,
    <<C("good", "a", "skips", "x", "none", "no", <<"do">>),
      C("good", "b", "undeclared", "x", "none", "no", <<"do">>)>> }
=============================================================================
