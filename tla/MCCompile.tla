------------------------------- MODULE MCCompile -------------------------------
(***************************************************************************)
(* Instances of Compile for TLC: two invocations of a project, alone, one  *)
(* after the other or at the same time.                                    *)
(***************************************************************************)
EXTENDS Compile, TLC

Command(check, rust, go, typescript) ==
  [check |-> check, rust |-> rust, go |-> go, typescript |-> typescript]

\* compile; compile --check; --go; --rust --typescript; --check --rust --go --typescript
MCOptions ==
  { Command(FALSE, "default", FALSE, FALSE),
    Command(TRUE, "default", FALSE, FALSE),
    Command(FALSE, "default", TRUE, FALSE),
    Command(FALSE, "path", FALSE, TRUE),
    Command(TRUE, "path", TRUE, TRUE) }

Symmetry == Permutations(Processes)

=============================================================================
