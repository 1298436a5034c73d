---------------------------- MODULE MC_ProcMacro ----------------------------
(* Instances of ProcMacro for TLC. *)
EXTENDS ProcMacro

CONSTANTS a, b, brace

\* Inputs that fit a pipe and one that does not; outputs of every length up to
\* four, with a closing brace early, late or not at all.
SomeInputs == {<< >>, <<a>>, <<b, a>>, <<a, brace, b>>}
SomeOutputs ==
    {<< >>, <<a>>, <<brace>>, <<b, brace>>, <<a, b, a>>, <<brace, a, b, a>>,
     <<a, brace, b, a>>, <<a, b, a, brace>>}
=============================================================================
