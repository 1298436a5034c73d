------------------------------ MODULE ProcMacro ------------------------------
(***************************************************************************)
(* One call of a procedural macro: the compiler (src/expand/proc_macro.cpp) *)
(* starts the macro's crate as a child process, writes token streams into  *)
(* its standard input and parses what comes out of its standard output     *)
(* (lib/libproc_macro).  The two pipes hold PipeSize messages each; who    *)
(* writes into a full one waits.  A message is one token or one mark of    *)
(* the protocol, written whole; the child's output buffer, which delays a  *)
(* message but never reorders it, is part of what it has yet to write.     *)
(***************************************************************************)
EXTENDS Naturals, Sequences, SequencesExt

CONSTANTS
    Tokens,     \* tokens of Rust
    Close,      \* the closing brace among them
    Inputs,     \* streams a call may pass on
    Outputs,    \* streams a macro may return
    PipeSize    \* messages a pipe holds

\* Definition of the call's span, TokenClass::EndOfStream, the byte by which
\* the child reports that it runs, the empty symbol that ends its answer, and
\* bytes that a macro prints although its output is the protocol's.
Marks == {"SpanDef", "EndOfStream", "Started", "EmptySymbol", "Junk"}
Messages == Tokens \cup Marks

ASSUME ProcMacroAssumption ==
    /\ Tokens \cap Marks = {}
    /\ Close \in Tokens
    /\ Inputs \subseteq Seq(Tokens)
    /\ Outputs \subseteq Seq(Tokens)
    /\ PipeSize \in Nat \ {0}

VARIABLES
    inputs,       \* the streams of this call: a body, or attr_input and an item
    handler,      \* MacroType of the macro: the streams it takes, 0 if unknown
    in_module,    \* the answer is read by Parse_ModRoot_Items
    pc,           \* where the compiler is
    good,         \* what check_good returned
    unsent,       \* messages the compiler has yet to write
    child_stdin,  \* the pipe to the child
    child_stdout, \* the pipe from the child
    m_eof_hit,    \* the empty symbol was received
    taken,        \* tokens the parser was given
    child,        \* where the child is
    streams,      \* the streams it received, the last one perhaps in part
    output,       \* what the macro made of them
    unwritten     \* messages the child has yet to write

call == <<inputs, handler, in_module>>
compiler == <<pc, good, unsent, m_eof_hit, taken>>
macro == <<child, streams, output, unwritten>>
vars == <<call, compiler, macro, child_stdin, child_stdout>>

\* How a macro may end: it returns a stream that can be sent, or one with a
\* joint punctuation that nothing follows, on which sending panics; it
\* panics itself; or it printed something before it returned.
Ways == {"whole", "torn", "panic", "prints"}
Nothing == [tokens |-> << >>, way |-> "none"]
Results == [tokens : Outputs, way : Ways]

\* The compiler's process has ended; nobody reads or writes its pipe ends.
Gone == pc \in {"gave_up", "broken"}
Ended == pc \in {"returned", "gave_up", "broken"} /\ child \in {"none", "exited"}

Room(pipe) == Len(pipe) < PipeSize

Init ==
    /\ \/ \E body \in Inputs : inputs = <<body>>
       \/ \E attr_input, item \in Inputs : inputs = <<attr_input, item>>
    /\ handler \in 0..2
    /\ in_module \in BOOLEAN
    /\ pc = "spawn"
    /\ good = TRUE
    /\ unsent = << >>
    /\ child_stdin = << >>
    /\ child_stdout = << >>
    /\ m_eof_hit = FALSE
    /\ taken = << >>
    /\ child = "none"
    /\ streams = << >>
    /\ output = Nothing
    /\ unwritten = << >>

(***************************************************************************)
(* The compiler.                                                           *)
(***************************************************************************)
\* The constructor makes the pipes, starts the child and defines span #1.
Spawn ==
    /\ pc = "spawn"
    /\ pc' = "announce"
    /\ unsent' = <<"SpanDef">>
    /\ child' = "start"
    /\ UNCHANGED <<call, good, m_eof_hit, taken, streams, output, unwritten,
                   child_stdin, child_stdout>>

SpawnFails ==
    /\ pc = "spawn"
    /\ pc' = "gave_up"
    /\ UNCHANGED <<call, good, unsent, m_eof_hit, taken, macro,
                   child_stdin, child_stdout>>

Stream(s) == Append(s, "EndOfStream")

\* A broken sender that forgets to end the item after an attribute's input.
EndForgotten(i) ==
    IF Len(i) = 1 THEN Stream(i[1]) ELSE Stream(i[1]) \o i[2]

\* All that ProcMacro_Invoke sends after check_good: each stream and its end.
Sent(i) == IF Len(i) = 1 THEN Stream(i[1]) ELSE Stream(i[1]) \o Stream(i[2])

AfterSending == [announce |-> "check", send |-> "parse"]

\* write() of send_bytes_raw: waits for room, and SIGPIPE kills the compiler if
\* the child is gone.
Send ==
    /\ pc \in {"announce", "send"}
    /\ unsent # << >>
    /\ child # "exited"
    /\ Room(child_stdin)
    /\ child_stdin' = Append(child_stdin, Head(unsent))
    /\ unsent' = Tail(unsent)
    /\ pc' = IF unsent' = << >> THEN AfterSending[pc] ELSE pc
    /\ UNCHANGED <<call, good, m_eof_hit, taken, macro, child_stdout>>

SendBreaks ==
    /\ pc \in {"announce", "send"}
    /\ child = "exited"
    /\ pc' = "broken"
    /\ UNCHANGED <<call, good, unsent, m_eof_hit, taken, macro,
                   child_stdin, child_stdout>>

\* The Visitor meets something it has no code for.
CannotSend ==
    /\ pc = "send"
    /\ pc' = "gave_up"
    /\ UNCHANGED <<call, good, unsent, m_eof_hit, taken, macro,
                   child_stdin, child_stdout>>

CheckGood ==
    /\ pc = "check"
    /\ \/ /\ child_stdout # << >>
          /\ child_stdout' = Tail(child_stdout)
          /\ pc' = "send"
          /\ unsent' = Sent(inputs)
          /\ good' = good
       \/ /\ child_stdout = << >>
          /\ child = "exited"
          /\ good' = FALSE
          /\ pc' = "wait"
          /\ UNCHANGED <<child_stdout, unsent>>
    /\ UNCHANGED <<call, m_eof_hit, taken, macro, child_stdin>>

\* realGetToken: the next message, waiting for it.
Receive ==
    /\ pc = "parse"
    /\ ~m_eof_hit
    /\ child_stdout # << >>
    /\ child_stdout' = Tail(child_stdout)
    /\ \/ /\ Head(child_stdout) \in Tokens
          /\ taken' = Append(taken, Head(child_stdout))
          /\ UNCHANGED <<pc, m_eof_hit>>
       \/ /\ Head(child_stdout) = "EmptySymbol"
          /\ m_eof_hit' = TRUE
          /\ UNCHANGED <<pc, taken>>
       \/ /\ Head(child_stdout) = "Junk"
          /\ pc' = "broken"
          /\ UNCHANGED <<taken, m_eof_hit>>
    /\ UNCHANGED <<call, good, unsent, macro, child_stdin>>

ReceiveBreaks ==
    /\ pc = "parse"
    /\ ~m_eof_hit
    /\ child_stdout = << >>
    /\ child = "exited"
    /\ pc' = "broken"
    /\ UNCHANGED <<call, good, unsent, m_eof_hit, taken, macro,
                   child_stdin, child_stdout>>

\* The callers parse until the end of the stream; a list of items also ends at
\* a closing brace.  Then the ProcMacroInv is destroyed.
ParseDone ==
    /\ pc = "parse"
    /\ \/ m_eof_hit
       \/ in_module /\ \E i \in DOMAIN taken : taken[i] = Close
    /\ pc' = "wait"
    /\ UNCHANGED <<call, good, unsent, m_eof_hit, taken, macro,
                   child_stdin, child_stdout>>

\* An error in the macro's output ends the compiler, without any destructor.
ParseFails ==
    /\ pc = "parse"
    /\ pc' = "gave_up"
    /\ UNCHANGED <<call, good, unsent, m_eof_hit, taken, macro,
                   child_stdin, child_stdout>>

\* The destructor: waitpid comes before the pipes are closed.  After a failed
\* check_good the caller reports an error.
WaitChild ==
    /\ pc = "wait"
    /\ child = "exited"
    /\ pc' = IF good THEN "returned" ELSE "broken"
    /\ UNCHANGED <<call, good, unsent, m_eof_hit, taken, macro,
                   child_stdin, child_stdout>>

Proceeds ==
    \/ Spawn \/ Send \/ SendBreaks \/ CheckGood
    \/ Receive \/ ReceiveBreaks \/ ParseDone \/ WaitChild

GivesUp == SpawnFails \/ CannotSend \/ ParseFails

Compiler == Proceeds \/ GivesUp

(***************************************************************************)
(* The macro's process: main() of libproc_macro.                           *)
(***************************************************************************)
\* It looks its name up in MACROS and says that it runs.
Start ==
    /\ child = "start"
    /\ \/ /\ handler = 0
          /\ child' = "exited"
          /\ UNCHANGED <<child_stdout, streams>>
       \/ /\ handler # 0
          /\ Room(child_stdout)
          /\ child_stdout' = Append(child_stdout, "Started")
          /\ streams' = << << >> >>
          /\ child' = "read"
    /\ UNCHANGED <<call, compiler, output, unwritten, child_stdin>>

Grow(m) == streams' = [streams EXCEPT ![Len(streams)] = Append(@, m)]

\* A broken reader for which an attribute's input is all there is.
ReadFirst(m) ==
    \/ m = "SpanDef" /\ UNCHANGED <<child, streams>>
    \/ m = "EndOfStream" /\ child' = "run" /\ UNCHANGED streams
    \/ m \in Tokens /\ Grow(m) /\ UNCHANGED child

\* recv_token_stream, called once for each stream the macro takes.
ReadMessage(m) ==
    \/ m = "SpanDef" /\ UNCHANGED <<child, streams>>
    \/ m = "EndOfStream" /\ Len(streams) = handler
         /\ child' = "run" /\ UNCHANGED streams
    \/ m = "EndOfStream" /\ Len(streams) # handler
         /\ streams' = Append(streams, << >>) /\ UNCHANGED child
    \/ m \in Tokens /\ Grow(m) /\ UNCHANGED child

Read ==
    /\ child = "read"
    /\ child_stdin # << >>
    /\ child_stdin' = Tail(child_stdin)
    /\ ReadMessage(Head(child_stdin))
    /\ UNCHANGED <<call, compiler, output, unwritten, child_stdout>>

ReadBreaks ==
    /\ child = "read"
    /\ child_stdin = << >>
    /\ Gone
    /\ child' = "exited"
    /\ UNCHANGED <<call, compiler, streams, output, unwritten,
                   child_stdin, child_stdout>>

Complete(s) == Append(s, "EmptySymbol")

\* A broken sender that leaves it to the end of the process to end the stream.
Unended(r) ==
    [whole |-> r.tokens, torn |-> r.tokens, panic |-> << >>,
     prints |-> <<"Junk">> \o Complete(r.tokens)][r.way]

\* What the child writes before it ends: send_token_stream.
Answer(r) ==
    [whole |-> Complete(r.tokens), torn |-> r.tokens, panic |-> << >>,
     prints |-> <<"Junk">> \o Complete(r.tokens)][r.way]

\* The macro itself.
Run ==
    /\ child = "run"
    /\ \E r \in Results :
         /\ output' = r
         /\ unwritten' = Answer(r)
    /\ child' = "write"
    /\ UNCHANGED <<call, compiler, streams, child_stdin, child_stdout>>

Write ==
    /\ child = "write"
    /\ unwritten # << >>
    /\ ~Gone
    /\ Room(child_stdout)
    /\ child_stdout' = Append(child_stdout, Head(unwritten))
    /\ unwritten' = Tail(unwritten)
    /\ UNCHANGED <<call, compiler, child, streams, output, child_stdin>>

\* The process ends when all is written, or with a panic when nobody reads.
Exit ==
    /\ child = "write"
    /\ unwritten = << >> \/ Gone
    /\ child' = "exited"
    /\ UNCHANGED <<call, compiler, streams, output, unwritten,
                   child_stdin, child_stdout>>

Macro == Start \/ Read \/ ReadBreaks \/ Run \/ Write \/ Exit

Next == Compiler \/ Macro

Spec == Init /\ [][Next]_vars

\* Both processes are scheduled, and a macro ends; that the compiler meets an
\* error is nothing to rely on.
FairSpec == Spec /\ WF_vars(Proceeds) /\ WF_vars(Macro)

(***************************************************************************)
(* Properties.                                                             *)
(***************************************************************************)
TypeOK ==
    /\ inputs \in Seq(Inputs) /\ Len(inputs) \in 1..2
    /\ handler \in 0..2
    /\ in_module \in BOOLEAN
    /\ pc \in {"spawn", "announce", "check", "send", "parse", "wait",
               "returned", "gave_up", "broken"}
    /\ good \in BOOLEAN
    /\ unsent \in Seq(Messages)
    /\ child_stdin \in Seq(Messages) /\ Len(child_stdin) <= PipeSize
    /\ child_stdout \in Seq(Messages) /\ Len(child_stdout) <= PipeSize
    /\ m_eof_hit \in BOOLEAN
    /\ taken \in Seq(Tokens)
    /\ child \in {"none", "start", "read", "run", "write", "exited"}
    /\ streams \in Seq(Seq(Tokens)) /\ (child = "read" => streams # << >>)
    /\ output \in Results \cup {Nothing}
    /\ unwritten \in Seq(Messages)

\* Nothing checks that a macro is of the kind it is used as
\* (proc_macro.cpp:1590, "TODO: Assert that this is a `#[proc_macro_attribute]`
\* macro"): what follows is about macros that are.
KindsAgree == handler \in {0, Len(inputs)}

\* The parser gets what the macro returned, in order, and takes it for complete
\* only when it is.
AnswerExact ==
    /\ IsPrefix(taken, output.tokens)
    /\ m_eof_hit => output.way = "whole" /\ taken = output.tokens

\* The macro gets exactly the streams of the call, each with its own tokens,
\* the parser what the macro made of them; the compiler goes on only after the
\* end of the answer or a closing brace.
ExpansionExact ==
    /\ AnswerExact
    /\ KindsAgree =>
      /\ child \in {"run", "write"} => streams = inputs
      /\ pc = "returned" => m_eof_hit \/ \E i \in DOMAIN taken : taken[i] = Close

\* The exchange itself never fails: if the child is gone too early or its
\* answer is malformed, then the macro was not found, panicked or printed.
FailsForCause ==
    KindsAgree /\ pc = "broken" => handler = 0 \/ output.way \in Ways \ {"whole"}

\* The parser stopped at a brace, and what is left is more than the pipe holds:
\* the destructor waits for a child that waits for a reader.
LeftBehind ==
    /\ pc = "wait" /\ good /\ ~m_eof_hit
    /\ Len(Answer(output)) > Len(taken) + PipeSize

\* Each call ends and leaves no process behind, whatever the streams and the
\* pipes hold, also when either side dies half-way.
CallEnds == KindsAgree => <>(Ended \/ LeftBehind)
=============================================================================
