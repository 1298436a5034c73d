--------------------------- MODULE ProcMacroProofs ---------------------------
(***************************************************************************)
(* Proofs about a call of a procedural macro, for all streams, every size  *)
(* of the pipes and every way the two processes may run or die.  Each side *)
(* says its messages in a fixed order; what it has yet to write, what is in *)
(* the pipe and what the other side has received are parts of that script  *)
(* that follow each other without gap or overlap.                          *)
(***************************************************************************)
EXTENDS ProcMacro, TLAPS

(***************************************************************************)
(* What is said.                                                           *)
(***************************************************************************)
LEMMA MarksApart ==
    ASSUME ProcMacroAssumption
    PROVE  /\ "EmptySymbol" \notin Tokens /\ "Junk" \notin Tokens /\ "Started" \notin Tokens
           /\ "EndOfStream" \notin Tokens /\ "SpanDef" \notin Tokens
           /\ Tokens \subseteq Messages
           /\ {"EmptySymbol", "Junk", "Started", "EndOfStream", "SpanDef"} \subseteq Messages
<1>1. {"EmptySymbol", "Junk", "Started", "EndOfStream", "SpanDef"} \subseteq Marks
  BY DEF Marks
<1> QED BY <1>1 DEF ProcMacroAssumption, Messages

LEMMA Push ==
    ASSUME NEW S, NEW s \in Seq(S), NEW x \in S
    PROVE  /\ Append(s, x) \in Seq(S) /\ Append(s, x) # << >>
           /\ Len(Append(s, x)) = Len(s) + 1
           /\ \A i \in 1..Len(s) : Append(s, x)[i] = s[i]
           /\ Append(s, x)[Len(s) + 1] = x
OBVIOUS

LEMMA Pop ==
    ASSUME NEW S, NEW s \in Seq(S), s # << >>
    PROVE  /\ Head(s) \in S /\ Head(s) = s[1]
           /\ Tail(s) \in Seq(S)
           /\ Len(s) \in Nat /\ Len(s) >= 1
           /\ Len(Tail(s)) = Len(s) - 1
           /\ \A i \in 1..Len(s) - 1 : Tail(s)[i] = s[i + 1]
OBVIOUS

LEMMA Join ==
    ASSUME NEW S, NEW s \in Seq(S), NEW t \in Seq(S)
    PROVE  /\ s \o t \in Seq(S)
           /\ Len(s \o t) = Len(s) + Len(t)
           /\ \A i \in 1..Len(s) : (s \o t)[i] = s[i]
           /\ \A i \in 1..Len(t) : (s \o t)[Len(s) + i] = t[i]
OBVIOUS

LEMMA CompleteShape ==
    ASSUME ProcMacroAssumption, NEW s \in Seq(Tokens)
    PROVE  /\ Complete(s) \in Seq(Messages)
           /\ Len(s) \in Nat /\ Len(Complete(s)) = Len(s) + 1
           /\ \A i \in 1..Len(s) : Complete(s)[i] = s[i] /\ s[i] \in Tokens
           /\ Complete(s)[Len(s) + 1] = "EmptySymbol"
<1> DEFINE e == "EmptySymbol"
<1>1. Complete(s) = Append(s, e) /\ e \in Messages /\ s \in Seq(Messages)
  BY MarksApart DEF Complete
<1> HIDE DEF e
<1>2. /\ Append(s, e) \in Seq(Messages)
      /\ Len(s) \in Nat /\ Len(Append(s, e)) = Len(s) + 1
      /\ \A i \in 1..Len(s) : Append(s, e)[i] = s[i] /\ s[i] \in Tokens
      /\ Append(s, e)[Len(s) + 1] = e
  BY <1>1
<1> QED BY <1>1, <1>2 DEF e

\* What an answer consists of.
LEMMA AnswerShape ==
    ASSUME ProcMacroAssumption, NEW r \in Results
    PROVE  /\ r.tokens \in Seq(Tokens) /\ Len(r.tokens) \in Nat
           /\ \A i \in 1..Len(r.tokens) : r.tokens[i] \in Tokens
           /\ Answer(r) \in Seq(Messages) /\ Len(Answer(r)) \in Nat
           /\ r.way = "whole" =>
                /\ Len(Answer(r)) = Len(r.tokens) + 1
                /\ \A i \in 1..Len(r.tokens) : Answer(r)[i] = r.tokens[i]
                /\ Answer(r)[Len(r.tokens) + 1] = "EmptySymbol"
           /\ r.way = "torn" => Answer(r) = r.tokens
           /\ r.way = "panic" => Answer(r) = << >>
           /\ r.way = "prints" => Len(Answer(r)) >= 1 /\ Answer(r)[1] = "Junk"
           /\ r.way \in Ways
<1>1. r.tokens \in Seq(Tokens) /\ r.way \in Ways
  BY DEF Results, ProcMacroAssumption
<1>2. Len(r.tokens) \in Nat /\ \A i \in 1..Len(r.tokens) : r.tokens[i] \in Tokens
  BY <1>1
<1>3. r.tokens \in Seq(Messages)
  BY <1>1, MarksApart
<1> DEFINE c == Complete(r.tokens)
           j == "Junk"
<1>4. /\ c \in Seq(Messages) /\ Len(c) = Len(r.tokens) + 1
      /\ \A i \in 1..Len(r.tokens) : c[i] = r.tokens[i]
      /\ c[Len(r.tokens) + 1] = "EmptySymbol"
  BY <1>1, CompleteShape
<1>5. j \in Messages
  BY MarksApart
<1>6. /\ r.way = "whole" => Answer(r) = c
      /\ r.way = "torn" => Answer(r) = r.tokens
      /\ r.way = "panic" => Answer(r) = << >>
      /\ r.way = "prints" => Answer(r) = <<j>> \o c
  BY DEF Answer
<1> HIDE DEF c, j
<1>7. /\ <<j>> \o c \in Seq(Messages)
      /\ Len(<<j>> \o c) = 1 + Len(c)
      /\ (<<j>> \o c)[1] = j
  BY <1>4, <1>5
<1>8. << >> \in Seq(Messages)
  OBVIOUS
<1>9. Answer(r) \in Seq(Messages)
  BY <1>1, <1>3, <1>4, <1>6, <1>7, <1>8 DEF Ways
<1>10. Len(Answer(r)) \in Nat
  BY <1>9
<1>11. r.way = "prints" => Len(Answer(r)) >= 1 /\ Answer(r)[1] = "Junk"
  BY <1>2, <1>4, <1>6, <1>7 DEF j
<1> QED BY <1>1, <1>2, <1>4, <1>6, <1>9, <1>10, <1>11

LEMMA StreamShape ==
    ASSUME ProcMacroAssumption, NEW s \in Seq(Tokens)
    PROVE  /\ Stream(s) \in Seq(Messages)
           /\ Len(s) \in Nat /\ Len(Stream(s)) = Len(s) + 1
           /\ \A i \in 1..Len(s) : Stream(s)[i] = s[i] /\ s[i] \in Tokens
           /\ Stream(s)[Len(s) + 1] = "EndOfStream"
<1> DEFINE e == "EndOfStream"
<1>1. Stream(s) = Append(s, e) /\ e \in Messages /\ s \in Seq(Messages)
  BY MarksApart DEF Stream
<1> HIDE DEF e
<1>2. /\ Append(s, e) \in Seq(Messages)
      /\ Len(s) \in Nat /\ Len(Append(s, e)) = Len(s) + 1
      /\ \A i \in 1..Len(s) : Append(s, e)[i] = s[i] /\ s[i] \in Tokens
      /\ Append(s, e)[Len(s) + 1] = e
  BY <1>1
<1> QED BY <1>1, <1>2 DEF e

\* What the compiler sends after check_good, stream by stream.
LEMMA SentShape ==
    ASSUME ProcMacroAssumption, TypeOK
    PROVE  /\ Len(inputs) \in {1, 2}
           /\ Sent(inputs) \in Seq(Messages) /\ Len(Sent(inputs)) \in Nat
           /\ inputs[1] \in Seq(Tokens) /\ Len(inputs[1]) \in Nat
           /\ \A i \in 1..Len(inputs[1]) : Sent(inputs)[i] = inputs[1][i] /\ inputs[1][i] \in Tokens
           /\ Sent(inputs)[Len(inputs[1]) + 1] = "EndOfStream"
           /\ Len(inputs) = 1 => Len(Sent(inputs)) = Len(inputs[1]) + 1
           /\ Len(inputs) = 2 =>
                /\ inputs[2] \in Seq(Tokens) /\ Len(inputs[2]) \in Nat
                /\ \A i \in 1..Len(inputs[2]) :
                     Sent(inputs)[Len(inputs[1]) + 1 + i] = inputs[2][i] /\ inputs[2][i] \in Tokens
                /\ Sent(inputs)[Len(inputs[1]) + 1 + (Len(inputs[2]) + 1)] = "EndOfStream"
                /\ Len(Sent(inputs)) = Len(inputs[1]) + 1 + (Len(inputs[2]) + 1)
<1>1. Len(inputs) \in {1, 2} /\ inputs \in Seq(Inputs) /\ Inputs \subseteq Seq(Tokens)
  BY DEF TypeOK, ProcMacroAssumption
<1>2. inputs[1] \in Seq(Tokens)
  BY <1>1
<1> DEFINE f == Stream(inputs[1])
<1>3. /\ f \in Seq(Messages)
      /\ Len(inputs[1]) \in Nat /\ Len(f) = Len(inputs[1]) + 1
      /\ \A i \in 1..Len(inputs[1]) : f[i] = inputs[1][i] /\ inputs[1][i] \in Tokens
      /\ f[Len(inputs[1]) + 1] = "EndOfStream"
  BY <1>2, StreamShape
<1>4. CASE Len(inputs) = 1
  <2>1. Sent(inputs) = f
    BY <1>4 DEF Sent
  <2> HIDE DEF f
  <2> QED BY <1>1, <1>2, <1>3, <1>4, <2>1
<1>5. CASE Len(inputs) = 2
  <2> DEFINE g == Stream(inputs[2])
  <2>1. inputs[2] \in Seq(Tokens)
    BY <1>1, <1>5
  <2>2. /\ g \in Seq(Messages)
        /\ Len(inputs[2]) \in Nat /\ Len(g) = Len(inputs[2]) + 1
        /\ \A i \in 1..Len(inputs[2]) : g[i] = inputs[2][i] /\ inputs[2][i] \in Tokens
        /\ g[Len(inputs[2]) + 1] = "EndOfStream"
    BY <2>1, StreamShape
  <2>3. Sent(inputs) = f \o g
    BY <1>5 DEF Sent
  <2> HIDE DEF f, g
  <2>4. /\ f \o g \in Seq(Messages)
        /\ Len(f \o g) = Len(f) + Len(g)
        /\ \A i \in 1..Len(f) : (f \o g)[i] = f[i]
        /\ \A i \in 1..Len(g) : (f \o g)[Len(f) + i] = g[i]
    <3>1. f \in Seq(Messages) /\ g \in Seq(Messages)
      BY <1>3, <2>2
    <3> QED BY <3>1, Join
  <2>5. /\ \A i \in 1..Len(inputs[1]) : Sent(inputs)[i] = inputs[1][i]
        /\ Sent(inputs)[Len(inputs[1]) + 1] = "EndOfStream"
    BY <1>3, <2>3, <2>4
  <2>6. \A i \in 1..Len(inputs[2]) : Sent(inputs)[Len(inputs[1]) + 1 + i] = inputs[2][i]
    <3>1. Len(f) = Len(inputs[1]) + 1 /\ Len(g) = Len(inputs[2]) + 1
          /\ Len(inputs[2]) \in Nat
      BY <1>3, <2>2
    <3> SUFFICES ASSUME NEW i \in 1..Len(inputs[2])
                 PROVE  (f \o g)[Len(f) + i] = g[i] /\ g[i] = inputs[2][i]
      BY <2>3, <3>1
    <3>2. i \in 1..Len(g)
      BY <3>1
    <3> QED BY <3>2, <2>2, <2>4
  <2>7. Sent(inputs)[Len(inputs[1]) + 1 + (Len(inputs[2]) + 1)] = "EndOfStream"
    <3>1. Len(inputs[2]) + 1 \in 1..Len(g)
      BY <2>2
    <3> QED BY <3>1, <1>3, <2>2, <2>3, <2>4
  <2>8. Len(Sent(inputs)) = Len(inputs[1]) + 1 + (Len(inputs[2]) + 1)
    BY <1>3, <2>2, <2>3, <2>4
  <2>9. Sent(inputs) \in Seq(Messages) /\ Len(Sent(inputs)) \in Nat
    <3>1. f \o g \in Seq(Messages)
      BY <2>4
    <3>2. Len(f \o g) \in Nat
      BY <3>1
    <3> QED BY <3>1, <3>2, <2>3
  <2> QED BY <1>1, <1>2, <1>3, <1>5, <2>1, <2>2, <2>5, <2>6, <2>7, <2>8, <2>9
<1> QED BY <1>1, <1>4, <1>5

(***************************************************************************)
(* Types.                                                                  *)
(***************************************************************************)
LEMMA TypeStep == ASSUME ProcMacroAssumption, TypeOK, [Next]_vars PROVE TypeOK'
<1> USE DEF TypeOK
<1>1. CASE Spawn
  <2>1. <<"SpanDef">> \in Seq(Messages)
    BY MarksApart
  <2> QED
    BY <1>1, <2>1 DEF Spawn, call
<1>2. CASE SpawnFails
  BY <1>2 DEF SpawnFails, call, macro
<1>3. CASE Send
  <2>1. Head(unsent) \in Messages /\ unsent' \in Seq(Messages)
    BY <1>3, Pop DEF Send
  <2>2. child_stdin' \in Seq(Messages) /\ Len(child_stdin') <= PipeSize
    BY <1>3, <2>1, Push DEF Send, Room, ProcMacroAssumption
  <2>3. pc' \in {"announce", "send", "check", "parse"}
    BY <1>3 DEF Send, AfterSending
  <2> QED
    BY <1>3, <2>1, <2>2, <2>3 DEF Send, call, macro
<1>4. CASE SendBreaks
  BY <1>4 DEF SendBreaks, call, macro
<1>5. CASE CannotSend
  BY <1>5 DEF CannotSend, call, macro
<1>6. CASE CheckGood
  <2>1. Sent(inputs) \in Seq(Messages)
    BY SentShape
  <2>2. child_stdout' \in Seq(Messages) /\ Len(child_stdout') <= PipeSize
    <3>1. CASE child_stdout' = Tail(child_stdout) /\ child_stdout # << >>
      BY <3>1, Pop DEF ProcMacroAssumption
    <3> QED
      BY <1>6, <3>1 DEF CheckGood
  <2> QED
    BY <1>6, <2>1, <2>2 DEF CheckGood, call, macro
<1>7. CASE Receive
  <2>1. child_stdout' \in Seq(Messages) /\ Len(child_stdout') <= PipeSize
    BY <1>7, Pop DEF Receive, ProcMacroAssumption
  <2>2. taken' \in Seq(Tokens) /\ m_eof_hit' \in BOOLEAN /\ pc' \in {"parse", "broken"}
    <3>1. CASE /\ Head(child_stdout) \in Tokens
               /\ taken' = Append(taken, Head(child_stdout))
               /\ UNCHANGED <<pc, m_eof_hit>>
      BY <1>7, <3>1 DEF Receive
    <3> QED
      BY <1>7, <3>1 DEF Receive
  <2> QED
    BY <1>7, <2>1, <2>2 DEF Receive, call, macro
<1>8. CASE ReceiveBreaks
  BY <1>8 DEF ReceiveBreaks, call, macro
<1>9. CASE ParseDone
  BY <1>9 DEF ParseDone, call, macro
<1>10. CASE ParseFails
  BY <1>10 DEF ParseFails, call, macro
<1>11. CASE WaitChild
  BY <1>11 DEF WaitChild, call, macro
<1>12. CASE Start
  <2>1. child_stdout' \in Seq(Messages) /\ Len(child_stdout') <= PipeSize
    <3>1. CASE child_stdout' = Append(child_stdout, "Started") /\ Room(child_stdout)
      BY <3>1, Push, MarksApart DEF Room, ProcMacroAssumption
    <3> QED
      BY <1>12, <3>1 DEF Start
  <2>2. << << >> >> \in Seq(Seq(Tokens)) /\ << << >> >> # << >>
    OBVIOUS
  <2> QED
    BY <1>12, <2>1, <2>2 DEF Start, call, compiler
<1>13. CASE Read
  <2>1. child_stdin' \in Seq(Messages) /\ Len(child_stdin') <= PipeSize
    BY <1>13, Pop DEF Read, ProcMacroAssumption
  <2>2. /\ streams' \in Seq(Seq(Tokens)) /\ streams' # << >>
        /\ child' \in {"read", "run"}
    <3>1. CASE Grow(Head(child_stdin)) /\ Head(child_stdin) \in Tokens /\ UNCHANGED child
      <4>1. Append(streams[Len(streams)], Head(child_stdin)) \in Seq(Tokens)
        BY <1>13, <3>1, Push DEF Read
      <4> QED
        BY <1>13, <3>1, <4>1 DEF Read, Grow
    <3>2. CASE streams' = Append(streams, << >>) /\ UNCHANGED child
      <4> DEFINE S == Seq(Tokens)
                 e == << >>
      <4>1. e \in S /\ streams \in Seq(S)
        OBVIOUS
      <4> HIDE DEF S, e, TypeOK
      <4>2. Append(streams, e) \in Seq(S) /\ Append(streams, e) # << >>
        BY <4>1, Push
      <4> QED
        BY <1>13, <3>2, <4>2 DEF Read, S, e
    <3> QED
      BY <1>13, <3>1, <3>2 DEF Read, ReadMessage
  <2> QED
    BY <1>13, <2>1, <2>2 DEF Read, call, compiler
<1>14. CASE ReadBreaks
  BY <1>14 DEF ReadBreaks, call, compiler
<1>15. CASE Run
  BY <1>15, AnswerShape DEF Run, call, compiler
<1>16. CASE Write
  BY <1>16 DEF Write, call, compiler, Room
<1>17. CASE Exit
  BY <1>17 DEF Exit, call, compiler
<1>18. CASE UNCHANGED vars
  BY <1>18 DEF vars, call, compiler, macro
<1> QED
  BY <1>1, <1>2, <1>3, <1>4, <1>5, <1>6, <1>7, <1>8, <1>9, <1>10, <1>11,
     <1>12, <1>13, <1>14, <1>15, <1>16, <1>17, <1>18
  DEF Next, Compiler, Proceeds, GivesUp, Macro

LEMMA TypeInit == ASSUME ProcMacroAssumption, Init PROVE TypeOK
<1>1. inputs \in Seq(Inputs) /\ Len(inputs) \in 1..2
  <2>1. CASE \E body \in Inputs : inputs = <<body>>
    BY <2>1
  <2>2. CASE \E attr_input, item \in Inputs : inputs = <<attr_input, item>>
    BY <2>2
  <2> QED
    BY <2>1, <2>2 DEF Init
<1>2. /\ << >> \in Seq(Messages) /\ << >> \in Seq(Tokens)
      /\ << >> \in Seq(Seq(Tokens)) /\ Len(<< >>) = 0
  OBVIOUS
<1>3. /\ unsent \in Seq(Messages) /\ unwritten \in Seq(Messages)
      /\ child_stdin \in Seq(Messages) /\ Len(child_stdin) <= PipeSize
      /\ child_stdout \in Seq(Messages) /\ Len(child_stdout) <= PipeSize
      /\ taken \in Seq(Tokens) /\ streams \in Seq(Seq(Tokens))
  BY <1>2 DEF Init, ProcMacroAssumption
<1> QED
  BY <1>1, <1>3 DEF Init, TypeOK

(***************************************************************************)
(* What is under way is a part of what one side says in all.               *)
(***************************************************************************)
\* The messages of s are those of w after the first n.
Within(s, w, n) == \A i \in 1..Len(s) : s[i] = w[n + i]

LEMMA WithinPop ==
    ASSUME NEW s \in Seq(Messages), s # << >>, NEW w, NEW n \in Nat, Within(s, w, n)
    PROVE  /\ Head(s) = w[n + 1]
           /\ Len(Tail(s)) = Len(s) - 1 /\ Len(s) \in Nat /\ Len(s) >= 1
           /\ Within(Tail(s), w, n + 1)
<1>1. /\ Head(s) = s[1] /\ Len(Tail(s)) = Len(s) - 1 /\ Len(s) \in Nat /\ Len(s) >= 1
      /\ \A i \in 1..Len(s) - 1 : Tail(s)[i] = s[i + 1]
  OBVIOUS
<1>2. Head(s) = w[n + 1]
  BY <1>1 DEF Within
<1>3. ASSUME NEW i \in 1..Len(Tail(s)) PROVE Tail(s)[i] = w[n + 1 + i]
  <2>1. Tail(s)[i] = s[i + 1] /\ i + 1 \in 1..Len(s)
    BY <1>1
  <2>2. s[i + 1] = w[n + (i + 1)]
    BY <2>1 DEF Within
  <2>3. n + (i + 1) = n + 1 + i
    OBVIOUS
  <2> QED BY <2>1, <2>2, <2>3
<1> QED BY <1>1, <1>2, <1>3 DEF Within

LEMMA WithinMove ==
    ASSUME NEW s \in Seq(Messages), NEW u \in Seq(Messages), u # << >>,
           NEW w, NEW n \in Nat, Within(s, w, n), Within(u, w, n + Len(s))
    PROVE  /\ Len(Append(s, Head(u))) = Len(s) + 1
           /\ Len(s) \in Nat /\ Len(u) \in Nat
           /\ Len(Tail(u)) = Len(u) - 1
           /\ Within(Append(s, Head(u)), w, n)
           /\ Within(Tail(u), w, n + (Len(s) + 1))
<1> DEFINE t == Append(s, Head(u))
<1>1. Len(s) \in Nat /\ n + Len(s) \in Nat
  OBVIOUS
<1>2. /\ Head(u) = w[n + Len(s) + 1]
      /\ Len(Tail(u)) = Len(u) - 1 /\ Len(u) \in Nat
      /\ Within(Tail(u), w, n + Len(s) + 1)
  BY <1>1, WithinPop
<1>3. /\ Len(t) = Len(s) + 1
      /\ \A i \in 1..Len(s) : t[i] = s[i]
      /\ t[Len(s) + 1] = Head(u)
  OBVIOUS
<1>4. n + Len(s) + 1 = n + (Len(s) + 1)
  BY <1>1
<1>5. Within(t, w, n)
  <2> SUFFICES ASSUME NEW i \in 1..Len(t) PROVE t[i] = w[n + i]
    BY DEF Within
  <2>1. CASE i = Len(s) + 1
    BY <2>1, <1>2, <1>3, <1>4
  <2>2. CASE i # Len(s) + 1
    <3>1. i \in 1..Len(s)
      BY <2>2, <1>1, <1>3
    <3> QED BY <3>1, <1>3 DEF Within
  <2> QED BY <2>1, <2>2
<1> QED BY <1>1, <1>2, <1>3, <1>4, <1>5

(***************************************************************************)
(* What the compiler receives.                                             *)
(***************************************************************************)
\* All that the child says: that it runs, and its answer.
Reply == IF output = Nothing THEN << >> ELSE Answer(output)
Spoken == [i \in Nat |-> IF i = 1 THEN "Started" ELSE Reply[i - 1]]
Silent == child \in {"none", "start"} \/ handler = 0
Told == IF Silent THEN 0 ELSE 1 + Len(Reply)

\* How much of it the compiler has received.
Received == IF pc \in {"spawn", "announce", "check"} \/ ~good THEN 0
            ELSE IF m_eof_hit THEN 2 + Len(taken) ELSE 1 + Len(taken)

Quiet ==
    /\ child \in {"none", "start", "read", "run"} =>
         output = Nothing /\ unwritten = << >> /\ taken = << >> /\ ~m_eof_hit
    /\ child \in {"none", "start"} => child_stdout = << >>
    /\ handler = 0 =>
         /\ child \in {"none", "start", "exited"}
         /\ output = Nothing /\ child_stdout = << >> /\ unwritten = << >>
         /\ taken = << >> /\ ~m_eof_hit
    /\ child = "write" => output # Nothing
    /\ pc = "spawn" => child = "none"
    /\ child = "exited" => Gone \/ unwritten = << >>
    /\ child = "exited" => Gone \/ handler = 0 \/ output # Nothing
    /\ pc \in {"spawn", "announce", "check"} => taken = << >> /\ ~m_eof_hit /\ good
    /\ pc \in {"send", "parse"} => good
    /\ pc \in {"announce", "check", "send"} => ~m_eof_hit
    /\ ~good => handler = 0

OnItsWay ==
    ~Gone =>
      /\ Told = Received + Len(child_stdout) + Len(unwritten)
      /\ Within(child_stdout, Spoken, Received)
      /\ Within(unwritten, Spoken, Received + Len(child_stdout))

Taken ==
    /\ Len(taken) <= Len(Reply)
    /\ \A i \in 1..Len(taken) : taken[i] = Reply[i]
    /\ m_eof_hit => output # Nothing /\ output.way = "whole" /\ Len(taken) = Len(output.tokens)

Back == Quiet /\ OnItsWay /\ Taken

LEMMA ReplyType ==
    ASSUME ProcMacroAssumption, TypeOK
    PROVE  Reply \in Seq(Messages) /\ Len(Reply) \in Nat /\ (output = Nothing => Reply = << >> /\ Len(Reply) = 0)
<1>1. CASE output = Nothing
  <2>1. << >> \in Seq(Messages) /\ Len(<< >>) = 0
    OBVIOUS
  <2> QED BY <1>1, <2>1 DEF Reply
<1>2. CASE output # Nothing
  <2>1. output \in Results
    BY <1>2 DEF TypeOK
  <2> QED BY <1>2, <2>1, AnswerShape DEF Reply
<1> QED BY <1>1, <1>2

\* The steps that leave what is said, sent and received as it is.
LEMMA BackQuiet ==
    ASSUME Back, UNCHANGED <<child_stdout, taken, m_eof_hit, output, unwritten>>,
           Silent' = Silent,
           ~Gone' => ~Gone /\ Received' = Received,
           Quiet'
    PROVE  Back'
<1>1. Reply' = Reply
  BY DEF Reply
<1>2. Spoken' = Spoken /\ Told' = Told
  BY <1>1 DEF Spoken, Told
<1>3. Taken'
  BY <1>1 DEF Back, Taken
<1>4. OnItsWay'
  BY <1>2 DEF Back, OnItsWay, Within
<1> QED BY <1>3, <1>4 DEF Back

LEMMA CheckGoodBack ==
    ASSUME ProcMacroAssumption, TypeOK, Back, CheckGood PROVE Back'
<1>1. /\ pc = "check" /\ ~Gone /\ good /\ taken = << >> /\ ~m_eof_hit
      /\ UNCHANGED <<handler, taken, m_eof_hit, child, output, unwritten>>
  BY DEF CheckGood, call, macro, Gone, Back, Quiet
<1>2. Received = 0 /\ Len(taken) = 0
  BY <1>1 DEF Received
<1>3. CASE child_stdout = << >>
  <2>1. child = "exited" /\ ~good' /\ pc' = "wait" /\ child_stdout' = child_stdout
    BY <1>3, <1>1 DEF CheckGood
  <2>2. unwritten = << >>
    BY <2>1, <1>1 DEF Back, Quiet
  <2>3. Told = 0
    BY <1>1, <1>2, <1>3, <2>2 DEF Back, OnItsWay
  <2>4. handler = 0
    BY <2>1, <2>3, ReplyType DEF Told, Silent
  <2>5. Quiet'
    BY <1>1, <2>1, <2>4 DEF Back, Quiet
  <2>6. Received' = 0 /\ Silent' = Silent
    BY <1>1, <2>1 DEF Received, Silent
  <2> QED BY <1>1, <1>2, <2>1, <2>5, <2>6, BackQuiet
<1>4. CASE child_stdout # << >>
  <2>1. child_stdout' = Tail(child_stdout) /\ pc' = "send" /\ good' = good
    BY <1>4, <1>1 DEF CheckGood
  <2>2. Quiet'
    BY <1>1, <1>4, <2>1 DEF Back, Quiet
  <2>3. Received' = 1 /\ ~Gone'
    BY <1>1, <1>2, <2>1 DEF Received, Gone
  <2>4. Reply' = Reply
    BY <1>1 DEF Reply
  <2>5. Spoken' = Spoken /\ Told' = Told
    BY <1>1, <2>4 DEF Spoken, Told, Silent
  <2>6. Taken'
    BY <1>1, <2>4 DEF Back, Taken
  <2>7. child_stdout \in Seq(Messages) /\ unwritten \in Seq(Messages)
    BY DEF TypeOK
  <2>8. /\ Len(child_stdout') = Len(child_stdout) - 1
        /\ Len(child_stdout) \in Nat /\ Len(child_stdout) >= 1
        /\ Within(child_stdout', Spoken, 1)
    BY <1>1, <1>2, <1>4, <2>1, <2>7, WithinPop DEF Back, OnItsWay
  <2>9. Len(unwritten) \in Nat /\ 1 + (Len(child_stdout) - 1) = 0 + Len(child_stdout)
    BY <2>7, <2>8
  <2>10. OnItsWay'
    BY <1>1, <1>2, <2>1, <2>3, <2>5, <2>8, <2>9 DEF Back, OnItsWay, Within
  <2> QED BY <2>2, <2>6, <2>10 DEF Back
<1> QED BY <1>3, <1>4

\* What is received next.
LEMMA NextMessage ==
    ASSUME ProcMacroAssumption, TypeOK, Back, pc = "parse", ~m_eof_hit,
           child_stdout # << >>
    PROVE  /\ handler # 0 /\ output \in Results /\ Reply = Answer(output)
           /\ Len(taken) \in Nat /\ Len(taken) + 1 <= Len(Reply)
           /\ Received = 1 + Len(taken)
           /\ Head(child_stdout) = Reply[Len(taken) + 1]
           /\ Len(child_stdout) \in Nat
           /\ Len(Tail(child_stdout)) = Len(child_stdout) - 1
           /\ Within(Tail(child_stdout), Spoken, Received + 1)
<1>1. ~Gone /\ good /\ handler # 0
  BY DEF Gone, Back, Quiet
<1>2. Len(taken) \in Nat /\ child_stdout \in Seq(Messages) /\ unwritten \in Seq(Messages)
  BY DEF TypeOK
<1>3. Received = 1 + Len(taken)
  BY <1>1 DEF Received
<1>4. /\ Head(child_stdout) = Spoken[1 + Len(taken) + 1]
      /\ Len(Tail(child_stdout)) = Len(child_stdout) - 1
      /\ Len(child_stdout) \in Nat /\ Len(child_stdout) >= 1
      /\ Within(Tail(child_stdout), Spoken, Received + 1)
  BY <1>1, <1>2, <1>3, WithinPop DEF Back, OnItsWay
<1>5. Spoken[1 + Len(taken) + 1] = Reply[Len(taken) + 1]
  BY <1>2 DEF Spoken
<1>6. Told = 1 + Len(taken) + Len(child_stdout) + Len(unwritten) /\ Len(unwritten) \in Nat
  BY <1>1, <1>2, <1>3 DEF Back, OnItsWay
<1>7. Len(taken) + 1 <= Len(Reply)
  BY <1>2, <1>4, <1>6, ReplyType DEF Told
<1>8. output # Nothing
  BY <1>2, <1>7, ReplyType
<1>9. output \in Results /\ Reply = Answer(output)
  BY <1>8 DEF TypeOK, Reply
<1> QED BY <1>1, <1>2, <1>3, <1>4, <1>5, <1>7, <1>9

LEMMA ReceiveBack ==
    ASSUME ProcMacroAssumption, TypeOK, Back, Receive PROVE Back'
<1>1. /\ pc = "parse" /\ ~m_eof_hit /\ child_stdout # << >>
      /\ child_stdout' = Tail(child_stdout)
      /\ UNCHANGED <<handler, good, child, output, unwritten>>
  BY DEF Receive, call, macro
<1>2. /\ handler # 0 /\ output \in Results /\ Reply = Answer(output)
      /\ Len(taken) \in Nat /\ Len(taken) + 1 <= Len(Reply)
      /\ Received = 1 + Len(taken)
      /\ Head(child_stdout) = Reply[Len(taken) + 1]
      /\ Len(child_stdout) \in Nat
      /\ Len(child_stdout') = Len(child_stdout) - 1
      /\ Within(child_stdout', Spoken, Received + 1)
  BY <1>1, NextMessage
<1>3. ~Gone /\ good
  BY <1>1 DEF Gone, Back, Quiet
<1>4. Reply' = Reply
  BY <1>1 DEF Reply
<1>5. Spoken' = Spoken /\ Told' = Told
  BY <1>1, <1>4 DEF Spoken, Told, Silent
<1>6. output # Nothing /\ child \notin {"none", "start", "read", "run"}
  <2>1. output # Nothing
    BY <1>2, ReplyType
  <2> QED BY <2>1 DEF Back, Quiet
<1>7. Gone' \/ Received' = Received + 1 => OnItsWay'
  <2>1. Len(unwritten) \in Nat
    BY DEF TypeOK
  <2>2. Received + 1 + (Len(child_stdout) - 1) = Received + Len(child_stdout)
    BY <1>2
  <2> QED BY <1>1, <1>2, <1>3, <1>5, <2>1, <2>2 DEF Back, OnItsWay, Within
<1>8. CASE Head(child_stdout) \in Tokens
  <2>1. taken' = Append(taken, Head(child_stdout)) /\ pc' = pc /\ m_eof_hit' = m_eof_hit
    BY <1>8, <1>1, MarksApart DEF Receive
  <2>2. taken \in Seq(Tokens)
    BY DEF TypeOK
  <2>3. /\ Len(taken') = Len(taken) + 1 /\ taken'[Len(taken) + 1] = Head(child_stdout)
        /\ \A i \in 1..Len(taken) : taken'[i] = taken[i]
    BY <1>8, <2>1, <2>2, Push
  <2>4. Quiet'
    BY <1>1, <1>2, <1>3, <1>6, <2>1 DEF Back, Quiet, Gone
  <2>5. Received' = Received + 1
    BY <1>1, <1>2, <1>3, <2>1, <2>3 DEF Received
  <2>6. Taken'
    <3>1. ASSUME NEW i \in 1..Len(taken') PROVE taken'[i] = Reply[i]
      <4>1. CASE i = Len(taken) + 1
        BY <4>1, <1>2, <2>3
      <4>2. CASE i # Len(taken) + 1
        <5>1. i \in 1..Len(taken)
          BY <4>2, <1>2, <2>3
        <5> QED BY <5>1, <2>3 DEF Back, Taken
      <4> QED BY <4>1, <4>2
    <3> QED BY <1>1, <1>2, <1>4, <2>1, <2>3, <3>1 DEF Taken
  <2> QED BY <1>7, <2>4, <2>5, <2>6 DEF Back
<1>9. CASE Head(child_stdout) = "EmptySymbol"
  <2>1. m_eof_hit' = TRUE /\ pc' = pc /\ taken' = taken
    BY <1>9, <1>1, MarksApart DEF Receive
  <2>2. Quiet'
    BY <1>1, <1>2, <1>3, <1>6, <2>1 DEF Back, Quiet, Gone
  <2>3. Received' = Received + 1
    BY <1>1, <1>2, <1>3, <2>1 DEF Received
  <2>4. output.way = "whole" /\ Len(taken) = Len(output.tokens)
    <3>1. /\ Len(output.tokens) \in Nat
          /\ \A i \in 1..Len(output.tokens) : output.tokens[i] \in Tokens
          /\ output.way = "whole" =>
               /\ Len(Reply) = Len(output.tokens) + 1
               /\ \A i \in 1..Len(output.tokens) : Reply[i] = output.tokens[i]
          /\ output.way = "torn" => Reply = output.tokens
          /\ output.way = "panic" => Reply = << >>
          /\ output.way = "prints" => Reply[1] = "Junk"
          /\ output.way \in Ways
      BY <1>2, AnswerShape
    <3>2. Reply[Len(taken) + 1] \notin Tokens /\ Reply[Len(taken) + 1] # "Junk"
      BY <1>2, <1>9, MarksApart
    <3>3. output.way # "torn"
      BY <1>2, <3>1, <3>2
    <3>4. output.way # "panic"
      BY <1>2, <3>1
    <3>5. output.way # "prints"
      <4>1. taken \in Seq(Tokens)
        BY DEF TypeOK
      <4>2. CASE Len(taken) = 0
        BY <4>2, <1>2, <3>1, <3>2
      <4>3. CASE Len(taken) # 0
        <5>1. taken[1] = Reply[1] /\ taken[1] \in Tokens
          BY <4>1, <4>3, <1>2 DEF Back, Taken
        <5> QED BY <5>1, <3>1, MarksApart
      <4> QED BY <4>2, <4>3
    <3>6. output.way = "whole"
      BY <3>1, <3>3, <3>4, <3>5 DEF Ways
    <3>7. Len(taken) = Len(output.tokens)
      BY <1>2, <3>1, <3>2, <3>6
    <3> QED BY <3>6, <3>7
  <2>5. Taken'
    BY <1>1, <1>4, <1>6, <2>1, <2>4 DEF Back, Taken
  <2> QED BY <1>7, <2>2, <2>3, <2>5 DEF Back
<1>10. CASE Head(child_stdout) = "Junk"
  <2>1. UNCHANGED <<taken, m_eof_hit>> /\ pc' = "broken"
    BY <1>10, <1>1, MarksApart DEF Receive
  <2>2. Quiet' /\ Gone'
    BY <1>1, <1>2, <1>3, <1>6, <2>1 DEF Back, Quiet, Gone
  <2>3. Taken'
    BY <1>1, <1>4, <2>1 DEF Back, Taken
  <2> QED BY <1>7, <2>2, <2>3 DEF Back
<1> QED BY <1>8, <1>9, <1>10 DEF Receive

LEMMA StartBack ==
    ASSUME ProcMacroAssumption, TypeOK, Back, Start PROVE Back'
<1>1. /\ child = "start" /\ output = Nothing /\ unwritten = << >> /\ taken = << >>
      /\ ~m_eof_hit /\ child_stdout = << >>
      /\ UNCHANGED <<handler, pc, good, unsent, m_eof_hit, taken, output, unwritten>>
  BY DEF Start, call, compiler, Back, Quiet
<1>2. CASE handler = 0
  <2>1. child' = "exited" /\ child_stdout' = child_stdout
    BY <1>2 DEF Start
  <2>2. Quiet'
    BY <1>1, <1>2, <2>1 DEF Back, Quiet, Gone
  <2>3. Silent' = Silent /\ Received' = Received /\ (~Gone' => ~Gone)
    BY <1>1, <1>2 DEF Silent, Received, Gone
  <2> QED BY <1>1, <2>1, <2>2, <2>3, BackQuiet
<1>3. CASE handler # 0
  <2>1. child' = "read" /\ child_stdout' = Append(child_stdout, "Started")
    BY <1>3 DEF Start
  <2>2. Quiet'
    BY <1>1, <1>3, <2>1 DEF Back, Quiet, Gone
  <2>3. Reply' = Reply /\ Len(Reply) = 0
    BY <1>1, ReplyType DEF Reply
  <2>4. Taken'
    BY <1>1, <2>3 DEF Back, Taken
  <2>5. Told' = 1 /\ Told = 0
    BY <1>1, <1>3, <2>1, <2>3 DEF Told, Silent
  <2>6. Len(child_stdout) = 0 /\ Len(unwritten) = 0
    BY <1>1
  <2>7. ~Gone => Received = 0
    <3>1. Received \in Nat
      BY DEF Received, TypeOK
    <3> QED BY <2>5, <2>6, <3>1 DEF Back, OnItsWay
  <2>8. Received' = Received /\ Gone' = Gone /\ unwritten' = << >>
    BY <1>1 DEF Received, Gone
  <2>9. /\ Len(child_stdout') = 1 /\ child_stdout'[1] = "Started"
        /\ Len(unwritten') = 0
    BY <1>1, <2>1, <2>8
  <2>10. ~Gone => Within(child_stdout', Spoken', 0)
    BY <2>9 DEF Within, Spoken
  <2>11. Within(unwritten', Spoken', Received' + Len(child_stdout'))
    BY <2>9 DEF Within
  <2>12. OnItsWay'
    BY <2>5, <2>7, <2>8, <2>9, <2>10, <2>11 DEF OnItsWay, Within
  <2> QED BY <2>2, <2>4, <2>12 DEF Back
<1> QED BY <1>2, <1>3

LEMMA RunBack ==
    ASSUME ProcMacroAssumption, TypeOK, Back, Run PROVE Back'
<1>1. /\ child = "run" /\ output = Nothing /\ unwritten = << >> /\ taken = << >>
      /\ ~m_eof_hit /\ handler # 0 /\ child' = "write"
      /\ UNCHANGED <<handler, pc, good, unsent, m_eof_hit, taken, child_stdout>>
  BY DEF Run, call, compiler, Back, Quiet
<1>2. PICK r \in Results : output' = r /\ unwritten' = Answer(r)
  BY DEF Run
<1>3. Nothing \notin Results
  BY DEF Results, Nothing, Ways
<1>4. Reply' = Answer(r) /\ Reply = << >> /\ Len(Reply) = 0
  BY <1>1, <1>2, <1>3, ReplyType DEF Reply
<1>5. Quiet'
  BY <1>1, <1>2, <1>3 DEF Back, Quiet, Gone
<1>6. Taken'
  <2>1. Len(taken') = 0 /\ Len(Reply') \in Nat
    BY <1>1, <1>2, <1>4, AnswerShape
  <2> QED BY <1>1, <2>1 DEF Taken
<1>7. Told = 1 /\ Told' = 1 + Len(unwritten') /\ Len(unwritten) = 0 /\ Len(unwritten') \in Nat
  BY <1>1, <1>2, <1>4, AnswerShape DEF Told, Silent
<1>8. Received' = Received /\ Gone' = Gone /\ Received \in Nat /\ Len(child_stdout) \in Nat
  BY <1>1 DEF Received, Gone, TypeOK
<1>9. ~Gone => Received + Len(child_stdout) = 1
  BY <1>7, <1>8 DEF Back, OnItsWay
<1>10. ~Gone => Within(child_stdout', Spoken', Received')
  <2> SUFFICES ASSUME ~Gone, NEW i \in 1..Len(child_stdout)
               PROVE  child_stdout[i] = Spoken'[Received + i]
    BY <1>1, <1>8 DEF Within
  <2>1. Received + i = 1
    BY <1>8, <1>9
  <2>2. child_stdout[i] = Spoken[Received + i]
    BY DEF Back, OnItsWay, Within
  <2> QED BY <2>1, <2>2 DEF Spoken
<1>11. ~Gone => Within(unwritten', Spoken', Received' + Len(child_stdout'))
  <2> SUFFICES ASSUME ~Gone, NEW i \in 1..Len(unwritten')
               PROVE  unwritten'[i] = Spoken'[1 + i]
    BY <1>1, <1>8, <1>9 DEF Within
  <2>1. Spoken'[1 + i] = Reply'[i]
    BY <1>7 DEF Spoken
  <2> QED BY <2>1, <1>2, <1>4
<1>12. OnItsWay'
  BY <1>1, <1>7, <1>8, <1>9, <1>10, <1>11 DEF OnItsWay
<1> QED BY <1>5, <1>6, <1>12 DEF Back

LEMMA WriteBack ==
    ASSUME ProcMacroAssumption, TypeOK, Back, Write PROVE Back'
<1>1. /\ child = "write" /\ unwritten # << >> /\ ~Gone
      /\ child_stdout' = Append(child_stdout, Head(unwritten))
      /\ unwritten' = Tail(unwritten)
      /\ UNCHANGED <<handler, pc, good, unsent, m_eof_hit, taken, child, output>>
  BY DEF Write, call, compiler
<1>2. child_stdout \in Seq(Messages) /\ unwritten \in Seq(Messages) /\ Received \in Nat
  BY DEF TypeOK, Received
<1>3. /\ Told = Received + Len(child_stdout) + Len(unwritten)
      /\ Within(child_stdout, Spoken, Received)
      /\ Within(unwritten, Spoken, Received + Len(child_stdout))
  BY <1>1 DEF Back, OnItsWay
<1>4. /\ Len(child_stdout') = Len(child_stdout) + 1
      /\ Len(child_stdout) \in Nat /\ Len(unwritten) \in Nat
      /\ Len(unwritten') = Len(unwritten) - 1
      /\ Within(child_stdout', Spoken, Received)
      /\ Within(unwritten', Spoken, Received + (Len(child_stdout) + 1))
  BY <1>1, <1>2, <1>3, WithinMove
<1>5. Reply' = Reply
  BY <1>1 DEF Reply
<1>6. Spoken' = Spoken /\ Told' = Told /\ Received' = Received
  BY <1>1, <1>5 DEF Spoken, Told, Silent, Received
<1>7. Quiet'
  BY <1>1 DEF Back, Quiet, Gone
<1>8. Taken'
  BY <1>1, <1>5 DEF Back, Taken
<1>9. Told' = Received' + Len(child_stdout') + Len(unwritten')
  BY <1>2, <1>3, <1>4, <1>6
<1>10. Within(child_stdout, Spoken, Received)'
  BY <1>4, <1>6 DEF Within
<1>11. Within(unwritten, Spoken, Received + Len(child_stdout))'
  BY <1>4, <1>6 DEF Within
<1>12. OnItsWay'
  BY <1>9, <1>10, <1>11 DEF OnItsWay
<1> QED BY <1>7, <1>8, <1>12 DEF Back

LEMMA BackStep ==
    ASSUME ProcMacroAssumption, TypeOK, Back, [Next]_vars PROVE Back'
<1> DEFINE Elsewhere ==
      /\ UNCHANGED <<child_stdout, taken, m_eof_hit, output, unwritten>>
      /\ Silent' = Silent
      /\ ~Gone' => ~Gone /\ Received' = Received
      /\ Quiet'
<1> USE DEF Gone, Silent, Received, Back, Quiet, call, compiler, macro
<1>1. CASE Spawn
  BY <1>1, BackQuiet DEF Spawn
<1>2. CASE SpawnFails
  BY <1>2, BackQuiet DEF SpawnFails
<1>3. CASE Send
  <2>1. pc \in {"announce", "send"} /\ pc' \in (IF pc = "announce" THEN {"announce", "check"} ELSE {"send", "parse"})
    BY <1>3 DEF Send, AfterSending
  <2>2. Elsewhere
    BY <1>3, <2>1 DEF Send
  <2> QED BY <2>2, BackQuiet
<1>4. CASE SendBreaks
  BY <1>4, BackQuiet DEF SendBreaks
<1>5. CASE CannotSend
  BY <1>5, BackQuiet DEF CannotSend
<1>6. CASE ReceiveBreaks
  BY <1>6, BackQuiet DEF ReceiveBreaks
<1>7. CASE ParseDone
  BY <1>7, BackQuiet DEF ParseDone
<1>8. CASE ParseFails
  BY <1>8, BackQuiet DEF ParseFails
<1>9. CASE WaitChild
  BY <1>9, BackQuiet DEF WaitChild
<1>10. CASE Read
  <2>1. child = "read" /\ child' \in {"read", "run"}
    BY <1>10 DEF Read, ReadMessage
  <2>2. Elsewhere
    BY <1>10, <2>1 DEF Read
  <2> QED BY <2>2, BackQuiet
<1>11. CASE ReadBreaks
  BY <1>11, BackQuiet DEF ReadBreaks
<1>12. CASE Exit
  BY <1>12, BackQuiet DEF Exit
<1>13. CASE UNCHANGED vars
  BY <1>13, BackQuiet DEF vars
<1> QED
  BY <1>1, <1>2, <1>3, <1>4, <1>5, <1>6, <1>7, <1>8, <1>9, <1>10, <1>11, <1>12, <1>13,
     CheckGoodBack, ReceiveBack, StartBack, RunBack, WriteBack
  DEF Next, Compiler, Proceeds, GivesUp, Macro

LEMMA BackInit == ASSUME ProcMacroAssumption, Init PROVE Back
<1>1. /\ pc = "spawn" /\ good /\ child = "none" /\ output = Nothing /\ ~m_eof_hit
      /\ child_stdout = << >> /\ unwritten = << >> /\ taken = << >>
  BY DEF Init
<1>2. Len(child_stdout) = 0 /\ Len(unwritten) = 0 /\ Len(taken) = 0 /\ Len(Reply) = 0
  BY <1>1 DEF Reply
<1>3. Told = 0 /\ Received = 0
  BY <1>1 DEF Told, Silent, Received
<1>4. Quiet
  BY <1>1 DEF Quiet
<1>5. OnItsWay
  BY <1>2, <1>3 DEF OnItsWay, Within
<1>6. Taken
  BY <1>1, <1>2 DEF Taken
<1> QED BY <1>4, <1>5, <1>6 DEF Back

LEMMA AnswerFollows == ASSUME ProcMacroAssumption, TypeOK, Back PROVE AnswerExact
<1>1. taken \in Seq(Tokens) /\ output \in Results \cup {Nothing}
  BY DEF TypeOK
<1>2. output.tokens \in Seq(Tokens) /\ Len(output.tokens) \in Nat
  <2>1. CASE output = Nothing
    <3>1. << >> \in Seq(Tokens) /\ output.tokens = << >>
      BY <2>1 DEF Nothing
    <3> QED BY <3>1
  <2> QED BY <1>1, <2>1, AnswerShape
<1>3. /\ Len(taken) <= Len(output.tokens)
      /\ \A i \in 1..Len(taken) : taken[i] = output.tokens[i]
  <2>1. CASE output = Nothing
    BY <2>1, <1>1, ReplyType DEF Back, Taken, Nothing
  <2>2. CASE output # Nothing
    <3>1. output \in Results /\ Reply = Answer(output)
      BY <2>2, <1>1 DEF Reply
    <3>2. /\ output.way = "whole" =>
               /\ Len(Reply) = Len(output.tokens) + 1
               /\ \A i \in 1..Len(output.tokens) : Reply[i] = output.tokens[i]
               /\ Reply[Len(output.tokens) + 1] = "EmptySymbol"
          /\ output.way = "torn" => Reply = output.tokens
          /\ output.way = "panic" => Reply = << >>
          /\ output.way = "prints" => Reply[1] = "Junk"
          /\ output.way \in Ways
      BY <3>1, AnswerShape
    <3>3. /\ Len(taken) \in Nat /\ Len(taken) <= Len(Reply)
          /\ \A i \in 1..Len(taken) : taken[i] = Reply[i] /\ Reply[i] \in Tokens
      BY <1>1 DEF Back, Taken
    <3>4. CASE output.way = "whole"
      <4>1. Len(taken) # Len(output.tokens) + 1
        BY <1>2, <3>2, <3>3, <3>4, MarksApart
      <4>2. Len(taken) <= Len(output.tokens)
        BY <1>2, <3>2, <3>3, <3>4, <4>1
      <4> QED BY <4>2, <1>2, <3>2, <3>3, <3>4
    <3>5. CASE output.way = "torn"
      BY <3>2, <3>3, <3>5
    <3>6. CASE output.way \in {"panic", "prints"}
      <4>1. Len(taken) = 0
        BY <3>2, <3>3, <3>6, MarksApart
      <4> QED BY <4>1, <1>2
    <3> QED BY <3>2, <3>4, <3>5, <3>6 DEF Ways
  <2> QED BY <2>1, <2>2
<1>4. taken = SubSeq(output.tokens, 1, Len(taken))
  BY <1>1, <1>2, <1>3
<1>5. IsPrefix(taken, output.tokens)
  BY <1>1, <1>2, <1>3, <1>4 DEF IsPrefix
<1>6. m_eof_hit => output.way = "whole" /\ taken = output.tokens
  <2> SUFFICES ASSUME m_eof_hit PROVE output.way = "whole" /\ taken = output.tokens
    OBVIOUS
  <2>1. output.way = "whole" /\ Len(taken) = Len(output.tokens)
    BY DEF Back, Taken
  <2> QED BY <2>1, <1>1, <1>2, <1>3
<1> QED BY <1>5, <1>6 DEF AnswerExact

(***************************************************************************)
(* What the child receives.                                                *)
(***************************************************************************)
\* All that the compiler says, and how much of it is on its way or read.
Said == [i \in Nat |-> IF i = 1 THEN "SpanDef" ELSE Sent(inputs)[i - 1]]
All == 1 + Len(Sent(inputs))
Begun == IF pc = "spawn" THEN 0
         ELSE IF pc \in {"announce", "check"} THEN 1 ELSE All

\* The streams read so far are those of the call, the last one in part.
InPart ==
    /\ Len(streams) \in 1..Len(inputs)
    /\ \A k \in 1..Len(streams) :
         /\ Len(streams[k]) <= Len(inputs[k])
         /\ \A i \in 1..Len(streams[k]) : streams[k][i] = inputs[k][i]
    /\ Len(streams) = 2 => Len(streams[1]) = Len(inputs[1])

Consumed == IF Len(streams) = 1 THEN Len(streams[1])
            ELSE Len(streams[1]) + 1 + Len(streams[2])

\* The child has read n messages.
Seen(n) ==
    /\ child \in {"none", "start"} => n = 0
    /\ child = "read" =>
         /\ InPart
         /\ \/ n = 1 + Consumed
            \/ n = 0 /\ Len(streams) = 1 /\ Len(streams[1]) = 0
    /\ child \in {"run", "write"} => n = All /\ streams = inputs
    /\ child = "exited" /\ ~Gone => n = All

\* The others, up to those the compiler has not come to, are on their way.
Under(n) ==
    /\ Within(child_stdin, Said, n)
    /\ ~Gone =>
         /\ Begun = n + Len(child_stdin) + Len(unsent)
         /\ Within(unsent, Said, n + Len(child_stdin))

Forth ==
    handler = Len(inputs) =>
      /\ \E n \in Nat : Seen(n) /\ Under(n)
      /\ pc \in {"announce", "send"} => unsent # << >>
      /\ pc \in {"spawn", "check"} => unsent = << >>

LEMMA ForthInit == ASSUME ProcMacroAssumption, Init PROVE Forth
<1>1. /\ pc = "spawn" /\ child = "none" /\ child_stdin = << >> /\ unsent = << >>
  BY DEF Init
<1>2. Len(child_stdin) = 0 /\ Len(unsent) = 0 /\ Begun = 0
  BY <1>1 DEF Begun
<1>3. Seen(0) /\ Under(0)
  BY <1>1, <1>2 DEF Seen, Under, Within
<1> QED BY <1>1, <1>3 DEF Forth

\* The steps that leave both what is read and what is on its way as it is.
LEMMA ForthQuiet ==
    ASSUME Forth, UNCHANGED <<call, unsent, child_stdin, child, streams>>,
           \/ Gone'
           \/ ~Gone /\ pc \notin {"spawn", "announce", "check"}
              /\ pc' \notin {"spawn", "announce", "check", "send"}
           \/ pc' = pc
    PROVE  Forth'
<1> SUFFICES ASSUME (handler = Len(inputs))' PROVE Forth'
  BY DEF Forth
<1>1. handler = Len(inputs) /\ inputs' = inputs
  BY DEF call
<1>2. PICK n \in Nat : Seen(n) /\ Under(n)
  BY <1>1 DEF Forth
<1>3. All' = All /\ Said' = Said /\ (~Gone' => ~Gone /\ Begun' = Begun)
  BY <1>1 DEF All, Said, Begun, Gone
<1>4. Seen(n)'
  BY <1>1, <1>2, <1>3 DEF Seen, InPart, Consumed
<1>5. Under(n)'
  BY <1>1, <1>2, <1>3 DEF Under, Within
<1> QED BY <1>1, <1>4, <1>5 DEF Forth, Gone

LEMMA SpawnForth ==
    ASSUME ProcMacroAssumption, TypeOK, Back, Forth, Spawn PROVE Forth'
<1> SUFFICES ASSUME handler = Len(inputs) PROVE Forth'
  BY DEF Forth, Spawn, call
<1>1. /\ pc = "spawn" /\ child = "none" /\ unsent = << >> /\ pc' = "announce"
      /\ unsent' = <<"SpanDef">> /\ child' = "start"
      /\ UNCHANGED <<handler, inputs, child_stdin, streams>>
  BY DEF Spawn, call, Back, Quiet, Forth
<1>2. PICK n \in Nat : Seen(n) /\ Under(n)
  BY DEF Forth
<1>3. n = 0 /\ Len(unsent) = 0 /\ Begun = 0 /\ ~Gone
  BY <1>1, <1>2 DEF Seen, Begun, Gone
<1>4. Len(child_stdin) \in Nat
  BY DEF TypeOK
<1>5. Len(child_stdin) = 0
  BY <1>2, <1>3, <1>4 DEF Under
<1>6. Len(unsent') = 1 /\ unsent'[1] = "SpanDef" /\ unsent' # << >>
  BY <1>1
<1>7. Begun' = 1 /\ Said'[1] = "SpanDef"
  BY <1>1 DEF Begun, Said
<1>8. Within(unsent', Said', 0)
  BY <1>6, <1>7 DEF Within
<1>9. Under(0)'
  BY <1>1, <1>5, <1>6, <1>7, <1>8 DEF Under, Within
<1>10. Seen(0)'
  BY <1>1 DEF Seen
<1> QED BY <1>1, <1>6, <1>9, <1>10 DEF Forth

LEMMA SendForth ==
    ASSUME ProcMacroAssumption, TypeOK, Back, Forth, Send PROVE Forth'
<1> SUFFICES ASSUME handler = Len(inputs) PROVE Forth'
  BY DEF Forth, Send, call
<1>1. /\ pc \in {"announce", "send"} /\ unsent # << >> /\ ~Gone
      /\ child_stdin' = Append(child_stdin, Head(unsent))
      /\ unsent' = Tail(unsent)
      /\ UNCHANGED <<handler, inputs, child, streams>>
  BY DEF Send, call, macro, Gone
<1>2. /\ unsent' # << >> => pc' = pc
      /\ unsent' = << >> => pc' = IF pc = "announce" THEN "check" ELSE "parse"
  BY <1>1 DEF Send, AfterSending
<1>3. PICK n \in Nat : Seen(n) /\ Under(n)
  BY DEF Forth
<1>4. child_stdin \in Seq(Messages) /\ unsent \in Seq(Messages)
  BY DEF TypeOK
<1>5. /\ Begun = n + Len(child_stdin) + Len(unsent)
      /\ Within(child_stdin, Said, n)
      /\ Within(unsent, Said, n + Len(child_stdin))
  BY <1>1, <1>3 DEF Under
<1>6. /\ Len(child_stdin') = Len(child_stdin) + 1
      /\ Len(child_stdin) \in Nat /\ Len(unsent) \in Nat
      /\ Len(unsent') = Len(unsent) - 1
      /\ Within(child_stdin', Said, n)
      /\ Within(unsent', Said, n + (Len(child_stdin) + 1))
  BY <1>1, <1>4, <1>5, WithinMove
<1>7. Begun' = Begun /\ Said' = Said /\ All' = All
  BY <1>1, <1>2 DEF Begun, Said, All
<1>8. Begun' = n + Len(child_stdin') + Len(unsent')
  BY <1>5, <1>6, <1>7
<1>9. Within(child_stdin, Said, n)' /\ Within(unsent, Said, n + Len(child_stdin))'
  BY <1>6, <1>7 DEF Within
<1>10. Under(n)'
  BY <1>8, <1>9 DEF Under
<1>11. ~Gone'
  BY <1>1, <1>2 DEF Gone
<1>12. Seen(n)'
  BY <1>1, <1>3, <1>7 DEF Seen, InPart, Consumed
<1> QED BY <1>1, <1>2, <1>10, <1>12 DEF Forth

LEMMA CheckGoodForth ==
    ASSUME ProcMacroAssumption, TypeOK, Back, Forth, CheckGood PROVE Forth'
<1> SUFFICES ASSUME handler = Len(inputs) PROVE Forth'
  BY DEF Forth, CheckGood, call
<1>1. /\ pc = "check" /\ unsent = << >> /\ ~Gone
      /\ UNCHANGED <<handler, inputs, child_stdin, child, streams>>
  BY DEF CheckGood, call, macro, Gone, Forth
<1>2. handler # 0
  <2>1. Len(inputs) \in {1, 2}
    BY SentShape
  <2> QED BY <2>1
<1>3. pc' = "send" /\ unsent' = Sent(inputs)
  <2>1. Back'
    BY CheckGoodBack
  <2>2. good'
    BY <1>1, <1>2, <2>1 DEF Back, Quiet
  <2> QED BY <2>2 DEF CheckGood
<1>4. PICK n \in Nat : Seen(n) /\ Under(n)
  BY DEF Forth
<1>5. Len(child_stdin) \in Nat /\ Len(unsent) = 0
  BY <1>1 DEF TypeOK
<1>6. n + Len(child_stdin) = 1
  BY <1>1, <1>4, <1>5 DEF Under, Begun
<1>7. Len(Sent(inputs)) \in Nat /\ Len(Sent(inputs)) >= 1
  <2>1. /\ Len(inputs) \in {1, 2} /\ Len(Sent(inputs)) \in Nat /\ Len(inputs[1]) \in Nat
        /\ Len(inputs) = 1 => Len(Sent(inputs)) = Len(inputs[1]) + 1
        /\ Len(inputs) = 2 => /\ Len(inputs[2]) \in Nat
                              /\ Len(Sent(inputs)) = Len(inputs[1]) + 1 + (Len(inputs[2]) + 1)
    BY SentShape
  <2>2. CASE Len(inputs) = 1
    BY <2>1, <2>2
  <2>3. CASE Len(inputs) = 2
    <3> DEFINE x == Len(inputs[1])
               y == Len(inputs[2])
    <3>1. x \in Nat /\ y \in Nat /\ Len(Sent(inputs)) = x + 1 + (y + 1)
      BY <2>1, <2>3
    <3> HIDE DEF x, y
    <3> QED BY <3>1
  <2> QED BY <2>1, <2>2, <2>3
<1>8. Said' = Said /\ All' = All /\ Begun' = 1 + Len(unsent')
  BY <1>1, <1>3 DEF Said, All, Begun
<1>9. Within(unsent', Said', 1)
  <2> SUFFICES ASSUME NEW i \in 1..Len(unsent') PROVE unsent'[i] = Said[1 + i]
    BY <1>8 DEF Within
  <2>1. 1 + i \in Nat /\ 1 + i # 1 /\ (1 + i) - 1 = i
    BY <1>3, <1>7
  <2>2. Said[1 + i] = Sent(inputs)[(1 + i) - 1]
    BY <2>1 DEF Said
  <2> QED BY <2>1, <2>2, <1>3
<1>10. Under(n)'
  BY <1>1, <1>4, <1>6, <1>8, <1>9 DEF Under, Within
<1>11. Seen(n)'
  BY <1>1, <1>4, <1>8 DEF Seen, InPart, Consumed
<1>12. unsent' # << >>
  BY <1>3, <1>7
<1> QED BY <1>1, <1>3, <1>10, <1>11, <1>12 DEF Forth

LEMMA StartForth ==
    ASSUME ProcMacroAssumption, TypeOK, Back, Forth, Start PROVE Forth'
<1> SUFFICES ASSUME handler = Len(inputs) PROVE Forth'
  BY DEF Forth, Start, call
<1>1. handler # 0 /\ Len(inputs) >= 1 /\ Len(inputs) \in Nat
  <2>1. Len(inputs) \in {1, 2}
    BY SentShape
  <2> QED BY <2>1
<1>2. /\ child = "start" /\ child' = "read" /\ streams' = << << >> >>
      /\ UNCHANGED <<handler, inputs, pc, unsent, child_stdin>>
  BY <1>1 DEF Start, call, compiler
<1>3. PICK n \in Nat : Seen(n) /\ Under(n)
  BY DEF Forth
<1>4. n = 0
  BY <1>2, <1>3 DEF Seen
<1>5. Said' = Said /\ All' = All /\ Begun' = Begun /\ Gone' = Gone
  BY <1>2 DEF Said, All, Begun, Gone
<1>6. Under(0)'
  BY <1>2, <1>3, <1>4, <1>5 DEF Under, Within
<1>7. Len(streams') = 1 /\ Len(streams'[1]) = 0
  BY <1>2
<1>8. Len(inputs[1]) \in Nat
  BY SentShape
<1>9. InPart'
  BY <1>1, <1>2, <1>7, <1>8 DEF InPart
<1>10. Seen(0)'
  BY <1>2, <1>7, <1>9 DEF Seen
<1> QED BY <1>2, <1>3, <1>6, <1>10 DEF Forth

LEMMA RunForth ==
    ASSUME ProcMacroAssumption, TypeOK, Back, Forth,
           \/ Run \/ Write \/ Exit \/ ReadBreaks
    PROVE  Forth'
<1>1. /\ \/ child \in {"run", "write"} /\ child' = "write"
         \/ child = "write" /\ child' = "exited"
         \/ Gone /\ child' = "exited"
      /\ UNCHANGED <<handler, inputs, pc, unsent, child_stdin, streams>>
  BY DEF Run, Write, Exit, ReadBreaks, call, compiler
<1> SUFFICES ASSUME handler = Len(inputs) PROVE Forth'
  BY <1>1 DEF Forth
<1>2. PICK n \in Nat : Seen(n) /\ Under(n)
  BY DEF Forth
<1>3. Said' = Said /\ All' = All /\ Begun' = Begun /\ Gone' = Gone
  BY <1>1 DEF Said, All, Begun, Gone
<1>4. Under(n)'
  BY <1>1, <1>2, <1>3 DEF Under, Within
<1>5. Seen(n)'
  BY <1>1, <1>2, <1>3 DEF Seen
<1> QED BY <1>1, <1>4, <1>5 DEF Forth

\* The child reads the definition of the span before any stream, and a stream
\* message by message: the m-th message of the script is what its place says.
LEMMA ReadForth ==
    ASSUME ProcMacroAssumption, TypeOK, Back, Forth, Read PROVE Forth'
<1> SUFFICES ASSUME handler = Len(inputs) PROVE Forth'
  BY DEF Forth, Read, call
<1>1. /\ child = "read" /\ child_stdin # << >> /\ child_stdin' = Tail(child_stdin)
      /\ UNCHANGED <<handler, inputs, pc, unsent>>
      /\ ReadMessage(Head(child_stdin))
  BY DEF Read, call, compiler
<1>2. PICK n \in Nat : Seen(n) /\ Under(n)
  BY DEF Forth
<1>3. Said' = Said /\ All' = All /\ Begun' = Begun /\ Gone' = Gone
  BY <1>1 DEF Said, All, Begun, Gone
<1>4. child_stdin \in Seq(Messages) /\ Len(unsent) \in Nat /\ streams \in Seq(Seq(Tokens))
  BY DEF TypeOK
<1>5. Within(child_stdin, Said, n)
  BY <1>2 DEF Under
<1>6. /\ Head(child_stdin) = Said[n + 1]
      /\ Len(child_stdin') = Len(child_stdin) - 1 /\ Len(child_stdin) \in Nat
      /\ Within(child_stdin', Said, n + 1)
  BY <1>1, <1>4, <1>5, WithinPop
<1>7. n + 1 + (Len(child_stdin) - 1) = n + Len(child_stdin)
  BY <1>6
<1>8. Under(n + 1)'
  BY <1>1, <1>2, <1>3, <1>6, <1>7 DEF Under, Within
<1> SUFFICES Seen(n + 1)'
  <2>1. n + 1 \in Nat
    OBVIOUS
  <2> QED BY <1>1, <1>8, <2>1 DEF Forth
<1>9. ReadMessage(Said[n + 1])
  BY <1>1, <1>6
<1>10. Len(inputs) \in {1, 2} /\ InPart /\ Len(streams) \in {1, 2}
  <2>1. Len(inputs) \in {1, 2} /\ InPart
    BY <1>1, <1>2, SentShape DEF Seen
  <2>2. Len(streams) \in 1..Len(inputs)
    BY <2>1 DEF InPart
  <2>3. Len(inputs) = 1 => Len(streams) = 1
    BY <2>2
  <2>4. Len(inputs) = 2 => Len(streams) \in {1, 2}
    BY <2>2
  <2> QED BY <2>1, <2>3, <2>4
<1>11. CASE n = 0 /\ Len(streams) = 1 /\ Len(streams[1]) = 0
  <2>1. Said[n + 1] = "SpanDef"
    BY <1>11 DEF Said
  <2>2. UNCHANGED <<child, streams>>
    BY <1>9, <2>1, MarksApart DEF ReadMessage
  <2>3. InPart' /\ Consumed' = 0
    BY <1>1, <1>10, <1>11, <2>2 DEF InPart, Consumed
  <2> QED BY <1>1, <1>11, <2>2, <2>3 DEF Seen
<1>12. CASE n = 1 + Consumed
  <2> DEFINE s1 == streams[1]
             s2 == streams[2]
             i1 == inputs[1]
             i2 == inputs[2]
  <2>1. /\ i1 \in Seq(Tokens) /\ Len(i1) \in Nat
        /\ \A i \in 1..Len(i1) : Sent(inputs)[i] = i1[i] /\ i1[i] \in Tokens
        /\ Sent(inputs)[Len(i1) + 1] = "EndOfStream"
        /\ Len(inputs) = 1 => Len(Sent(inputs)) = Len(i1) + 1
        /\ Len(inputs) = 2 =>
             /\ i2 \in Seq(Tokens) /\ Len(i2) \in Nat
             /\ \A i \in 1..Len(i2) :
                  Sent(inputs)[Len(i1) + 1 + i] = i2[i] /\ i2[i] \in Tokens
             /\ Sent(inputs)[Len(i1) + 1 + (Len(i2) + 1)] = "EndOfStream"
             /\ Len(Sent(inputs)) = Len(i1) + 1 + (Len(i2) + 1)
    BY SentShape
  <2>2. s1 \in Seq(Tokens) /\ Len(s1) \in Nat /\ (Len(streams) = 2 => s2 \in Seq(Tokens) /\ Len(s2) \in Nat)
    BY <1>4, <1>10
  <2>3. /\ Len(s1) <= Len(i1) /\ \A i \in 1..Len(s1) : s1[i] = i1[i]
        /\ Len(streams) = 2 =>
             /\ Len(inputs) = 2 /\ Len(s1) = Len(i1)
             /\ Len(s2) <= Len(i2) /\ \A i \in 1..Len(s2) : s2[i] = i2[i]
    BY <1>10 DEF InPart
  <2>4. /\ Len(streams) = 1 => n = 1 + Len(s1)
        /\ Len(streams) = 2 => n = 1 + (Len(s1) + 1 + Len(s2))
    <3>1. CASE Len(streams) = 1
      BY <3>1, <1>12 DEF Consumed
    <3>2. CASE Len(streams) = 2
      <4>1. Len(streams) # 1
        BY <3>2
      <4>2. Consumed = Len(s1) + 1 + Len(s2)
        BY <4>1 DEF Consumed
      <4> QED BY <3>2, <4>1, <4>2, <1>12
    <3> QED BY <1>10, <3>1, <3>2
  <2>5. Said[n + 1] = Sent(inputs)[n]
    <3> HIDE DEF s1, s2
    <3>3. ASSUME Len(streams) = 1 PROVE n # 0
      BY <3>3, <2>2, <2>4
    <3>4. ASSUME Len(streams) = 2 PROVE n # 0
      <4>1. Len(s1) \in Nat /\ Len(s2) \in Nat /\ n = 1 + (Len(s1) + 1 + Len(s2))
        BY <3>4, <2>2, <2>4
      <4> QED BY <4>1
    <3>1. n # 0
      BY <1>10, <3>3, <3>4
    <3>2. n + 1 \in Nat /\ n + 1 # 1 /\ (n + 1) - 1 = n
      BY <3>1
    <3> QED BY <3>2 DEF Said
  <2>6. inputs \in Seq(Inputs)
    BY DEF TypeOK
  <2> HIDE DEF s1, s2, i1, i2
  <2>7. CASE Len(streams) = 1 /\ Len(s1) < Len(i1)
    <3>1. Said[n + 1] = i1[Len(s1) + 1] /\ i1[Len(s1) + 1] \in Tokens
      <4>1. n \in 1..Len(i1) /\ n = Len(s1) + 1
        BY <2>1, <2>2, <2>4, <2>7
      <4> QED BY <4>1, <2>1, <2>5
    <3>2. Grow(Said[n + 1]) /\ child' = child
      BY <3>1, <1>9, MarksApart DEF ReadMessage
    <3> DEFINE t == Append(s1, i1[Len(s1) + 1])
    <3>3. /\ Len(t) = Len(s1) + 1 /\ t[Len(s1) + 1] = i1[Len(s1) + 1]
          /\ \A i \in 1..Len(s1) : t[i] = s1[i]
      BY <2>2, <3>1
    <3>4. Len(streams') = 1 /\ streams'[1] = t
      BY <1>4, <2>7, <3>1, <3>2 DEF Grow, s1
    <3> HIDE DEF t
    <3>5. Len(t) <= Len(i1) /\ \A i \in 1..Len(t) : t[i] = i1[i]
      <4>1. ASSUME NEW i \in 1..Len(t) PROVE t[i] = i1[i]
        <5>1. CASE i = Len(s1) + 1
          BY <5>1, <3>3
        <5>2. CASE i # Len(s1) + 1
          <6>1. i \in 1..Len(s1)
            BY <5>2, <2>2, <3>3
          <6> QED BY <6>1, <2>3, <3>3
        <5> QED BY <5>1, <5>2
      <4> QED BY <4>1, <2>1, <2>2, <2>7, <3>3
    <3>6. InPart'
      BY <1>1, <1>10, <3>4, <3>5 DEF InPart, i1
    <3>7. Consumed' = Len(s1) + 1
      BY <3>3, <3>4 DEF Consumed
    <3> QED BY <1>1, <2>2, <2>4, <2>7, <3>2, <3>6, <3>7 DEF Seen
  <2>8. CASE Len(streams) = 1 /\ Len(s1) = Len(i1)
    <3>1. Said[n + 1] = "EndOfStream"
      <4>1. n = Len(i1) + 1
        BY <2>1, <2>4, <2>8
      <4> QED BY <4>1, <2>1, <2>5
    <3>2. s1 = i1
      BY <2>1, <2>2, <2>3, <2>8
    <3>3. CASE Len(inputs) = 1
      <4>1. child' = "run" /\ streams' = streams
        BY <1>9, <2>8, <3>1, <3>3, MarksApart DEF ReadMessage
      <4>2. streams' = inputs
        BY <1>4, <2>6, <2>8, <3>2, <3>3, <4>1 DEF s1, i1
      <4>3. n + 1 = All'
        BY <1>3, <2>1, <2>2, <2>4, <2>8, <3>3 DEF All
      <4> QED BY <1>1, <4>1, <4>2, <4>3 DEF Seen
    <3>4. CASE Len(inputs) = 2
      <4>1. child' = "read" /\ streams' = Append(streams, << >>)
        BY <1>1, <1>9, <2>8, <3>1, <3>4, MarksApart DEF ReadMessage
      <4> DEFINE S == Seq(Tokens)
      <4>2. << >> \in S /\ Len(<< >>) = 0 /\ streams \in Seq(S)
        BY <1>4
      <4> HIDE DEF S
      <4>3. Len(streams') = 2 /\ streams'[1] = s1 /\ streams'[2] = << >>
        <5> DEFINE e == << >>
        <5>1. e \in S /\ streams \in Seq(S) /\ streams' = Append(streams, e) /\ Len(streams) = 1
          BY <2>8, <4>1, <4>2
        <5> HIDE DEF e
        <5> DEFINE w == Append(streams, e)
        <5>2. /\ Len(w) = Len(streams) + 1
              /\ \A i \in 1..Len(streams) : w[i] = streams[i]
              /\ w[Len(streams) + 1] = e
          <6>1. e \in S /\ streams \in Seq(S)
            BY <5>1
          <6> QED BY <6>1, Push
        <5> HIDE DEF w
        <5>3. Len(w) = 2 /\ w[1] = streams[1] /\ w[2] = e
          BY <5>1, <5>2
        <5> QED BY <5>1, <5>3 DEF e, s1, w
      <4>4. InPart'
        BY <1>1, <2>1, <2>3, <2>8, <3>4, <4>2, <4>3 DEF InPart, i1, i2
      <4>5. Consumed' = Len(s1) + 1
        BY <2>2, <4>2, <4>3 DEF Consumed
      <4> QED BY <2>2, <2>4, <2>8, <4>1, <4>4, <4>5 DEF Seen
    <3> QED BY <1>10, <3>3, <3>4
  <2>9. CASE Len(streams) = 2 /\ Len(s2) < Len(i2)
    <3>1. Said[n + 1] = i2[Len(s2) + 1] /\ i2[Len(s2) + 1] \in Tokens
      <4>1. Len(s2) + 1 \in 1..Len(i2) /\ n = Len(i1) + 1 + (Len(s2) + 1)
        <5>1. /\ Len(s1) \in Nat /\ Len(s2) \in Nat /\ Len(i2) \in Nat
              /\ Len(s1) = Len(i1) /\ Len(s2) < Len(i2)
              /\ n = 1 + (Len(s1) + 1 + Len(s2))
          BY <2>1, <2>2, <2>3, <2>4, <2>9
        <5> QED BY <5>1
      <4> QED BY <4>1, <2>1, <2>3, <2>5, <2>9
    <3>2. Grow(Said[n + 1]) /\ child' = child
      BY <3>1, <1>9, MarksApart DEF ReadMessage
    <3> DEFINE t == Append(s2, i2[Len(s2) + 1])
    <3>3. /\ Len(t) = Len(s2) + 1 /\ t[Len(s2) + 1] = i2[Len(s2) + 1]
          /\ \A i \in 1..Len(s2) : t[i] = s2[i]
      BY <2>2, <2>9, <3>1
    <3>4. Len(streams') = 2 /\ streams'[2] = t /\ streams'[1] = s1
      BY <1>4, <2>9, <3>1, <3>2 DEF Grow, s1, s2
    <3> HIDE DEF t
    <3>5. Len(t) <= Len(i2) /\ \A i \in 1..Len(t) : t[i] = i2[i]
      <4>1. ASSUME NEW i \in 1..Len(t) PROVE t[i] = i2[i]
        <5>1. CASE i = Len(s2) + 1
          BY <5>1, <3>3
        <5>2. CASE i # Len(s2) + 1
          <6>1. i \in 1..Len(s2)
            BY <5>2, <2>2, <2>9, <3>3
          <6> QED BY <6>1, <2>3, <2>9, <3>3
        <5> QED BY <5>1, <5>2
      <4> QED BY <4>1, <2>1, <2>2, <2>3, <2>9, <3>3
    <3>6. InPart'
      BY <1>1, <2>3, <2>9, <3>4, <3>5 DEF InPart, i1, i2
    <3>7. Consumed' = Len(s1) + 1 + (Len(s2) + 1)
      BY <3>3, <3>4 DEF Consumed
    <3> QED BY <1>1, <2>2, <2>4, <2>9, <3>2, <3>6, <3>7 DEF Seen
  <2>10. CASE Len(streams) = 2 /\ Len(s2) = Len(i2)
    <3>1. Said[n + 1] = "EndOfStream"
      <4>1. n = Len(i1) + 1 + (Len(i2) + 1)
        <5>1. /\ Len(i1) \in Nat /\ Len(i2) \in Nat
              /\ Len(s1) = Len(i1) /\ Len(s2) = Len(i2)
              /\ n = 1 + (Len(s1) + 1 + Len(s2))
          BY <2>1, <2>3, <2>4, <2>10
        <5> QED BY <5>1
      <4> QED BY <4>1, <2>1, <2>3, <2>5, <2>10
    <3>2. child' = "run" /\ streams' = streams
      BY <1>9, <2>3, <2>10, <3>1, MarksApart DEF ReadMessage
    <3>3. s1 = i1 /\ s2 = i2
      BY <2>1, <2>2, <2>3, <2>10
    <3>4. streams' = inputs
      <4>1. inputs \in Seq(Seq(Tokens))
        BY <2>6 DEF ProcMacroAssumption
      <4> DEFINE S == Seq(Tokens)
      <4>2. inputs \in Seq(S) /\ streams \in Seq(S)
        BY <1>4, <4>1
      <4> HIDE DEF S
      <4>3. Len(streams) = Len(inputs) /\ Len(inputs) = 2
        BY <2>3, <2>10
      <4>4. \A k \in 1..2 : streams[k] = inputs[k]
        BY <3>3 DEF s1, s2, i1, i2
      <4> QED BY <3>2, <4>2, <4>3, <4>4
    <3>5. n + 1 = All'
      <4>1. /\ Len(i1) \in Nat /\ Len(i2) \in Nat
            /\ Len(s1) = Len(i1) /\ Len(s2) = Len(i2)
            /\ n = 1 + (Len(s1) + 1 + Len(s2))
            /\ Len(Sent(inputs)) = Len(i1) + 1 + (Len(i2) + 1)
        BY <2>1, <2>3, <2>4, <2>10
      <4>2. n + 1 = All
        BY <4>1 DEF All
      <4> QED BY <4>2, <1>3
    <3> QED BY <1>1, <3>2, <3>4, <3>5 DEF Seen
  <2>11. Len(streams) = 1 => Len(s1) < Len(i1) \/ Len(s1) = Len(i1)
    BY <2>1, <2>2, <2>3
  <2>12. Len(streams) = 2 => Len(s2) < Len(i2) \/ Len(s2) = Len(i2)
    BY <2>1, <2>2, <2>3
  <2> QED BY <1>10, <2>7, <2>8, <2>9, <2>10, <2>11, <2>12
<1> QED BY <1>1, <1>2, <1>11, <1>12 DEF Seen

LEMMA ForthStep ==
    ASSUME ProcMacroAssumption, TypeOK, Back, Forth, [Next]_vars PROVE Forth'
<1> USE DEF Gone, call, compiler, macro
<1>1. CASE SpawnFails
  BY <1>1, ForthQuiet DEF SpawnFails
<1>2. CASE SendBreaks
  BY <1>2, ForthQuiet DEF SendBreaks
<1>3. CASE CannotSend
  BY <1>3, ForthQuiet DEF CannotSend
<1>4. CASE Receive
  BY <1>4, ForthQuiet DEF Receive
<1>5. CASE ReceiveBreaks
  BY <1>5, ForthQuiet DEF ReceiveBreaks
<1>6. CASE ParseDone
  BY <1>6, ForthQuiet DEF ParseDone
<1>7. CASE ParseFails
  BY <1>7, ForthQuiet DEF ParseFails
<1>8. CASE WaitChild
  BY <1>8, ForthQuiet DEF WaitChild
<1>9. CASE UNCHANGED vars
  BY <1>9, ForthQuiet DEF vars
<1> QED
  BY <1>1, <1>2, <1>3, <1>4, <1>5, <1>6, <1>7, <1>8, <1>9,
     SpawnForth, SendForth, CheckGoodForth, StartForth, RunForth, ReadForth
  DEF Next, Compiler, Proceeds, GivesUp, Macro

(***************************************************************************)
(* The call.                                                               *)
(***************************************************************************)
\* The compiler leaves the parser for a reason.
Stopped ==
    /\ pc \in {"wait", "returned"} =>
         ~good \/ m_eof_hit \/ \E i \in DOMAIN taken : taken[i] = Close
    /\ pc = "returned" => good

IInv == TypeOK /\ Back /\ Forth /\ Stopped /\ FailsForCause

LEMMA StoppedStep == ASSUME Stopped, [Next]_vars PROVE Stopped'
<1> USE DEF Stopped, call, compiler, macro
<1>1. CASE Send
  <2>1. pc' \in {"announce", "send", "check", "parse"}
    BY <1>1 DEF Send, AfterSending
  <2> QED BY <2>1
<1>2. CASE CheckGood
  BY <1>2 DEF CheckGood
<1>3. CASE Receive
  BY <1>3 DEF Receive
<1>4. CASE Spawn \/ SendBreaks \/ ReceiveBreaks \/ GivesUp
  BY <1>4 DEF Spawn, SendBreaks, ReceiveBreaks, GivesUp, SpawnFails, CannotSend, ParseFails
<1>5. CASE ParseDone
  BY <1>5 DEF ParseDone
<1>6. CASE WaitChild
  BY <1>6 DEF WaitChild
<1>7. CASE Macro \/ UNCHANGED vars
  <2>1. UNCHANGED <<pc, good, m_eof_hit, taken>>
    BY <1>7 DEF vars, Macro, Start, Read, ReadBreaks, Run, Write, Exit
  <2> QED BY <2>1
<1> QED
  BY <1>1, <1>2, <1>3, <1>4, <1>5, <1>6, <1>7 DEF Next, Compiler, Proceeds

\* If the compiler breaks off although the macro is there, then the macro had
\* been run and its answer was not whole.
LEMMA CauseStep ==
    ASSUME ProcMacroAssumption, IInv, [Next]_vars PROVE FailsForCause'
<1> SUFFICES ASSUME KindsAgree', (pc = "broken")', (handler # 0)'
             PROVE  (output.way \in Ways \ {"whole"})'
  BY DEF FailsForCause
<1> USE DEF IInv
<1>1. UNCHANGED call
  BY DEF Next, Compiler, Proceeds, GivesUp, Macro, vars, Spawn, SpawnFails, Send,
         SendBreaks, CannotSend, CheckGood, Receive, ReceiveBreaks, ParseDone,
         ParseFails, WaitChild, Start, Read, ReadBreaks, Run, Write, Exit
<1>2. handler = Len(inputs) /\ handler # 0
  BY <1>1 DEF call, KindsAgree
<1>3. CASE pc = "broken"
  <2>1. output.way \in Ways \ {"whole"}
    BY <1>2, <1>3 DEF FailsForCause, KindsAgree
  <2>2. output # Nothing
    BY <2>1 DEF Nothing, Ways
  <2>3. ~Run
    BY <2>2 DEF Run, Back, Quiet
  <2>4. output' = output
    BY <1>3, <2>3 DEF Next, Compiler, Proceeds, GivesUp, Macro, vars, macro, Spawn,
         SpawnFails, Send, SendBreaks, CannotSend, CheckGood, Receive, ReceiveBreaks,
         ParseDone, ParseFails, WaitChild, Start, Read, ReadBreaks, Write, Exit
  <2> QED BY <2>1, <2>4
<1>4. CASE SendBreaks
  <2>1. pc \in {"announce", "send"} /\ child = "exited" /\ ~Gone
    BY <1>4 DEF SendBreaks, Gone
  <2>2. PICK n \in Nat : Seen(n) /\ Under(n)
    BY <1>2 DEF Forth
  <2>3. n = All /\ Begun = n + Len(child_stdin) + Len(unsent)
    BY <2>1, <2>2 DEF Seen, Under
  <2>4. unsent # << >> /\ unsent \in Seq(Messages) /\ child_stdin \in Seq(Messages)
    BY <1>2, <2>1 DEF Forth, TypeOK
  <2>5. Len(unsent) \in Nat \ {0} /\ Len(child_stdin) \in Nat
    BY <2>4
  <2>6. Begun = 1 \/ Begun = All
    BY <2>1 DEF Begun
  <2>7. Len(Sent(inputs)) \in Nat
    BY SentShape
  <2> QED BY <2>3, <2>5, <2>6, <2>7 DEF All
<1>5. CASE Receive /\ pc = "parse"
  <2>1. ~m_eof_hit /\ child_stdout # << >> /\ Head(child_stdout) = "Junk" /\ output' = output
    BY <1>5, MarksApart DEF Receive, macro
  <2>2. /\ output \in Results /\ Len(taken) \in Nat /\ Len(taken) + 1 <= Len(Reply)
        /\ Reply = Answer(output) /\ Reply[Len(taken) + 1] = "Junk"
    BY <1>5, <2>1, NextMessage
  <2>3. output.way # "whole"
    <3>1. /\ output.way = "whole" =>
               /\ Len(Reply) = Len(output.tokens) + 1
               /\ \A i \in 1..Len(output.tokens) : Reply[i] = output.tokens[i]
               /\ Reply[Len(output.tokens) + 1] = "EmptySymbol"
          /\ Len(output.tokens) \in Nat
          /\ \A i \in 1..Len(output.tokens) : output.tokens[i] \in Tokens
      BY <2>2, AnswerShape
    <3>2. "Junk" \notin Tokens
      BY MarksApart
    <3> QED BY <2>2, <3>1, <3>2
  <2> QED BY <2>1, <2>2, <2>3, AnswerShape
<1>6. CASE ReceiveBreaks
  <2>1. /\ pc = "parse" /\ ~m_eof_hit /\ child_stdout = << >> /\ child = "exited"
        /\ ~Gone /\ output' = output
    BY <1>6 DEF ReceiveBreaks, macro, Gone
  <2>2. good /\ unwritten = << >> /\ output # Nothing
    BY <1>2, <2>1 DEF Back, Quiet
  <2>3. output \in Results /\ Reply = Answer(output) /\ taken \in Seq(Tokens)
    BY <2>2 DEF TypeOK, Reply
  <2>4. Told = 1 + Len(Reply) /\ Received = 1 + Len(taken)
    BY <1>2, <2>1, <2>2 DEF Told, Silent, Received
  <2>5. Told = Received + Len(child_stdout) + Len(unwritten)
    BY <2>1 DEF Back, OnItsWay
  <2>6. Len(child_stdout) = 0 /\ Len(unwritten) = 0 /\ Len(taken) \in Nat /\ Len(Reply) \in Nat
    BY <2>1, <2>2, <2>3, ReplyType
  <2>7. Len(taken) = Len(Reply)
    BY <2>4, <2>5, <2>6
  <2>8. output.way # "whole"
    <3> SUFFICES ASSUME output.way = "whole" PROVE FALSE
      OBVIOUS
    <3>1. /\ Len(Reply) = Len(output.tokens) + 1 /\ Len(output.tokens) \in Nat
          /\ Reply[Len(output.tokens) + 1] = "EmptySymbol"
      BY <2>3, AnswerShape
    <3>2. taken[Len(taken)] = "EmptySymbol"
      BY <2>6, <2>7, <3>1 DEF Back, Taken
    <3>3. taken[Len(taken)] \in Tokens
      BY <2>3, <2>7, <3>1
    <3> QED BY <3>2, <3>3, MarksApart
  <2> QED BY <2>1, <2>3, <2>8, AnswerShape
<1>7. CASE WaitChild
  BY <1>2, <1>7 DEF WaitChild, Back, Quiet
<1>8. pc # "broken" => SendBreaks \/ (Receive /\ pc = "parse") \/ ReceiveBreaks \/ WaitChild
  <2> SUFFICES ASSUME pc # "broken" PROVE SendBreaks \/ (Receive /\ pc = "parse") \/ ReceiveBreaks \/ WaitChild
    OBVIOUS
  <2>1. ~Send
    BY DEF Send, AfterSending
  <2>2. ~Macro /\ ~UNCHANGED vars
    BY DEF Macro, Start, Read, ReadBreaks, Run, Write, Exit, vars, compiler
  <2>3. ~Spawn /\ ~CheckGood /\ ~ParseDone /\ ~GivesUp
    BY DEF Spawn, CheckGood, ParseDone, GivesUp, SpawnFails, CannotSend, ParseFails
  <2>4. Receive => pc = "parse"
    BY DEF Receive
  <2> QED BY <2>1, <2>2, <2>3, <2>4 DEF Next, Compiler, Proceeds
<1> QED BY <1>3, <1>4, <1>5, <1>6, <1>7, <1>8

LEMMA Inductive == ASSUME ProcMacroAssumption PROVE Spec => []IInv
<1>1. Init => IInv
  <2> SUFFICES ASSUME Init PROVE IInv
    OBVIOUS
  <2>1. Stopped /\ FailsForCause
    BY DEF Init, Stopped, FailsForCause
  <2> QED BY <2>1, TypeInit, BackInit, ForthInit DEF IInv
<1>2. IInv /\ [Next]_vars => IInv'
  BY TypeStep, BackStep, ForthStep, StoppedStep, CauseStep DEF IInv
<1> QED BY <1>1, <1>2, PTL DEF Spec

\* Every variable keeps its type; in particular neither process writes to a
\* full pipe.
THEOREM TypeCorrect == ASSUME ProcMacroAssumption PROVE Spec => []TypeOK
<1>1. IInv => TypeOK
  BY DEF IInv
<1> QED BY <1>1, Inductive, PTL

\* A procedural macro of the right kind is run on exactly the streams of the
\* call, and the parser goes on with exactly what it made of them, or with a
\* beginning of it that ends a list of items: whatever the streams, the pipes'
\* size and the order in which the two processes run, and when either dies.
THEOREM ExpansionCorrect == ASSUME ProcMacroAssumption PROVE Spec => []ExpansionExact
<1>1. IInv => ExpansionExact
  <2> SUFFICES ASSUME IInv PROVE ExpansionExact
    OBVIOUS
  <2>1. AnswerExact
    BY AnswerFollows DEF IInv
  <2>2. ASSUME KindsAgree, child \in {"run", "write"} PROVE streams = inputs
    <3>1. handler = Len(inputs)
      BY <2>2 DEF KindsAgree, IInv, Back, Quiet
    <3> QED BY <2>2, <3>1 DEF IInv, Forth, Seen
  <2>3. pc = "returned" => m_eof_hit \/ \E i \in DOMAIN taken : taken[i] = Close
    BY DEF IInv, Stopped
  <2> QED BY <2>1, <2>2, <2>3 DEF ExpansionExact
<1> QED BY <1>1, Inductive, PTL

\* The compiler dies in a call, or reports that the macro failed, only if no
\* such macro is in the crate, or the macro panicked, returned a stream that
\* cannot be sent, or printed: the two sides never misunderstand each other.
THEOREM FailureCorrect == ASSUME ProcMacroAssumption PROVE Spec => []FailsForCause
<1>1. IInv => FailsForCause
  BY DEF IInv
<1> QED BY <1>1, Inductive, PTL
=============================================================================
