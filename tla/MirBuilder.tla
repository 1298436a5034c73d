----------------------------- MODULE MirBuilder -----------------------------
(***************************************************************************)
(* MirBuilder (mir/mir_builder.cpp): the scope stack, the states of the    *)
(* variables and the drop flags with which the compiler decides, while it  *)
(* emits MIR, what has to be dropped where.  The operators map a builder   *)
(* to the builder after the call; MirLowering calls them.                  *)
(*                                                                         *)
(* Values are whole (no Partial or MovedOut state) and never Copy, and     *)
(* live in named variables or arguments: temporaries are left out.         *)
(***************************************************************************)
EXTENDS Naturals, Sequences, SequencesExt, TLC

CONSTANTS
    NArgs,      \* arguments of the function: slots 1..NArgs
    NLocals     \* variables the function may declare: the slots after them

ASSUME SlotsAssumption == NArgs \in Nat /\ NLocals \in Nat

Slots == 1..(NArgs + NLocals)
Args == 1..NArgs
NoSlots == << >>                    \* the empty map of slot states

(***************************************************************************)
(* VarState (from_hir.hpp:45).                                             *)
(***************************************************************************)
Invalid == [is |-> "Invalid", flag |-> 0]
Valid == [is |-> "Valid", flag |-> 0]
Optional(f) == [is |-> "Optional", flag |-> f]

(***************************************************************************)
(* Statements and terminators.  Drop's flag 0 is an unconditional drop.    *)
(***************************************************************************)
Stmt(op, slot, flag) ==
    [op |-> op, slot |-> slot, flag |-> flag, val |-> FALSE, other |-> 0]
SetFlag(f, v) == [Stmt("SetDropFlag", 0, f) EXCEPT !.val = v]
CopyFlag(f, from) == [Stmt("SetDropFlag", 0, f) EXCEPT !.other = from]
Term(kind, targets) == [kind |-> kind, to |-> targets]
Goto(bb) == Term("Goto", {bb})
NewBlock == [stmts |-> << >>, term |-> Term("Incomplete", {})]

Push(b, s) == [b EXCEPT !.blocks[b.cur].stmts = Append(@, s)]
EndBlock(b, t) == [b EXCEPT !.blocks[b.cur].term = t, !.cur = 0]
SetCurBlock(b, bb) == [b EXCEPT !.cur = bb]
NewBbs(b, n) == [b EXCEPT !.blocks = @ \o [i \in 1..n |-> NewBlock]]

(***************************************************************************)
(* Scopes.  "end" is a Split's end_state or a Loop's exit_state.           *)
(***************************************************************************)
Scope(kind) ==
    [kind |-> kind, slots |-> << >>, complete |-> FALSE, arm |-> NoSlots,
     end_valid |-> FALSE, end |-> NoSlots, changed |-> NoSlots,
     entry_bb |-> 0, flags |-> << >>]

Top(b) == Len(b.scopes)
PushScope(b, s) == [b EXCEPT !.scopes = Append(@, s)]
OfKind(b, kind) == {i \in DOMAIN b.scopes : b.scopes[i].kind = kind}
Innermost(S) == IF S = {} THEN 0 ELSE Max(S)

\* get_slot_state: the innermost split arm that has the slot, skipping the
\* first one found when asked to, else the function's own table.
GetSlotState(b, v, skip) ==
    LET found == {i \in OfKind(b, "Split") : v \in DOMAIN b.scopes[i].arm}
        rest == IF skip THEN found \ {Innermost(found)} ELSE found
    IN  IF rest = {} THEN b.slot_states[v]
        ELSE b.scopes[Innermost(rest)].arm[v]

\* get_slot_state_mut: walks out to the scope that owns the slot; the
\* innermost split gets a copy to change, loops note that it changes.
SetSlotState(b, v, state) ==
    LET owner == Innermost({i \in OfKind(b, "Owning") :
                                v \in ToSet(b.scopes[i].slots)})
        crossed == (owner + 1)..Top(b)
        split == Innermost(OfKind(b, "Split") \cap crossed)
        current == GetSlotState(b, v, FALSE)
        Walk(i) ==
            LET s == b.scopes[i] IN
            CASE i = split -> [s EXCEPT !.arm = (v :> state) @@ @]
              [] /\ i \in OfKind(b, "Loop") \cap crossed
                 /\ v \notin DOMAIN s.changed ->
                    [s EXCEPT !.changed =
                        (v :> IF s.end_valid THEN current ELSE Valid) @@ @]
              [] OTHER -> s
        walked == [b EXCEPT !.scopes = [i \in DOMAIN @ |-> Walk(i)]]
    IN  IF split = 0 THEN [walked EXCEPT !.slot_states[v] = state] ELSE walked

(***************************************************************************)
(* Drop flags.                                                             *)
(***************************************************************************)
NextFlag(b) == Len(b.drop_flags) + 1

\* Mutant: loops do not reset the flag.
NewDropFlag_NoReset(b, default) ==
    [b EXCEPT !.drop_flags = Append(@, default)]

\* new_drop_flag: the innermost loop resets the flag on every iteration.
NewDropFlag(b, default) ==
    LET loop == Innermost(OfKind(b, "Loop"))
        made == [b EXCEPT !.drop_flags = Append(@, default)]
    IN  IF loop = 0 THEN made
        ELSE [made EXCEPT !.scopes[loop].flags = Append(@, NextFlag(b))]

\* Makes flag f say whether a slot in this state is valid.
Setting(f, state) ==
    IF state.is = "Optional" THEN CopyFlag(f, state.flag)
    ELSE SetFlag(f, state.is = "Valid")

\* The flags after SetDropFlag statement s.
FlagsAfter(flags, s) ==
    [flags EXCEPT ![s.flag] = IF s.other = 0 THEN s.val ELSE flags[s.other]]

\* Valid <= Optional: a flag whose default is `true` is taken over as it is.
Reuses(b, old, new) ==
    old = Valid /\ new.is = "Optional" /\ b.drop_flags[new.flag]

Merged(b, old, new) ==
    IF old = new \/ old.is = "Optional" THEN old
    ELSE IF Reuses(b, old, new) THEN new
    ELSE Optional(NextFlag(b))

\* Mutant: an existing flag is not updated on this path.
Merge_FlagForgotten(b, old, new) ==
    LET state == Merged(b, old, new)
    IN  IF state \in {old, new} THEN [mb |-> b, state |-> state]
        ELSE [mb |-> Push(NewDropFlag(b, old = Valid),
                          Setting(state.flag, new)), state |-> state]

\* merge_state: "old" is the state on the paths merged so far, "new" the one
\* on the path that ends in the current block.  A new flag has the default
\* that fits the old paths; on this path a statement sets it.
Merge(b, old, new) ==
    LET state == Merged(b, old, new)
        made == IF state = old THEN b ELSE NewDropFlag(b, old = Valid)
    IN  [state |-> state,
         mb |-> IF old = new \/ Reuses(b, old, new) THEN b
                ELSE Push(made, Setting(state.flag, new))]

\* Merges the states of "new", slot by slot, into the end state of scope i,
\* which starts from "old" for a slot it does not have yet.
MergeInto(b, i, old, new) ==
    LET step(acc, v) ==
          IF v \notin DOMAIN new THEN acc
          ELSE LET end == acc.scopes[i].end
                   m == Merge(acc, IF v \in DOMAIN end THEN end[v] ELSE old[v],
                              new[v])
               IN [m.mb EXCEPT !.scopes[i].end = (v :> m.state) @@ @]
    IN FoldLeft(step, b, [v \in Slots |-> v])

(***************************************************************************)
(* Drops.                                                                  *)
(***************************************************************************)
\* Mutant: a flagged value is dropped whatever its flag.
DropValue_NoFlag(b, v, state, why) ==
    IF state = Invalid THEN b ELSE Push(b, Stmt(why, v, 0))

\* drop_value_from_state; "why" tells the kinds of Drop apart.
DropValue(b, v, state, why) ==
    IF state = Invalid THEN b ELSE Push(b, Stmt(why, v, state.flag))

\* Mutant: in the order of declaration.
DropScopeValues_Forward(b, i) ==
    FoldLeft(LAMBDA acc, v :
                DropValue(acc, v, GetSlotState(acc, v, FALSE), "Drop"),
             b, b.scopes[i].slots)

\* drop_scope_values: the last declared is dropped first.
DropScopeValues(b, i) ==
    FoldLeft(LAMBDA acc, v :
                DropValue(acc, v, GetSlotState(acc, v, FALSE), "Drop"),
             b, Reverse(b.scopes[i].slots))

(***************************************************************************)
(* Ending scopes.                                                          *)
(***************************************************************************)
ApplyEndState(b, end) ==
    FoldLeft(LAMBDA acc, v : IF v \in DOMAIN end
                             THEN SetSlotState(acc, v, end[v]) ELSE acc,
             b, [v \in Slots |-> v])

\* complete_scope, for a scope already taken off the stack.
CompleteScope(b, s) ==
    LET applied == IF s.end_valid THEN ApplyEndState(b, s.end) ELSE b
        resets == [k \in DOMAIN s.flags |->
                     SetFlag(s.flags[k], b.drop_flags[s.flags[k]])]
    IN  IF s.kind = "Loop"
        THEN [applied EXCEPT !.blocks[s.entry_bb].stmts = resets \o @]
        ELSE applied

\* terminate_scope on the top of the stack.
TerminateScope(b, emit_cleanup) ==
    LET s == b.scopes[Top(b)]
        cleaned == IF emit_cleanup /\ ~s.complete
                   THEN DropScopeValues(b, Top(b)) ELSE b
    IN  CompleteScope([cleaned EXCEPT !.scopes = Front(@)], s)

\* terminate_loop_early: a break merges the states at it into the loop's exit.
TerminateLoopEarly(b, i) ==
    LET loop == b.scopes[i]
        now == [v \in DOMAIN loop.changed |-> GetSlotState(b, v, FALSE)]
    IN  IF loop.end_valid THEN MergeInto(b, i, loop.changed, now)
        ELSE [b EXCEPT !.scopes[i].end = now, !.scopes[i].end_valid = TRUE]

\* terminate_scope_early: drops what the scopes from the top down to "target"
\* own; a scope outside every split and loop on the way is complete by it.
TerminateScopeEarly(b, target, loop_exit) ==
    LET conditional(i) == \E j \in i..Top(b) : b.scopes[j].kind # "Owning"
        step(acc, i) ==
            LET exited == IF i = target /\ loop_exit
                          THEN TerminateLoopEarly(acc, i) ELSE acc
                dropped == DropScopeValues(exited, i)
            IN  IF conditional(i) THEN dropped
                ELSE [dropped EXCEPT !.scopes[i].complete = TRUE]
        walked == FoldLeft(step, b, Reverse([k \in 1..(Top(b) - target + 1) |->
                                                target + k - 1]))
    IN  IF target # 1 THEN walked
        ELSE FoldLeft(LAMBDA acc, a :
                DropValue(acc, a, GetSlotState(acc, a, FALSE), "DropArg"),
                walked, [a \in Args |-> a])

\* end_split_arm on the top scope; the next arm starts with no changes.
EndSplitArm(b, reachable) ==
    LET i == Top(b)
        s == b.scopes[i]
        parent == [v \in DOMAIN s.arm \cup DOMAIN s.end |->
                     GetSlotState(b, v, TRUE)]
        ended ==
          CASE reachable /\ s.end_valid ->
                 MergeInto(b, i, parent, s.arm @@ parent)
            [] reachable /\ ~s.end_valid ->
                 [b EXCEPT !.scopes[i].end = s.arm,
                           !.scopes[i].end_valid = TRUE]
            [] OTHER -> b
    IN  [ended EXCEPT !.scopes[i].arm = NoSlots]

\* end_split_arm_early: the scopes up to the innermost split or loop are done.
EndSplitArmEarly(b) ==
    LET first == Innermost(OfKind(b, "Split") \cup OfKind(b, "Loop")) + 1
    IN  FoldLeft(LAMBDA acc, i : [DropScopeValues(acc, i)
                                    EXCEPT !.scopes[i].complete = TRUE],
                 b, Reverse([k \in 1..(Top(b) - first + 1) |-> first + k - 1]))
=============================================================================
