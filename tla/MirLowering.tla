---------------------------- MODULE MirLowering ----------------------------
(***************************************************************************)
(* How the compiler lowers a function body to MIR (mir/from_hir.cpp), as   *)
(* far as the ownership of variables goes, and the execution of the        *)
(* emitted blocks along every path, as mir/check_full.cpp executes them.   *)
(*                                                                         *)
(* A body is visited one operation at a time: let, assignment, move, if,   *)
(* loop, break, continue, return, nested as Rust nests them, and only if   *)
(* Rust's rules allow it.  Then the function that came out of it runs.     *)
(***************************************************************************)
EXTENDS MirBuilder, FiniteSets

CONSTANT Bodies  \* kinds of bodies; a behaviour lowers a body of one kind

\* A kind says how large a body may get and what it may do: the arguments and
\* variables it has, its operations (closing ones not counted), the nesting
\* of if/else and of loops; whether `let` may leave the variable
\* uninitialised, a variable may be assigned again after it was moved out,
\* and a loop may start again with other slot states than it had.
Kind == [args : SUBSET Args, locals : SUBSET Slots, ops : Nat, splits : Nat,
         loops : Nat, late : BOOLEAN, again : BOOLEAN, anyloop : BOOLEAN]

ASSUME ProgramAssumption == Bodies \subseteq Kind

VARIABLES
    shape,  \* the kind of body, chosen at the start
    mb,     \* the MirBuilder
    visit,  \* the visitor's frames, and what Rust knows to be initialised
    vm      \* the execution of the emitted function

vars == <<shape, mb, visit, vm>>

(***************************************************************************)
(* The visitor.  A frame is an expression being visited:                   *)
(* the function's block, an If or a Loop.  Its "in" and "out" are Rust's:  *)
(* the slots surely initialised where it is entered and, over the ways out *)
(* met so far, where it is left.  They decide which programs are legal.    *)
(***************************************************************************)
Frame(kind, entry, next, in) ==
    [kind |-> kind, entry |-> entry, next |-> next, second |-> FALSE,
     scope |-> 0, states |-> NoSlots, in |-> in, out |-> Slots,
     left |-> FALSE, dead |-> FALSE]

Depth == Len(visit.frames)
Here == visit.frames[Depth]
Nesting(kind) == Cardinality({k \in 1..Depth : visit.frames[k].kind = kind})

\* Code is being added: the block is active and no earlier statement of the
\* same Rust block has diverged.
Writing == /\ vm.at = "building" /\ mb.cur # 0 /\ ~Here.dead
CanWrite == Writing /\ visit.ops < shape.ops

InScope == shape.args \cup UNION {ToSet(mb.scopes[i].slots) : i \in DOMAIN mb.scopes}

Init ==
    /\ shape \in Bodies
    /\ mb = [scopes |-> <<Scope("Owning"), Scope("Owning")>>,
             slot_states |-> [v \in Slots |->
                                IF v \in shape.args THEN Valid ELSE Invalid],
             blocks |-> <<NewBlock>>, cur |-> 1, drop_flags |-> << >>]
    /\ visit = [frames |-> <<Frame("Fn", 1, 0, shape.args)>>, defs |-> shape.args,
                next |-> NArgs + 1, moved |-> {}, ops |-> 0]
    /\ vm = [at |-> "building", bb |-> 1, flags |-> << >>, faults |-> {},
             live |-> [v \in Slots |-> v \in shape.args]]

\* push_stmt_assign: mark_value_assigned drops the old value first.
AssignTo(b, v) ==
    LET old == GetSlotState(b, v, FALSE)
    IN  Push(DropValue(SetSlotState(b, v, Valid), v, old, "Replace"),
             Stmt("Assign", v, 0))

\* ExprNode_Let: define_variable, and the initial value if there is one.
Let(v) ==
    /\ CanWrite
    /\ v = visit.next /\ v \in shape.locals
    /\ LET defined == [mb EXCEPT !.scopes[Top(mb)].slots = Append(@, v)]
       IN \/ /\ mb' = AssignTo(defined, v)
             /\ visit' = [visit EXCEPT !.next = @ + 1, !.ops = @ + 1,
                                       !.defs = @ \cup {v}]
          \/ /\ shape.late
             /\ mb' = defined
             /\ visit' = [visit EXCEPT !.next = @ + 1, !.ops = @ + 1]
    /\ UNCHANGED <<shape, vm>>

\* ExprNode_Assign of a new value.
Assign(v) ==
    /\ CanWrite
    /\ v \in InScope
    /\ shape.again \/ v \notin visit.moved
    /\ mb' = AssignTo(mb, v)
    /\ visit' = [visit EXCEPT !.ops = @ + 1, !.defs = @ \cup {v}]
    /\ UNCHANGED <<shape, vm>>

\* A use by value: moved_lvalue.
MoveOut(v) ==
    /\ CanWrite
    /\ v \in InScope \cap visit.defs
    /\ mb' = Push(SetSlotState(mb, v, Invalid), Stmt("Move", v, 0))
    /\ visit' = [visit EXCEPT !.ops = @ + 1, !.defs = @ \ {v},
                              !.moved = @ \cup {v}]
    /\ UNCHANGED <<shape, vm>>

OpenBody(b, bb) == PushScope(SetCurBlock(b, bb), Scope("Owning"))

\* The end of an ExprNode_Block: with no cleanup where it diverged.
CloseBody ==
    IF mb.cur # 0 /\ ~Here.dead THEN TerminateScope(mb, TRUE)
    ELSE LET t == TerminateScope(mb, FALSE)
         IN IF mb.cur # 0 THEN EndBlock(t, Term("Diverge", {})) ELSE t

\* ExprNode_If, up to the start of its true arm.
If ==
    /\ CanWrite
    /\ Nesting("If") < shape.splits
    /\ LET n == Len(mb.blocks)
           split == PushScope(EndBlock(NewBbs(mb, 3), Term("If", {n + 1, n + 2})),
                              Scope("Split"))
       IN /\ mb' = OpenBody(split, n + 1)
          /\ visit' = [visit EXCEPT !.ops = @ + 1,
                 !.frames = Append(@, Frame("If", n + 2, n + 3, visit.defs))]
    /\ UNCHANGED <<shape, vm>>

\* The arm that ends here is over: end_split_arm, then on to the next block.
EndArm ==
    LET closed == CloseBody
        reachable == closed.cur # 0
        ended == EndSplitArm(closed, reachable)
    IN  IF reachable THEN EndBlock(ended, Goto(Here.next)) ELSE ended

ArmOut == IF Writing THEN visit.defs ELSE Slots

Else ==
    /\ vm.at = "building"
    /\ Here.kind = "If" /\ ~Here.second
    /\ mb' = OpenBody(EndArm, Here.entry)
    /\ visit' = [visit EXCEPT !.defs = Here.in,
                    !.frames[Depth] = [@ EXCEPT !.second = TRUE, !.dead = FALSE,
                                         !.out = ArmOut, !.left = Writing]]
    /\ UNCHANGED <<shape, vm>>

EndIf ==
    /\ vm.at = "building"
    /\ Here.kind = "If" /\ Here.second
    /\ mb' = TerminateScope(SetCurBlock(EndArm, Here.next), TRUE)
    /\ visit' = [visit EXCEPT !.defs = Here.out \cap ArmOut,
                    !.frames = [Front(@) EXCEPT ![Depth - 1].dead =
                                    @ \/ ~(Here.left \/ Writing)]]
    /\ UNCHANGED <<shape, vm>>

States == [v \in InScope |-> GetSlotState(mb, v, FALSE)]

\* May the current block jump back to the start of the loop of frame f?
MayRepeat(f) ==
    /\ f.in \subseteq visit.defs
    /\ shape.anyloop \/ \A v \in DOMAIN f.states :
                     GetSlotState(mb, v, FALSE) = f.states[v]

\* Has every slot whose state the loop of frame f changed been seen by a
\* break out of it?
BreaksSawAll(f) ==
    \A v \in DOMAIN f.states :
        \/ v \in DOMAIN mb.scopes[f.scope].end
        \/ GetSlotState(mb, v, FALSE) = f.states[v]

\* ExprNode_Loop, up to its body.  "inv" is what Rust knows on every entry.
Loop ==
    /\ CanWrite
    /\ Nesting("Loop") < shape.loops
    /\ LET n == Len(mb.blocks)
           linked == SetCurBlock(EndBlock(NewBbs(mb, 2), Goto(n + 1)), n + 1)
           loop == PushScope(linked, [Scope("Loop") EXCEPT !.entry_bb = n + 1])
       IN /\ mb' = OpenBody(loop, n + 1)
          /\ \E inv \in SUBSET (visit.defs \cap InScope) :
                visit' = [visit EXCEPT !.ops = @ + 1, !.defs = inv,
                    !.frames = Append(@, [Frame("Loop", n + 1, n + 2, inv)
                                            EXCEPT !.scope = Top(loop), !.states = States])]
    /\ UNCHANGED <<shape, vm>>

\* ExprNode_LoopControl to the loop of frame k.
Break(k) ==
    /\ CanWrite
    /\ visit.frames[k].kind = "Loop"
    /\ LET f == visit.frames[k]
       IN mb' = EndBlock(TerminateScopeEarly(mb, f.scope, TRUE), Goto(f.next))
    /\ visit' = [visit EXCEPT !.ops = @ + 1,
                    !.frames[k].out = @ \cap visit.defs,
                    !.frames[k].left = TRUE]
    /\ UNCHANGED <<shape, vm>>

Continue(k) ==
    /\ CanWrite
    /\ visit.frames[k].kind = "Loop"
    /\ MayRepeat(visit.frames[k])
    /\ LET f == visit.frames[k]
       IN mb' = EndBlock(TerminateScopeEarly(mb, f.scope, FALSE), Goto(f.entry))
    /\ visit' = [visit EXCEPT !.ops = @ + 1]
    /\ UNCHANGED <<shape, vm>>

\* The end of a loop.  With no break out of it the loop diverges.
EndLoop ==
    /\ vm.at = "building"
    /\ Here.kind = "Loop"
    /\ IF Writing THEN MayRepeat(Here) ELSE shape.anyloop \/ BreaksSawAll(Here)
    /\ LET body == CloseBody
           ended == TerminateScope(body, body.cur # 0)
           looped == IF body.cur # 0 THEN EndBlock(ended, Goto(Here.entry))
                     ELSE ended
           after == SetCurBlock(looped, Here.next)
       IN mb' = IF Here.left THEN after
                ELSE EndBlock(EndSplitArmEarly(after), Term("Diverge", {}))
    /\ visit' = [visit EXCEPT !.defs = Here.out, !.frames = Front(@)]
    /\ UNCHANGED <<shape, vm>>

\* ExprNode_Return.
Return ==
    /\ CanWrite
    /\ mb' = EndBlock(TerminateScopeEarly(mb, 1, FALSE), Term("Return", {}))
    /\ visit' = [visit EXCEPT !.ops = @ + 1]
    /\ UNCHANGED <<shape, vm>>

\* The end of the function's block, and final_cleanup.
Finish ==
    /\ vm.at = "building"
    /\ Here.kind = "Fn"
    /\ LET body == CloseBody
       IN mb' = IF body.cur # 0
                THEN EndBlock(TerminateScopeEarly(body, 1, FALSE),
                              Term("Return", {}))
                ELSE TerminateScope(body, FALSE)
    /\ vm' = [vm EXCEPT !.at = "running", !.flags = mb'.drop_flags]
    /\ UNCHANGED <<shape, visit>>

(***************************************************************************)
(* Execution of the emitted function (check_full.cpp).  A fault is a value *)
(* used or dropped while not valid ("invalid"), one overwritten or left    *)
(* behind while valid ("leak"), or a variable dropped at the end of its    *)
(* scope before one declared after it ("order").                           *)
(***************************************************************************)
Fault(m, what, bad) == IF bad THEN [m EXCEPT !.faults = @ \cup {what}] ELSE m

Execute(m, s) ==
    CASE s.op = "SetDropFlag" ->
            [m EXCEPT !.flags = FlagsAfter(@, s)]
      [] s.op = "Assign" ->
            [Fault(m, "leak", m.live[s.slot]) EXCEPT !.live[s.slot] = TRUE]
      [] s.op = "Move" \/ s.flag = 0 \/ m.flags[s.flag] ->
            LET later == \E u \in Slots : u > s.slot /\ m.live[u]
                used == Fault(m, "invalid", ~m.live[s.slot])
            IN  [Fault(used, "order", s.op = "Drop" /\ later)
                    EXCEPT !.live[s.slot] = FALSE]
      [] OTHER -> m

RunBlock ==
    /\ vm.at = "running"
    /\ LET block == mb.blocks[vm.bb]
           done == FoldLeft(Execute, vm, block.stmts)
           leaked == \E v \in Slots : done.live[v]
       IN \/ \E bb \in block.term.to : vm' = [done EXCEPT !.bb = bb]
          \/ /\ block.term.kind = "Return"
             /\ vm' = [Fault(done, "leak", leaked) EXCEPT !.at = "returned"]
    /\ UNCHANGED <<shape, mb, visit>>

Next ==
    \/ \E v \in Slots : Let(v) \/ Assign(v) \/ MoveOut(v)
    \/ If \/ Else \/ EndIf
    \/ Loop \/ EndLoop
    \/ \E k \in 1..Depth : Break(k) \/ Continue(k)
    \/ Return \/ Finish
    \/ RunBlock

Spec == Init /\ [][Next]_vars

(***************************************************************************)
(* Properties.                                                             *)
(***************************************************************************)
Referred == {0} \cup DOMAIN mb.drop_flags

\* Types, and references: whatever the builder emits or remembers names a
\* drop flag it has made (new_drop_flag) and a block that exists.
References ==
    /\ mb.cur \in 0..Len(mb.blocks)
    /\ \A v \in Slots : mb.slot_states[v].flag \in Referred
    /\ \A i \in DOMAIN mb.scopes :
        LET s == mb.scopes[i]
        IN  /\ s.kind \in {"Owning", "Split", "Loop"}
            /\ \A v \in DOMAIN s.arm : s.arm[v].flag \in Referred
            /\ \A v \in DOMAIN s.end : s.end[v].flag \in Referred
            /\ ToSet(s.flags) \subseteq DOMAIN mb.drop_flags
    /\ \A bb \in DOMAIN mb.blocks :
        /\ mb.blocks[bb].term.to \subseteq DOMAIN mb.blocks
        /\ \A k \in DOMAIN mb.blocks[bb].stmts :
              LET s == mb.blocks[bb].stmts[k]
              IN s.flag \in Referred /\ s.other \in Referred
    /\ visit.defs \subseteq Slots /\ visit.ops \in 0..shape.ops
    /\ vm.at \in {"building", "running", "returned"}
    /\ vm.bb \in DOMAIN mb.blocks

\* No path through the emitted function uses or drops a value that was
\* moved, dropped or never set (check.cpp:87), nor a flag or a block that was
\* not made.
NoInvalidUse == References /\ "invalid" \notin vm.faults

\* No path overwrites a value that still has to be dropped, or returns with
\* one: every value is dropped or moved exactly once (check_full.cpp:939), in
\* bodies that do not set a variable again after it was moved.
NoLeak == ~shape.again => "leak" \notin vm.faults

\* Where a scope ends, by falling off its end or by break, continue or
\* return, its variables are dropped in the reverse order of their
\* declarations, inner scopes before outer ones (mir_builder.cpp:2251).
LastDeclaredFirst == "order" \notin vm.faults
=============================================================================
