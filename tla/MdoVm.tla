------------------------------- MODULE MdoVm -------------------------------
(***************************************************************************)
(* The MDO virtual machine (mdo_vm.rs): the bytecode in a file's header    *)
(* judges the context of a request, over a stack of fixed size.  Bytes are *)
(* numbers, a hash is a sequence of HashLen of them, and execute_mict_check*)
(* runs one instruction per step.                                          *)
(***************************************************************************)
EXTENDS Integers, Sequences

CONSTANTS
    HashLen,    \* bytes of a value on the stack (32)
    StackSize,  \* values the stack holds (32)
    Policies    \* policies a compiler would write bytecode for: see Compile

ASSUME VmAssumption == HashLen \in Nat \ {0} /\ StackSize \in Nat

Byte == 0..255

OpPushVar == 16     \* 0x10
OpPushConst == 17   \* 0x11
OpEq == 32          \* 0x20
OpNeq == 33         \* 0x21
OpAssert == 48      \* 0x30
OpHaltOk == 63      \* 0x3F

VarRequestor == 1
VarAction == 2
VarOwner == 3
VarStatus == 4
Vars == {VarRequestor, VarAction, VarOwner, VarStatus}

\* What a run comes to: Ok(()), or Err with the error code.
Granted == 256
Malformed == 255        \* 0xFF
UnknownVariable == 254  \* 0xFE
StackError == 253       \* 0xFD
IllegalOp == 252        \* 0xFC
RanOut == 251           \* 0xFB
Running == -1

VARIABLES
    code,       \* the bytecode
    ctx,        \* the values of the four variables of the context
    vpc,        \* bytes of it executed
    stack,      \* the values on the stack, the top last
    verdict     \* Running, Granted or the error code

vmVars == <<code, ctx, vpc, stack, verdict>>

Hash == [1..HashLen -> Byte]
Contexts == [Vars -> Hash]
\* What push_bool puts on the stack.
BoolHash(b) == [k \in 1..HashLen |-> IF b /\ k = 1 THEN 1 ELSE 0]

\* A condition of a policy: a variable compared with another one or with a
\* constant, and the error it raises.  The stack has room for the two values.
Conditions ==
    LET Comparing(kind, operands) ==
            [var : Vars, kind : {kind}, with : operands, op : {OpEq, OpNeq}, error : Byte]
    IN  Comparing("var", [1..1 -> Vars]) \cup Comparing("const", Hash)
ASSUME PoliciesAssumption == Policies \subseteq Seq(Conditions) /\ StackSize >= 2

\* Mutation of IsTrue: the wrong end of the value.
IsTrueLast(v) == v[HashLen] # 0

IsTrue(v) == v[1] # 0

Top(k) == stack[Len(stack) + 1 - k]
Without(k) == SubSeq(stack, 1, Len(stack) - k)
-----------------------------------------------------------------------------
VmInit ==
    /\ code = <<>> /\ vpc = 0 /\ stack = <<>> /\ verdict = RanOut
    /\ ctx = [x \in Vars |-> BoolHash(FALSE)]

\* execute_mict_check(bytecode, context) is called.
Call(bytecode, context) ==
    /\ code' = bytecode /\ ctx' = context
    /\ vpc' = 0 /\ stack' = <<>> /\ verdict' = Running

Fetch(op) ==
    /\ verdict = Running
    /\ vpc < Len(code) /\ code[vpc + 1] = op
    /\ UNCHANGED <<code, ctx>>

Reject(error) == verdict' = error /\ UNCHANGED <<vpc, stack>>

\* Mutation of StackFull: one value too many.
StackFullLate == Len(stack) > StackSize

StackFull == Len(stack) >= StackSize

\* Mutation of Push: the counter stays where it is.
PushInPlace(v, size) ==
    IF StackFull THEN Reject(StackError)
    ELSE stack' = Append(stack, v) /\ UNCHANGED <<vpc, verdict>>

Push(v, size) ==
    IF StackFull THEN Reject(StackError)
    ELSE stack' = Append(stack, v) /\ vpc' = vpc + size /\ UNCHANGED verdict

PushVar ==
    /\ Fetch(OpPushVar)
    /\ IF vpc + 1 >= Len(code) THEN Reject(Malformed)
       ELSE IF code[vpc + 2] \notin Vars THEN Reject(UnknownVariable)
       ELSE Push(ctx[code[vpc + 2]], 2)

PushConst ==
    /\ Fetch(OpPushConst)
    /\ IF vpc + HashLen >= Len(code) THEN Reject(Malformed)
       ELSE Push([k \in 1..HashLen |-> code[vpc + 1 + k]], HashLen + 1)

\* Two pops and a push_bool, which finds room.
Compare(holds) ==
    IF Len(stack) < 2 THEN Reject(StackError)
    ELSE /\ stack' = Append(Without(2), BoolHash(holds))
         /\ vpc' = vpc + 1 /\ UNCHANGED verdict

Eq == Fetch(OpEq) /\ Compare(Len(stack) >= 2 /\ Top(1) = Top(2))
Neq == Fetch(OpNeq) /\ Compare(Len(stack) >= 2 /\ Top(1) # Top(2))

\* The value is popped before it is looked at; only its first byte counts.
AssertOrDissonance ==
    /\ Fetch(OpAssert)
    /\ IF vpc + 1 >= Len(code) THEN Reject(Malformed)
       ELSE IF stack = <<>> THEN Reject(StackError)
       ELSE /\ stack' = Without(1)
            /\ IF IsTrue(Top(1)) THEN vpc' = vpc + 2 /\ UNCHANGED verdict
               ELSE verdict' = code[vpc + 2] /\ UNCHANGED vpc

HaltOk == Fetch(OpHaltOk) /\ verdict' = Granted /\ UNCHANGED <<vpc, stack>>

Illegal ==
    /\ \E op \in Byte \ {OpPushVar, OpPushConst, OpEq, OpNeq, OpAssert, OpHaltOk} : Fetch(op)
    /\ Reject(IllegalOp)

\* The bytecode ends without HALT_OK.
RunOut ==
    /\ verdict = Running /\ vpc >= Len(code)
    /\ UNCHANGED <<code, ctx>>
    /\ Reject(RanOut)

\* The locals are gone when the call returns.
Forget ==
    /\ code' = <<>> /\ vpc' = 0 /\ stack' = <<>> /\ verdict' = RanOut
    /\ ctx' = [x \in Vars |-> BoolHash(FALSE)]

VmStep ==
    \/ PushVar \/ PushConst \/ Eq \/ Neq \/ AssertOrDissonance \/ HaltOk \/ Illegal \/ RunOut

VmNext ==
    \/ VmStep
    \/ verdict # Running /\ (Forget \/ \E c \in Seq(Byte), x \in Contexts : Call(c, x))
VmSpec == VmInit /\ [][VmNext]_vmVars
-----------------------------------------------------------------------------
VmTypeOK ==
    /\ code \in Seq(Byte) /\ ctx \in Contexts
    /\ vpc \in Nat /\ stack \in Seq(Hash)
    /\ verdict \in Byte \cup {Granted, Running}

\* Whatever the bytecode, the machine reads no byte past its end and no value
\* outside its stack: no step leaves the counter beyond the code or more than
\* StackSize values on the stack (the bounds of the slices in mdo_vm.rs).
VmInBounds == vpc <= Len(code) /\ Len(stack) <= StackSize

\* Every instruction moves the counter forward or ends the run, so that a run
\* takes at most one step per byte: no bytecode can hang the kernel, which
\* runs the machine without yielding (mdo_vm.rs, line 78).
VmProgress ==
    [][verdict = Running => vpc' > vpc \/ verdict' # Running]_vmVars

\* The bytecode for a policy: conditions on a variable, each with the error it
\* raises, checked in order.  A condition compares with another variable or
\* with a constant.
Operand(c) == IF c.kind = "var" THEN <<OpPushVar>> \o c.with ELSE <<OpPushConst>> \o c.with
Value(c) == IF c.kind = "var" THEN ctx[c.with[1]] ELSE c.with
Condition(c) ==
    <<OpPushVar, c.var>> \o Operand(c) \o <<c.op>> \o <<OpAssert, c.error>>
Compile(p) ==
    LET Upto[k \in 0..Len(p)] == IF k = 0 THEN <<>> ELSE Upto[k - 1] \o Condition(p[k])
    IN  Upto[Len(p)] \o <<OpHaltOk>>

Holds(c) == IF c.op = OpEq THEN ctx[c.var] = Value(c) ELSE ctx[c.var] # Value(c)
Meaning(p) ==
    LET failing == {k \in 1..Len(p) : ~Holds(p[k])}
    IN  IF failing = {} THEN Granted
        ELSE p[CHOOSE k \in failing : \A l \in failing : k <= l].error

\* Bytecode that states a policy is judged by the policy: access if every
\* condition holds of the context, else the error of the first that does not.
\* Bytecode that was cut short never grants access, wherever the cut falls
\* (the fail-safe of mdo_vm.rs, line 144).
PolicyHonoured ==
    verdict # Running =>
        \A p \in Policies : LET full == Compile(p) IN
            \A n \in 0..Len(full) :
                code = SubSeq(full, 1, n) =>
                    IF n = Len(full) THEN verdict = Meaning(p) ELSE verdict # Granted
=============================================================================
