------------------------------- MODULE Script -------------------------------
(***************************************************************************)
(* The stack interpreter of tx/script.py, one action per opcode.           *)
(***************************************************************************)
EXTENDS Templates

CONSTANTS
    MaxOps,         \* SCRIPT_MAX_OPS
    MaxStackItems,  \* SCRIPT_MAX_STACK_ITEMS
    Spends          \* the spends tried: see Policy below

ASSUME ScriptBounds == {MaxOps, MaxStackItems} \subseteq Nat \ {0}

VARIABLES
    spend,    \* the spend being verified
    ops,      \* the operations of its script that are still to run
    stack,    \* the interpreter's stack, top last
    opCount,  \* operations run
    verdict   \* "running", then what verify_script returns

scriptVars == <<spend, ops, stack, opCount, verdict>>

-----------------------------------------------------------------------------
(* A spend is one policy in both forms: as a template payload with its     *)
(* witness, and as a script over an initial stack.  Its fields: single,    *)
(* threshold, keys, sigs, hashlock (<<>> or <<hash>>), preimage, locks,    *)
(* ctx and suffix, operations appended to the script.                      *)

TemplateOf(s) ==
    LET base == IF s.single THEN [template |-> "pkh", hash |-> Hash(s.keys[1])]
                ELSE [template |-> "multisig", threshold |-> s.threshold, keys |-> s.keys]
    IN  IF s.hashlock = <<>> THEN base
        ELSE [template |-> "hashlock", hash |-> s.hashlock[1], inner |-> base]

WitnessOf(s) ==
    (IF s.hashlock = <<>> THEN <<>> ELSE <<s.preimage>>) \o s.sigs
        \o (IF s.single THEN <<s.keys[1]>> ELSE <<>>)

InitialStack(s) == s.sigs \o (IF s.hashlock = <<>> THEN <<>> ELSE <<s.preimage>>)

Op(name) == [name |-> name]
Push(item) == [name |-> "PUSH", item |-> item]

\* The script of a spend: the locks, the preimage if there is a hashlock, the
\* signatures, then what was appended.
LockOps(s) ==
    <<Push(<<"lock", s.locks.time>>), Op("CHECKLOCKTIME"), Op("VERIFY"),
      Push(<<"lock", s.locks.height>>), Op("CHECKLOCKHEIGHT"), Op("VERIFY")>>

PreimageOps(s) ==
    IF s.hashlock = <<>> THEN <<>>
    ELSE <<Op("DUP"), Push(s.hashlock[1]), Op("HASHLOCK"), Op("VERIFY"),
           Op("HASH256"), Push(Hash(s.hashlock[1])), Op("HASHLOCK"), Op("VERIFY")>>

SignatureOps(s) ==
    IF s.single THEN <<Push(s.keys[1]), Op("CHECKSIG")>>
    ELSE <<Push(<<"byte", s.threshold>>)>> \o [i \in 1..Len(s.keys) |-> Push(s.keys[i])]
         \o <<Push(<<"byte", Len(s.keys)>>), Op("CHECKMULTISIG")>>

ScriptOf(s) == ((LockOps(s) \o PreimageOps(s)) \o SignatureOps(s)) \o s.suffix

\* A suffix that only checks the verdict again changes nothing.
Harmless(suffix) ==
    \A i \in 1..Len(suffix) : suffix[i].name = IF i % 2 = 1 THEN "DUP" ELSE "VERIFY"

\* A suffix that no verdict survives: an unknown operation, another verdict on
\* top, or more copies than the stack holds.
Spoils(suffix) ==
    /\ suffix # <<>>
    /\ \/ suffix[1].name = "UNKNOWN"
       \/ /\ suffix[1].name = "PUSH" /\ suffix[1].item # True
          /\ Len(suffix) > 1 => suffix[2].name = "VERIFY"
       \/ Len(suffix) > MaxStackItems /\ \A i \in 1..Len(suffix) : suffix[i].name = "DUP"

ASSUME SpendsAssumption ==
    \A s \in Spends :
        /\ s.single \in BOOLEAN /\ s.threshold \in Nat
        /\ s.keys \in Seq(Range(s.keys)) /\ s.sigs \in Seq(Range(s.sigs))
        /\ s.single => s.threshold = 1 /\ Len(s.keys) = 1
        /\ s.hashlock = <<>> \/ s.hashlock = <<s.hashlock[1]>>
        /\ {s.locks.time, s.locks.height, s.ctx.time, s.ctx.height} \subseteq Nat
        /\ s.suffix \in Seq(Range(s.suffix))
        /\ Harmless(s.suffix) \/ Spoils(s.suffix)

-----------------------------------------------------------------------------
(* The interpreter: execute_script under verify_script, which turns every  *)
(* error into FALSE.                                                       *)

ScriptInit ==
    /\ spend \in Spends
    /\ ops = ScriptOf(spend)
    /\ stack = InitialStack(spend)
    /\ opCount = 0
    /\ verdict = IF Len(InitialStack(spend)) > MaxStackItems THEN "false" ELSE "running"

Top(n) == stack[Len(stack) - n]   \* the item n below the top
Below(n) == SubSeq(stack, 1, Len(stack) - n)

\* The loop runs the next operation unless the count of operations is exceeded.
Running(name) ==
    /\ verdict = "running" /\ ops # <<>> /\ opCount < MaxOps
    /\ Head(ops).name = name
    /\ ops' = Tail(ops) /\ opCount' = opCount + 1
    /\ UNCHANGED spend

Fail == verdict' = "false" /\ UNCHANGED stack

\* _pop n times, then _push; ok is the operation's own condition.
PopPush(n, ok, item) ==
    IF Len(stack) < n \/ ~ ok \/ Len(stack) - n >= MaxStackItems THEN Fail
    ELSE stack' = Append(Below(n), item) /\ UNCHANGED verdict

OpPush == Running("PUSH") /\ PopPush(0, TRUE, Head(ops).item)
OpDup == Running("DUP") /\ PopPush(0, stack # <<>>, Top(0))
OpHash256 == Running("HASH256") /\ PopPush(1, TRUE, Hash(Top(0)))
OpCheckSig ==
    Running("CHECKSIG") /\ PopPush(2, TRUE, Bool(Verifies(Top(1), Top(0), spend.ctx.message)))
OpHashlock == Running("HASHLOCK") /\ PopPush(2, Is32(Top(0)), Bool(Hash(Top(1)) = Top(0)))
OpCheckLockTime ==
    Running("CHECKLOCKTIME") /\ PopPush(1, Top(0)[1] = "lock", Bool(Mature(Top(0)[2], spend.ctx.time)))
OpCheckLockHeight ==
    Running("CHECKLOCKHEIGHT")
    /\ PopPush(1, Top(0)[1] = "lock", Bool(Mature(Top(0)[2], spend.ctx.height)))

\* Faulty: the signatures stay in the order they were popped.
MultisigArgsReversed ==
    LET n == Top(0)[2]
        t == Top(n + 1)[2]
    IN  [keys |-> SubSeq(stack, Len(stack) - n, Len(stack) - 1),
         sigs |-> Reverse(SubSeq(stack, Len(stack) - n - t - 1, Len(stack) - n - 2)),
         used |-> n + t + 2]

\* The key count, the keys, the threshold and the signatures, from the top down;
\* popped in reverse, the keys and the signatures are put back in order.
MultisigArgs ==
    LET n == Top(0)[2]
        t == Top(n + 1)[2]
    IN  [keys |-> SubSeq(stack, Len(stack) - n, Len(stack) - 1),
         sigs |-> SubSeq(stack, Len(stack) - n - t - 1, Len(stack) - n - 2),
         used |-> n + t + 2]

\* _execute_checkmultisig's checks, in their order.
MultisigReady ==
    /\ stack # <<>> /\ Top(0)[1] = "byte" /\ Top(0)[2] \in 1..MaxKeys
    /\ Len(stack) >= Top(0)[2] + 2
    /\ LET n == Top(0)[2] IN
         /\ \A i \in 1..n : Is32(Top(i))
         /\ Distinct(SubSeq(stack, Len(stack) - n, Len(stack) - 1))
         /\ Top(n + 1)[1] = "byte" /\ Top(n + 1)[2] \in 1..n
         /\ Len(stack) >= n + 2 + Top(n + 1)[2]
         /\ \A i \in n + 2..n + 1 + Top(n + 1)[2] : IsSig(Top(i))

OpCheckMultisig ==
    /\ Running("CHECKMULTISIG")
    /\ IF MultisigReady
       THEN PopPush(MultisigArgs.used, TRUE,
                    Bool(OrderedMultisig(MultisigArgs.sigs, MultisigArgs.keys, spend.ctx.message)))
       ELSE Fail

\* OP_VERIFY: the top must be the canonical TRUE.
OpVerify ==
    /\ Running("VERIFY")
    /\ IF stack # <<>> /\ Top(0) = True THEN stack' = Below(1) /\ UNCHANGED verdict ELSE Fail

OpUnknown == Running("UNKNOWN") /\ Fail

\* One operation too many.
TooManyOps ==
    /\ verdict = "running" /\ ops # <<>> /\ opCount = MaxOps
    /\ Fail /\ UNCHANGED <<spend, ops, opCount>>

\* verify_script: the script has ended; the top item decides.
Halt ==
    /\ verdict = "running" /\ ops = <<>>
    /\ verdict' = IF stack # <<>> /\ Top(0) = True THEN "true" ELSE "false"
    /\ UNCHANGED <<spend, ops, stack, opCount>>

ScriptNext ==
    \/ OpPush \/ OpDup \/ OpHash256 \/ OpCheckSig \/ OpCheckMultisig \/ OpHashlock
    \/ OpCheckLockTime \/ OpCheckLockHeight \/ OpVerify \/ OpUnknown
    \/ TooManyOps \/ Halt

ScriptSpec == ScriptInit /\ [][ScriptNext]_scriptVars

-----------------------------------------------------------------------------
(* Properties. *)

\* What a policy demands of signatures: every one is by a different key, in the
\* order of the keys.
Signed(sigs, keys, message) ==
    \E f \in [1..Len(sigs) -> 1..Len(keys)] :
        /\ \A i, j \in 1..Len(sigs) : i < j => f[i] < f[j]
        /\ \A i \in 1..Len(sigs) : Verifies(sigs[i], keys[f[i]], message)

Policy(s, sigs) ==
    /\ ValidMultisig(s)
    /\ Len(sigs) = s.threshold
    /\ Signed(sigs, s.keys, s.ctx.message)
    /\ s.hashlock # <<>> => Hash(s.preimage) = s.hashlock[1]
    /\ s.ctx.time >= s.locks.time /\ s.ctx.height >= s.locks.height

\* The most the script has on its stack.
StackFits(s) ==
    /\ Len(s.sigs) + (IF s.hashlock = <<>> THEN 1 ELSE 3) <= MaxStackItems
    /\ ~s.single => Len(s.sigs) + Len(s.keys) + 2 <= MaxStackItems

LastOf(sigs, n) == SubSeq(sigs, Max({0, Len(sigs) - n}) + 1, Len(sigs))

\* The interpreter, the template verifier and the policy agree: a spend is let
\* through exactly when threshold signatures by different keys, in key order,
\* the preimage and the locks are there, and the script stays within its limits.
\* The template wants no signature beyond the threshold; the script looks at the
\* last ones on its stack.
SpendVerdictsAgree ==
    verdict # "running" =>
        /\ (verdict = "true") <=>
              /\ Policy(spend, LastOf(spend.sigs, spend.threshold))
              /\ Harmless(spend.suffix)
              /\ Len(ScriptOf(spend)) <= MaxOps /\ StackFits(spend)
        /\ VerifyTemplate(TemplateOf(spend), WitnessOf(spend), spend.locks, spend.ctx)
              <=> Policy(spend, spend.sigs)
=============================================================================
