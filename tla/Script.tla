------------------------------- MODULE Script -------------------------------
(***************************************************************************)
(* The evaluation of scripts: Evaluator (Script.cpp), TransactionEvaluator  *)
(* and Transaction::verify (Transaction.cpp).                               *)
(*                                                                          *)
(* One evaluator runs the signature script, the script of the output and,   *)
(* if that is a script hash, the script that was hashed.  A behaviour is    *)
(* the verification of one input.  A script is either one of the standard   *)
(* ones or free: its opcodes are chosen as they are read.                   *)
(*                                                                          *)
(* A value is a tuple of its kind and its content: the number n in its      *)
(* shortest form, <<"num", n>>; n with a byte to spare, <<"wide", n>>;      *)
(* negative zero; a public key, <<"key", k>>; a signature by the key k of   *)
(* the code c, <<"sig", k, c>>; the hash of a value; a script.  Code is     *)
(* named by the script it is part of and how much of that was read before.  *)
(* That a signature is removed from the code it signs is left out.          *)
(***************************************************************************)
EXTENDS Integers, Sequences, SequencesExt, FiniteSets

CONSTANTS Pushes,      \* the values that free scripts push
          Starts,      \* the stacks that signature scripts begin by pushing
          MaxFree,     \* bound on the opcodes chosen, one less after a long start
          MaxOpCount,  \* 201
          MaxStack,    \* 1000
          MaxKeys      \* 20

(* A signature is of a key and of code; other values are what they are. *)
IsValue(v) == v[1] = "sig" => v = <<"sig", v[2], v[3]>>
IsStack(s) == s \in Seq(Range(s)) /\ \A v \in Range(s) : IsValue(v)

(* The limits leave room for the standard scripts, and what a signature     *)
(* script begins with is within them.                                       *)
ASSUME ScriptAssumption ==
    /\ MaxFree \in Nat \ {0} /\ MaxStack \in Nat
    /\ MaxOpCount \in Nat /\ MaxOpCount >= 4
    /\ MaxKeys \in Nat /\ MaxKeys >= 2
    /\ \A v \in Pushes : IsValue(v)
    /\ \A s \in Starts : IsStack(s) /\ Len(s) <= MaxStack

VARIABLES phase,     \* the script that runs, or how the verification ended
          kind,      \* the kind of the output's script
          strict,    \* strictPayToScriptHash
          fixed,     \* the script that runs is a standard one
          script,    \* and the instructions left of it
          free,      \* how many more may be chosen
          read,      \* the instructions read of the script
          stack,     \* _stack
          altStack,  \* _alt_stack
          execStack, \* _exec_stack
          opCount,   \* _op_count
          separator, \* _codehash: where a separator was met, or None
          pushOnly,  \* the signature script has only pushes
          stackCopy  \* what the signature script left

evaluator == <<stack, altStack, execStack, opCount, separator>>
vars == <<phase, kind, strict, fixed, script, free, read, evaluator, pushOnly, stackCopy>>

Scripts == {"signature", "output", "redeem"}
Ended == {"valid", "failed", "crashed"}
None == <<"none", 0>>

Num(n) == <<"num", n>>
True == Num(1)
False == Num(0)

CastToBool(v) == v \notin {Num(0), <<"negzero", 0>>, <<"wide", 0>>}

(* CastToBigNum throws for more than four bytes, which fails the script. *)
IsNumber(v) == v[1] \in {"num", "wide", "negzero"}
CastToBigNum(v) == v[2]

FromBool(b) == IF b THEN True ELSE False

Size(v) ==
    CASE v[1] = "num" -> IF v[2] = 0 THEN 0 ELSE 1
      [] v[1] = "negzero" -> 1
      [] v[1] = "wide" -> IF v[2] = 0 THEN 1 ELSE 2
      [] v[1] = "key" -> 33
      [] v[1] = "sig" -> 72
      [] v[1] = "hash" -> 20
      [] OTHER -> 25

(* top(-i) *)
Top(s, i) == s[Len(s) + 1 - i]
Below(s, n) == SubSeq(s, 1, Len(s) - n)
Last2(s) == SubSeq(s, Len(s) - 1, Len(s))
Swap(s, i, j) ==
    [s EXCEPT ![Len(s) + 1 - i] = Top(s, j), ![Len(s) + 1 - j] = Top(s, i)]

----------------------------------------------------------------------------
(* The operations that only move values about: how many values each needs   *)
(* and the stack it makes, as the code makes it.                            *)
Needs == [OP_2DROP |-> 2, OP_2DUP |-> 2, OP_3DUP |-> 3, OP_2OVER |-> 4, OP_2ROT |-> 6,
          OP_2SWAP |-> 4, OP_DROP |-> 1, OP_DUP |-> 1, OP_NIP |-> 2, OP_OVER |-> 2,
          OP_ROT |-> 3, OP_SWAP |-> 2, OP_TUCK |-> 2]

Rotated(s) == Swap(Swap(s, 3, 2), 2, 1)

Moved(op, s) ==
    CASE op = "OP_2DROP" -> Below(s, 2)
      [] op = "OP_2DUP"  -> s \o <<Top(s, 2), Top(s, 1)>>
      [] op = "OP_3DUP"  -> s \o <<Top(s, 3), Top(s, 2), Top(s, 1)>>
      [] op = "OP_2OVER" -> s \o <<Top(s, 4), Top(s, 3)>>
      [] op = "OP_2ROT"  -> Below(s, 6) \o SubSeq(s, Len(s) - 3, Len(s)) \o <<Top(s, 6), Top(s, 5)>>
      [] op = "OP_2SWAP" -> Swap(Swap(s, 4, 2), 3, 1)
      [] op = "OP_DROP"  -> Below(s, 1)
      [] op = "OP_DUP"   -> Append(s, Top(s, 1))
      [] op = "OP_NIP"   -> RemoveAt(s, Len(s) - 1)
      [] op = "OP_OVER"  -> Append(s, Top(s, 2))
      [] op = "OP_ROT"   -> Rotated(s)
      [] op = "OP_SWAP"  -> Swap(s, 2, 1)
      [] op = "OP_TUCK"  -> Below(s, 2) \o <<Top(s, 1)>> \o Last2(s)

(* What the comment at each operation says: "(x1 x2 x3 -- x2 x3 x1)". *)
Comment == [OP_2DROP |-> << >>, OP_2DUP |-> <<1, 2, 1, 2>>, OP_3DUP |-> <<1, 2, 3, 1, 2, 3>>,
            OP_2OVER |-> <<1, 2, 3, 4, 1, 2>>, OP_2ROT |-> <<3, 4, 5, 6, 1, 2>>,
            OP_2SWAP |-> <<3, 4, 1, 2>>, OP_DROP |-> << >>, OP_DUP |-> <<1, 1>>,
            OP_NIP |-> <<2>>, OP_OVER |-> <<1, 2, 1>>, OP_ROT |-> <<2, 3, 1>>,
            OP_SWAP |-> <<2, 1>>, OP_TUCK |-> <<2, 1, 2>>]

----------------------------------------------------------------------------
Unary == {"OP_1ADD", "OP_1SUB", "OP_NEGATE", "OP_ABS", "OP_NOT", "OP_0NOTEQUAL"}

UnaryValue(op, n) ==
    CASE op = "OP_1ADD" -> n + 1
      [] op = "OP_1SUB" -> n - 1
      [] op = "OP_NEGATE" -> -n
      [] op = "OP_ABS" -> IF n < 0 THEN -n ELSE n
      [] op = "OP_NOT" -> IF n = 0 THEN 1 ELSE 0
      [] op = "OP_0NOTEQUAL" -> IF n # 0 THEN 1 ELSE 0

Compares == {"OP_BOOLAND", "OP_BOOLOR", "OP_NUMEQUAL", "OP_NUMEQUALVERIFY", "OP_NUMNOTEQUAL",
             "OP_LESSTHAN", "OP_GREATERTHAN", "OP_LESSTHANOREQUAL", "OP_GREATERTHANOREQUAL"}

Binary == Compares \cup {"OP_ADD", "OP_SUB", "OP_MIN", "OP_MAX"}

BinaryValue(op, a, b) ==
    CASE op = "OP_ADD" -> Num(a + b)
      [] op = "OP_SUB" -> Num(a - b)
      [] op = "OP_MIN" -> Num(IF a < b THEN a ELSE b)
      [] op = "OP_MAX" -> Num(IF a > b THEN a ELSE b)
      [] op = "OP_BOOLAND" -> FromBool(a # 0 /\ b # 0)
      [] op = "OP_BOOLOR" -> FromBool(a # 0 \/ b # 0)
      [] op \in {"OP_NUMEQUAL", "OP_NUMEQUALVERIFY"} -> FromBool(a = b)
      [] op = "OP_NUMNOTEQUAL" -> FromBool(a # b)
      [] op = "OP_LESSTHAN" -> FromBool(a < b)
      [] op = "OP_GREATERTHAN" -> FromBool(a > b)
      [] op = "OP_LESSTHANOREQUAL" -> FromBool(a <= b)
      [] op = "OP_GREATERTHANOREQUAL" -> FromBool(a >= b)

(* The ones that end by removing True, or fail. *)
Verifies == {"OP_VERIFY", "OP_EQUALVERIFY", "OP_NUMEQUALVERIFY"}

Needed(op) ==
    CASE op \in DOMAIN Needs -> Needs[op]
      [] op \in Unary \cup {"OP_IFDUP", "OP_SIZE", "OP_VERIFY", "OP_HASH160"} -> 1
      [] op \in Binary \cup {"OP_PICK", "OP_ROLL", "OP_EQUAL", "OP_EQUALVERIFY"} -> 2
      [] op = "OP_WITHIN" -> 3
      [] OTHER -> 0

(* How many of the values are read as numbers *)
Numbers(op) ==
    CASE op \in Unary \cup {"OP_PICK", "OP_ROLL"} -> 1
      [] op \in Binary -> 2
      [] op = "OP_WITHIN" -> 3
      [] OTHER -> 0

Picked(op, s) ==
    LET n == CastToBigNum(Top(s, 1)) + 1
        rest == Below(s, 1)
    IN  Append(IF op = "OP_ROLL" THEN RemoveAt(rest, Len(rest) + 1 - n) ELSE rest, Top(rest, n))

(* The operations that change nothing but the stack, with the value that    *)
(* the verifying ones test still on it                                      *)
Result(op, s) ==
    LET n(i) == CastToBigNum(Top(s, i)) IN
    CASE op \in DOMAIN Needs -> Moved(op, s)
      [] op = "OP_IFDUP" -> IF CastToBool(Top(s, 1)) THEN Append(s, Top(s, 1)) ELSE s
      [] op = "OP_DEPTH" -> Append(s, Num(Len(s)))
      [] op \in {"OP_PICK", "OP_ROLL"} -> Picked(op, s)
      [] op = "OP_SIZE" -> Append(s, Num(Size(Top(s, 1))))
      [] op \in {"OP_EQUAL", "OP_EQUALVERIFY"} ->
             Append(Below(s, 2), FromBool(Top(s, 2) = Top(s, 1)))
      [] op \in Unary -> Append(Below(s, 1), Num(UnaryValue(op, n(1))))
      [] op \in Binary -> Append(Below(s, 2), BinaryValue(op, n(2), n(1)))
      [] op = "OP_WITHIN" -> Append(Below(s, 3), FromBool(n(2) <= n(3) /\ n(3) < n(1)))
      [] op = "OP_HASH160" -> Append(Below(s, 1), <<"hash", Top(s, 1)>>)
      [] OTHER -> s

Works(op, s) ==
    /\ op # "OP_RETURN"
    /\ Len(s) >= Needed(op)
    /\ \A i \in 1 .. Numbers(op) : IsNumber(Top(s, i))
    /\ op \in {"OP_PICK", "OP_ROLL"} => CastToBigNum(Top(s, 1)) \in 0 .. Len(s) - 2
    /\ op \in Verifies => CastToBool(Top(Result(op, s), 1))

(* The opcodes that are no operation, or that no evaluator knows: both are  *)
(* passed over.                                                             *)
Ignored == {"OP_NOP", "OP_RESERVED"}

StackOps ==
    DOMAIN Needs \cup Unary \cup Binary \cup Verifies \cup Ignored \cup
    {"OP_IFDUP", "OP_DEPTH", "OP_PICK", "OP_ROLL", "OP_SIZE", "OP_EQUAL", "OP_WITHIN",
     "OP_HASH160", "OP_RETURN"}

(* Refused wherever they are met: the disabled operations, an instruction   *)
(* that is cut off by the end of its script, a value that is too long       *)
Refused == {"OP_CAT", "truncated", "oversized"}

----------------------------------------------------------------------------
(* checkSig; key.verify and getSignatureHash are external: a signature is   *)
(* good for the key that made it and the code that was signed.              *)
checkSig(sig, key, code) ==
    /\ sig[1] = "sig"
    /\ key[1] = "key"
    /\ sig[2] = key[2]
    /\ sig[3] = code

(* Where CHECKMULTISIG finds its counts, keys and signatures; below them it *)
(* removes one more value.                                                  *)
KeysCount(s) == CastToBigNum(Top(s, 1))
SigsCount(s) == CastToBigNum(Top(s, KeysCount(s) + 2))
Keys(s) == [i \in 1 .. KeysCount(s) |-> Top(s, i + 1)]
Sigs(s) == [i \in 1 .. SigsCount(s) |-> Top(s, KeysCount(s) + 2 + i)]
Removed(s) == KeysCount(s) + SigsCount(s) + 3

MultisigReadable(s) ==
    /\ Len(s) >= 1
    /\ IsNumber(Top(s, 1))
    /\ KeysCount(s) \in 0 .. MaxKeys
    /\ Len(s) >= KeysCount(s) + 2
    /\ IsNumber(Top(s, KeysCount(s) + 2))
    /\ SigsCount(s) \in 0 .. KeysCount(s)
    /\ Len(s) >= Removed(s)

(* Erroneous: the next key is taken only when one has matched. *)
SignedInStep(keys, sigs, code) ==
    \A i \in DOMAIN sigs : checkSig(sigs[i], keys[i], code)

(* The loop over the keys, of which each is tried against the first         *)
(* signature that is left: how many have matched after the first i keys     *)
Matched(keys, sigs, code) ==
    LET n[i \in 0 .. Len(keys)] ==
            IF i = 0 THEN 0
            ELSE IF n[i - 1] < Len(sigs) /\ checkSig(sigs[n[i - 1] + 1], keys[i], code)
            THEN n[i - 1] + 1
            ELSE n[i - 1]
    IN  n

Signed(keys, sigs, code) == Matched(keys, sigs, code)[Len(keys)] = Len(sigs)

----------------------------------------------------------------------------
(* The standard scripts *)
Op(name) == <<name, None>>
Push(v) == <<"push", v>>
K1 == <<"key", "k1">>
K2 == <<"key", "k2">>
Redeem == <<"script", 0>>

PayToKey == <<Push(K1), Op("OP_CHECKSIG")>>
Standard ==
    [free |-> << >>,
     pubkey |-> PayToKey,
     pubkeyhash |-> <<Op("OP_DUP"), Op("OP_HASH160"), Push(<<"hash", K1>>),
                      Op("OP_EQUALVERIFY"), Op("OP_CHECKSIG")>>,
     multisig |-> <<Push(Num(1)), Push(K1), Push(K2), Push(Num(2)), Op("OP_CHECKMULTISIG")>>,
     scripthash |-> <<Op("OP_HASH160"), Push(<<"hash", Redeem>>), Op("OP_EQUAL")>>]

TypeOK ==
    /\ phase \in Scripts \cup Ended
    /\ kind \in DOMAIN Standard
    /\ {strict, fixed, pushOnly} \subseteq BOOLEAN
    /\ read \in Nat /\ free \in 0 .. MaxFree
    /\ opCount \in 0 .. MaxOpCount
    /\ Len(stack) + Len(altStack) <= MaxStack
    /\ \A i \in DOMAIN execStack : execStack[i] \in BOOLEAN
    /\ separator = None \/ separator[1] \in Scripts

Init ==
    /\ phase = "signature"
    /\ kind \in DOMAIN Standard
    /\ strict \in BOOLEAN
    /\ fixed = FALSE
    /\ script = << >>
    /\ read = 0
    /\ stack \in Starts
    /\ free = IF Len(stack) > 2 THEN MaxFree - 1 ELSE MaxFree
    /\ altStack = << >> /\ execStack = << >> /\ stackCopy = << >>
    /\ opCount = 0
    /\ separator = None
    /\ pushOnly = TRUE

----------------------------------------------------------------------------
Exec == \A i \in DOMAIN execStack : execStack[i]

Reads(name, v) ==
    /\ phase \in Scripts
    /\ \/ ~fixed /\ free > 0 /\ free' = free - 1 /\ UNCHANGED script
       \/ /\ fixed /\ script # << >>
          /\ Head(script) = <<name, v>>
          /\ script' = Tail(script)
          /\ UNCHANGED free
    /\ read' = read + 1
    /\ pushOnly' = (pushOnly /\ (phase = "signature" => name = "push"))
    /\ UNCHANGED <<kind, strict, fixed, stackCopy>>

(* The evaluator is gone when the verification ends. *)
EndsAs(p) ==
    /\ phase' = p
    /\ stack' = << >> /\ altStack' = << >> /\ execStack' = << >>
    /\ opCount' = 0
    /\ separator' = None

Fails == EndsAs("failed")

(* Erroneous: the limit on the stacks is forgotten. *)
ContinuesAnyway(s, a, e, n) ==
    IF n > MaxOpCount
    THEN Fails
    ELSE /\ stack' = s /\ altStack' = a /\ execStack' = e /\ opCount' = n
         /\ UNCHANGED <<phase, separator>>

(* After an instruction: the limits, which fail the script *)
Continues(s, a, e, n) ==
    IF n > MaxOpCount \/ Len(s) + Len(a) > MaxStack
    THEN Fails
    ELSE /\ stack' = s /\ altStack' = a /\ execStack' = e /\ opCount' = n
         /\ UNCHANGED <<phase, separator>>

PushValue(v) ==
    /\ Reads("push", v)
    /\ Continues(IF Exec THEN Append(stack, v) ELSE stack, altStack, execStack, opCount)

Refuse(op) == Reads(op, None) /\ Fails

OtherOps == {"OP_TOALTSTACK", "OP_FROMALTSTACK", "OP_CODESEPARATOR", "OP_CHECKSIG",
             "OP_CHECKSIGVERIFY", "OP_CHECKMULTISIG", "OP_CHECKMULTISIGVERIFY"}

Skip(op) ==
    /\ ~Exec
    /\ Reads(op, None)
    /\ Continues(stack, altStack, execStack, opCount + 1)

StackOp(op) ==
    /\ Exec
    /\ Reads(op, None)
    /\ IF ~Works(op, stack)
       THEN Fails
       ELSE LET s == Result(op, stack) IN
            Continues(IF op \in Verifies THEN Front(s) ELSE s, altStack, execStack, opCount + 1)

If(op) ==
    /\ Reads(op, None)
    /\ IF Exec /\ stack = << >>
       THEN Fails
       ELSE LET value == Exec /\ (CastToBool(Last(stack)) = (op = "OP_IF")) IN
            Continues(IF Exec THEN Front(stack) ELSE stack, altStack,
                      Append(execStack, value), opCount + 1)

Else ==
    /\ Reads("OP_ELSE", None)
    /\ IF execStack = << >>
       THEN Fails
       ELSE Continues(stack, altStack, [execStack EXCEPT ![Len(execStack)] = ~@], opCount + 1)

EndIf ==
    /\ Reads("OP_ENDIF", None)
    /\ IF execStack = << >>
       THEN Fails
       ELSE Continues(stack, altStack, Front(execStack), opCount + 1)

ToAltStack ==
    /\ Exec
    /\ Reads("OP_TOALTSTACK", None)
    /\ IF stack = << >>
       THEN Fails
       ELSE Continues(Front(stack), Append(altStack, Last(stack)), execStack, opCount + 1)

FromAltStack ==
    /\ Exec
    /\ Reads("OP_FROMALTSTACK", None)
    /\ IF altStack = << >>
       THEN Fails
       ELSE Continues(Append(stack, Last(altStack)), Front(altStack), execStack, opCount + 1)

(* _codehash and _code_separator stay as they are when the next script runs. *)
CodeSeparator ==
    /\ Exec
    /\ Reads("OP_CODESEPARATOR", None)
    /\ IF opCount = MaxOpCount
       THEN Fails
       ELSE /\ opCount' = opCount + 1
            /\ separator' = <<phase, read + 1>>
            /\ UNCHANGED <<phase, stack, altStack, execStack>>

----------------------------------------------------------------------------
Code == IF separator = None THEN <<phase, 0>> ELSE separator

(* A range from an iterator of one script to the end of another is          *)
(* undefined: its length may be refused, which fails the script; reading it *)
(* may crash; or no signature is good for what is read.                     *)
Stale == Code[1] # phase
StaleRange == Stale /\ \E p \in {"failed", "crashed"} : EndsAs(p)

(* The values below n are left, with the outcome of the check on top of     *)
(* them unless it was tested.                                               *)
Checked(n, good, verify, count) ==
    IF verify /\ ~good
    THEN Fails
    ELSE Continues(Below(stack, n) \o (IF verify THEN << >> ELSE <<FromBool(good)>>),
                   altStack, execStack, count)

CheckSig(op) ==
    /\ Exec
    /\ Reads(op, None)
    /\ IF Len(stack) < 2
       THEN Fails
       ELSE \/ StaleRange
            \/ Checked(2, ~Stale /\ checkSig(Top(stack, 2), Top(stack, 1), Code),
                       op = "OP_CHECKSIGVERIFY", opCount + 1)

CheckMultisig(op) ==
    /\ Exec
    /\ Reads(op, None)
    /\ IF ~MultisigReadable(stack)
       THEN Fails
       ELSE \/ StaleRange
            \/ Checked(Removed(stack),
                       SigsCount(stack) = 0 \/ (~Stale /\ Signed(Keys(stack), Sigs(stack), Code)),
                       op = "OP_CHECKMULTISIGVERIFY", opCount + 1 + KeysCount(stack))

Instruction ==
    \/ \E v \in Pushes \cup {K1, K2, Num(1), Num(2), <<"hash", K1>>, <<"hash", Redeem>>} :
           (fixed \/ v \in Pushes) /\ PushValue(v)
    \/ \E op \in Refused : Refuse(op)
    \/ \E op \in StackOps \cup OtherOps : Skip(op)
    \/ \E op \in StackOps : StackOp(op)
    \/ \E op \in {"OP_IF", "OP_NOTIF"} : If(op)
    \/ Else
    \/ EndIf
    \/ ToAltStack
    \/ FromAltStack
    \/ CodeSeparator
    \/ \E op \in {"OP_CHECKSIG", "OP_CHECKSIGVERIFY"} : CheckSig(op)
    \/ \E op \in {"OP_CHECKMULTISIG", "OP_CHECKMULTISIGVERIFY"} : CheckMultisig(op)

----------------------------------------------------------------------------
(* Transaction::verify, between the scripts *)

(* Erroneous: a conditional may stay open. *)
EndsOpen == stack # << >>

EndsWell == execStack = << >> /\ stack # << >>

AtEnd(p) == phase = p /\ script = << >>

Verdict(good) ==
    /\ EndsAs(IF good THEN "valid" ELSE "failed")
    /\ UNCHANGED <<kind, strict, fixed, script, free, read, pushOnly, stackCopy>>

(* The next script starts; the count is new, the rest stays. *)
Begins(p, s, standard, instructions) ==
    /\ phase' = p
    /\ stack' = s
    /\ fixed' = standard
    /\ script' = instructions
    /\ read' = 0 /\ opCount' = 0
    /\ UNCHANGED <<kind, strict, free, altStack, execStack, separator, pushOnly>>

EndSignature ==
    /\ AtEnd("signature")
    /\ IF EndsWell
       THEN stackCopy' = stack /\ Begins("output", stack, kind # "free", Standard[kind])
       ELSE Verdict(FALSE)

(* Erroneous: the script that was hashed runs on what the output's left. *)
RedeemOnResult(standard) ==
    /\ Begins("redeem", stack, standard, IF standard THEN PayToKey ELSE << >>)
    /\ UNCHANGED stackCopy

RunRedeem(standard) ==
    /\ Begins("redeem", Front(stackCopy), standard, IF standard THEN PayToKey ELSE << >>)
    /\ UNCHANGED stackCopy

EndOutput ==
    /\ AtEnd("output")
    /\ IF EndsWell /\ CastToBool(Last(stack)) /\ strict /\ kind = "scripthash" /\ pushOnly
       THEN \E standard \in BOOLEAN : RunRedeem(standard)
       ELSE Verdict(/\ EndsWell /\ CastToBool(Last(stack))
                    /\ ~(strict /\ kind = "scripthash"))

EndRedeem ==
    /\ AtEnd("redeem")
    /\ Verdict(EndsWell /\ CastToBool(Last(stack)))

Next ==
    \/ Instruction
    \/ EndSignature
    \/ EndOutput
    \/ EndRedeem

Spec == Init /\ [][Next]_vars

----------------------------------------------------------------------------
(* Each operation that moves values about makes of the top of the stack     *)
(* what the comment at it says, and leaves the rest, whatever the stack     *)
(* (Evaluator::eval, the comments of OP_2DROP to OP_TUCK).                  *)
StackOpsAsCommented ==
    \A op \in DOMAIN Needs :
        Len(stack) >= Needs[op] =>
            Moved(op, stack) =
                Below(stack, Needs[op]) \o
                [i \in DOMAIN Comment[op] |-> stack[Len(stack) - Needs[op] + Comment[op][i]]]

(* The limits hold between any two instructions, and the operations on the  *)
(* stack do what they say.                                                  *)
StackIsSound == TypeOK /\ StackOpsAsCommented

(* The one pass of OP_CHECKMULTISIG over the keys finds every way in which  *)
(* the signatures can be those of different keys in the same order: it      *)
(* succeeds if and only if there is one (Transaction.cpp, the loop that     *)
(* moves on to the next key whether or not it fits).                        *)
MultisigIsMatching ==
    MultisigReadable(stack) =>
        LET keys == Keys(stack)
            sigs == Sigs(stack)
        IN  Signed(keys, sigs, Code) <=>
            \E f \in [DOMAIN sigs -> DOMAIN keys] :
                /\ \A i, j \in DOMAIN sigs : i < j => f[i] < f[j]
                /\ \A i \in DOMAIN sigs : checkSig(sigs[i], keys[f[i]], Code)

IsSigOf(v, k, code) == v = <<"sig", k, code>>

(* No signature script, whatever it leaves in the evaluator that goes on to *)
(* run the output's script (open conditionals, the other stack, a code      *)
(* separator), makes a standard output spendable without a signature, of    *)
(* the script that asks for it, by a key that the output names              *)
(* (Transaction::verify, the same TransactionEvaluator for every script).   *)
OutputsAreSigned ==
    phase = "valid" =>
        LET s == stackCopy
            n == Len(s)
        IN  /\ kind = "pubkey" => IsSigOf(s[n], "k1", <<"output", 0>>)
            /\ kind = "pubkeyhash" => s[n] = K1 /\ IsSigOf(s[n - 1], "k1", <<"output", 0>>)
            /\ kind = "multisig" => \E k \in {"k1", "k2"} : IsSigOf(s[n], k, <<"output", 0>>)
            /\ kind = "scripthash" => s[n] = Redeem
            /\ kind = "scripthash" /\ strict /\ fixed => IsSigOf(s[n - 1], "k1", <<"redeem", 0>>)

(* Who pushes what a standard output asks for can spend it, whatever else   *)
(* was pushed before: no limit and nothing left by one script makes the     *)
(* next one fail (Transaction::verify, the copy of the stack that the       *)
(* hashed script runs on).                                                  *)
OwnersCanSpend ==
    (phase = "failed" /\ fixed /\ pushOnly /\ Len(stackCopy) + 4 <= MaxStack) =>
        LET s == stackCopy
            n == Len(s)
        IN  CASE kind = "pubkey" -> ~IsSigOf(s[n], "k1", <<"output", 0>>)
              [] kind = "pubkeyhash" ->
                     ~(n >= 2 /\ s[n] = K1 /\ IsSigOf(s[n - 1], "k1", <<"output", 0>>))
              [] kind = "multisig" ->
                     ~(n >= 2 /\ \E k \in {"k1", "k2"} : IsSigOf(s[n], k, <<"output", 0>>))
              [] kind = "scripthash" ->
                     ~(n >= 2 /\ s[n] = Redeem /\ (strict => IsSigOf(s[n - 1], "k1", <<"redeem", 0>>)))
=============================================================================
