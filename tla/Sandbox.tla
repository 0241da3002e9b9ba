-------------------------------- MODULE Sandbox --------------------------------
(***************************************************************************)
(* The execution boundary of src/databank/sandbox.py: SandboxContext,      *)
(* sandbox and execute, with SealedValue.unseal of models.py and the       *)
(* measuring of results of bitbudget.py.                                   *)
(*                                                                         *)
(* contexts are the tokens created so far, stack the `with sandbox(...)`   *)
(* blocks being executed, the innermost last (an algorithm is any          *)
(* callable, and may itself enter the sandbox), and crossed the results    *)
(* execute returned, with the bits it reported.  reads is a history        *)
(* variable: every token a record was unsealed with, and the blocks that   *)
(* were being executed at the time.  What happens between two callbacks is *)
(* one step: entering a block and unsealing, measuring a result and        *)
(* leaving the block.                                                      *)
(***************************************************************************)
EXTENDS Naturals, Sequences

CONSTANTS
  Algorithms,
  max_output_bits,  \* the cap every algorithm is registered with
  DomainSizes,      \* the sizes algorithms construct an EnumeratedOutcome with
  unseen(_),        \* how many of the sizes above 2^k math.log2 takes for 2^k
  MaxContexts       \* bound on the tokens created

ASSUME CapAssumption == max_output_bits \in [Algorithms -> Nat \ {0}]

\* The size 2^k + e, with e < 2^k, is written as its power k and its excess e.
Size(k, e) == [power |-> k, excess |-> e]

\* (Of the two alternatives, the first spares TLC large powers.)
ASSUME SizesAssumption ==
  /\ DomainSizes \subseteq [power : Nat, excess : Nat]
  /\ \A n \in DomainSizes : n.excess <= n.power \/ n.excess < 2^n.power

ASSUME LogAssumption ==
  /\ MaxContexts \in Nat
  /\ \A n \in DomainSizes \cup {Size(1, 0)} : unseen(n.power) \in Nat

VARIABLES contexts, stack, crossed, reads

vars == <<contexts, stack, crossed, reads>>

-----------------------------------------------------------------------------
(* Results and their size.                                                 *)

\* An EnumeratedOutcome of fewer than two outcomes is never constructed.
EnumeratedOutcome ==
  [kind : {"outcome"}, domain_size : {n \in DomainSizes : n.power >= 1}]

\* What an algorithm may return: a bool, an outcome, or anything else, such
\* as the plaintext it was given.
Result == EnumeratedOutcome \cup [kind : {"bool", "other"}]

\* In how many ways a bool or an outcome can turn out.
Outcomes(v) == IF v.kind = "bool" THEN Size(1, 0) ELSE v.domain_size

\* A plausible mistake: the logarithm is rounded down.
bits_rounded_down(v) == Outcomes(v).power

\* 1 for a bool, and math.ceil(math.log2(n)) for one of n outcomes: the float
\* is exact at a power of two, and too coarse to tell the first few sizes above
\* a large one from it.  (max(1, ...) adds nothing: the fewest outcomes are two.)
measure_bits(v) ==
  LET n == Outcomes(v)
  IN  IF n.excess <= unseen(n.power) THEN n.power ELSE n.power + 1

\* enforce returns; else it raises BitBudgetExceeded.
Enforced(v, max_bits) == v.kind # "other" /\ measure_bits(v) <= max_bits

-----------------------------------------------------------------------------
(* The steps.                                                              *)

Init ==
  /\ contexts = <<>>
  /\ stack = <<>>
  /\ crossed = {}
  /\ reads = {}

Open == {stack[i] : i \in DOMAIN stack}

Innermost == stack[Len(stack)]

\* A plausible mistake: any context will do.
UnsealsAny(c) == c \in DOMAIN contexts

\* unseal returns the payload to a caller with token c, else SealError.
Unseals(c) == c \in DOMAIN contexts /\ contexts[c].active

Read(c, open) == [context |-> c, open |-> open]

\* execute enters its block and unseals the record for the algorithm.
Execute(alg) ==
  LET c == Len(contexts) + 1
  IN  /\ c <= MaxContexts
      /\ contexts' = Append(contexts, [algorithm_id |-> alg, active |-> TRUE])
      /\ stack' = Append(stack, c)
      /\ reads' = reads \cup {Read(c, Open \cup {c})}
      /\ UNCHANGED crossed

\* Any code tries token c, at any time; without success it gets SealError.
Unseal(c) ==
  /\ reads' = IF Unseals(c) THEN reads \cup {Read(c, Open)} ELSE reads
  /\ UNCHANGED <<contexts, stack, crossed>>

\* A plausible mistake: a yield without try and finally.
LeaveUnrevoked ==
  /\ stack # <<>>
  /\ stack' = SubSeq(stack, 1, Len(stack) - 1)
  /\ UNCHANGED <<contexts, reads>>

\* The innermost block is left, by a return or an exception; `finally`
\* revokes its token.
Leave ==
  /\ stack # <<>>
  /\ contexts' = [contexts EXCEPT ![Innermost].active = FALSE]
  /\ stack' = SubSeq(stack, 1, Len(stack) - 1)
  /\ UNCHANGED reads

\* The algorithm returns v, and the cap has room for it.
Return(v) ==
  LET alg == contexts[Innermost].algorithm_id
  IN  /\ Leave
      /\ Enforced(v, max_output_bits[alg])
      /\ crossed' = crossed \cup
           {[algorithm_id |-> alg, result |-> v, bits |-> measure_bits(v)]}

\* enforce rejects what the algorithm returns.
Exceed(v) ==
  /\ Leave
  /\ ~Enforced(v, max_output_bits[contexts[Innermost].algorithm_id])
  /\ UNCHANGED crossed

\* The algorithm raises AlgorithmRefusal, SealError or anything else.
Raise == Leave /\ UNCHANGED crossed

Next ==
  \/ \E alg \in Algorithms : Execute(alg)
  \/ \E c \in 1..MaxContexts : Unseal(c)
  \/ \E v \in Result : Return(v) \/ Exceed(v)
  \/ Raise

Spec == Init /\ [][Next]_vars

-----------------------------------------------------------------------------
(* Properties.                                                             *)

(***************************************************************************)
(* "The context is revoked when execution ends": on every way out of every *)
(* block, nested ones included, so that the live tokens are those of the   *)
(* blocks being executed.                                                  *)
(***************************************************************************)
LiveTokensAreOpen == {c \in DOMAIN contexts : contexts[c].active} = Open

(***************************************************************************)
(* "The record is unsealed only inside an active sandbox context": every   *)
(* plaintext that was ever read was read during the execution whose token  *)
(* was shown, also with tokens somebody kept.                              *)
(***************************************************************************)
ReadInsideOnly == \A x \in reads : x.context \in x.open

\* b bits tell n outcomes apart: n <= 2^b.
Tells(b, n) == n.power < b \/ (n.power = b /\ n.excess = 0)

(***************************************************************************)
(* "The result is measured inside the boundary": the bits reported with    *)
(* what crosses tell all the ways apart in which it can turn out, one bit  *)
(* less would not do, and the algorithm's declared budget suffices too.    *)
(***************************************************************************)
CrossedIsMeasured ==
  \A x \in crossed :
    /\ x.result.kind # "other"
    /\ LET n == Outcomes(x.result)
       IN  /\ Tells(x.bits, n) /\ ~Tells(x.bits - 1, n)
           /\ Tells(max_output_bits[x.algorithm_id], n)

===============================================================================
