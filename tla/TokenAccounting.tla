--------------------------- MODULE TokenAccounting ---------------------------
(***************************************************************************)
(* From the token counts a provider reports to non-overlapping buckets, and *)
(* from the buckets to a cost.  Pure functions: counts are any int64, also  *)
(* negative and contradictory ones; rates are integers instead of floating *)
(* point numbers per million, so rounding is left out.                     *)
(***************************************************************************)
EXTENDS Integers

CONSTANT MaxInt   \* math.MaxInt64

(* How a provider nests its counts: whether cached input is part of the      *)
(* input and reasoning part of the output.                                   *)
Semantics == {"unknown", "subset", "independent", "separate"}

Int64 == (-MaxInt - 1)..MaxInt
Count == 0..MaxInt

(* The counts of a usage record; cached is the older, undivided cache count. *)
Detail == [input : Int64, output : Int64, reasoning : Int64, cacheRead : Int64,
           cacheWrite : Int64, cached : Int64, total : Int64]

Breakdown == [quality : {"", "complete", "unclassified", "inconsistent"}, total : Count,
              inputTotal : Count, uncached : Count, cacheRead : Count, cacheWrite : Count,
              outputTotal : Count, nonReasoning : Count, reasoning : Count,
              unclassified : Count]

-----------------------------------------------------------------------------
(* Sums fail on a negative term and beyond MaxInt; a failed sum makes every  *)
(* sum it enters fail.                                                       *)
NoSum == -1
Sum(a, b) == IF a >= 0 /\ b >= 0 /\ a + b <= MaxInt THEN a + b ELSE NoSum
Larger(a, b) == IF a >= b THEN a ELSE b

(* The reported total if it agrees with the buckets, which it also does when *)
(* it is absent.                                                             *)
Resolved(total, expected) ==
    IF total \in {0, expected} THEN expected ELSE NoSum

(* What was at least used, whichever way the counts nest. *)
LowerBound(d) ==
    LET cache == Sum(d.cacheRead, d.cacheWrite) IN
    IF cache = NoSum \/ d.input < 0 \/ d.output < 0 \/ d.reasoning < 0 \/ d.cached < 0
    THEN NoSum
    ELSE Sum(Larger(d.input, Larger(cache, d.cached)), Larger(d.output, d.reasoning))

Unmeasured(quality, total) ==
    [quality |-> quality, total |-> total, inputTotal |-> 0, uncached |-> 0, cacheRead |-> 0,
     cacheWrite |-> 0, outputTotal |-> 0, nonReasoning |-> 0, reasoning |-> 0,
     unclassified |-> total]

NoUsage == Unmeasured("", 0)

(* Nothing is measured; the total is the provider's, or else what was summed. *)
Inconsistent(total, computed) ==
    Unmeasured("inconsistent", IF total > 0 THEN total ELSE Larger(computed, 0))

Unclassified(total) ==
    IF total < 0 THEN Inconsistent(total, 0)
    ELSE Unmeasured(IF total = 0 THEN "complete" ELSE "unclassified", total)

Complete(uncached, cacheRead, cacheWrite, nonReasoning, reasoning, total) ==
    [quality |-> "complete", total |-> total,
     inputTotal |-> uncached + cacheRead + cacheWrite,
     uncached |-> uncached, cacheRead |-> cacheRead, cacheWrite |-> cacheWrite,
     outputTotal |-> nonReasoning + reasoning,
     nonReasoning |-> nonReasoning, reasoning |-> reasoning, unclassified |-> 0]

-----------------------------------------------------------------------------
(* Cached input is part of the input, reasoning part of the output.  Counts  *)
(* whose parent is absent stay in the remainder.                             *)
SubsetBreakdown(d) ==
    LET cacheRead == IF d.input = 0 THEN 0 ELSE d.cacheRead
        cacheWrite == IF d.input = 0 THEN 0 ELSE d.cacheWrite
        reasoning == IF d.output = 0 THEN 0 ELSE d.reasoning
        expected == Sum(d.input, d.output)
        cache == Sum(cacheRead, cacheWrite)
        measured == Complete(d.input - cache, cacheRead, cacheWrite,
                             d.output - reasoning, reasoning, expected)
        contradiction ==
            \/ expected = NoSum \/ cache = NoSum \/ cache > d.input
            \/ reasoning < 0 \/ reasoning > d.output
            \/ d.total < 0 \/ (d.total > 0 /\ d.total < expected)
            \/ (d.total > expected /\ d.input > 0 /\ d.output > 0)
    IN  IF contradiction THEN Inconsistent(d.total, expected)
        ELSE IF d.total <= expected THEN measured
        ELSE [measured EXCEPT !.quality = "unclassified", !.total = d.total,
                              !.unclassified = d.total - expected]

(* Four disjoint buckets, of which the last may or may not hold reasoning. *)
BucketsBreakdown(d, nonReasoning) ==
    LET expected == Sum(Sum(Sum(d.input, d.cacheRead), d.cacheWrite),
                        Sum(nonReasoning, d.reasoning))
        total == Resolved(d.total, expected)
    IN  IF expected = NoSum \/ total = NoSum THEN Inconsistent(d.total, expected)
        ELSE Complete(d.input, d.cacheRead, d.cacheWrite, nonReasoning, d.reasoning, total)

(* Cached input is beside the input; whether reasoning is part of the output *)
(* is told by the total.                                                     *)
IndependentBreakdown(d) ==
    LET separate == Sum(Sum(Sum(Sum(d.input, d.cacheRead), d.cacheWrite), d.output), d.reasoning)
    IN  IF separate = NoSum THEN Inconsistent(d.total, 0)
        ELSE IF d.total = separate THEN BucketsBreakdown(d, d.output)
        ELSE IF d.reasoning > d.output THEN Inconsistent(d.total, 0)
        ELSE BucketsBreakdown(d, d.output - d.reasoning)

(* Cached input is part of the input, reasoning is beside the output. *)
SeparateReasoningBreakdown(d) ==
    LET cache == Sum(d.cacheRead, d.cacheWrite)
        expected == Sum(d.input, Sum(d.output, d.reasoning))
        total == Resolved(d.total, expected)
    IN  IF d.input < 0 \/ cache = NoSum \/ cache > d.input THEN Inconsistent(d.total, 0)
        ELSE IF expected = NoSum \/ total = NoSum THEN Inconsistent(d.total, expected)
        ELSE Complete(d.input - cache, d.cacheRead, d.cacheWrite, d.output, d.reasoning, total)

UnknownBreakdown(d) ==
    LET bound == LowerBound(d)
    IN  IF bound = NoSum THEN Inconsistent(d.total, 0)
        ELSE Unclassified(IF d.total = 0 THEN bound ELSE d.total)

-----------------------------------------------------------------------------
HasTokens(d) ==
    \/ d.input # 0 \/ d.output # 0 \/ d.reasoning # 0 \/ d.cached # 0
    \/ d.cacheRead # 0 \/ d.cacheWrite # 0 \/ d.total # 0

TotalOnly(d) ==
    /\ d.total > 0
    /\ ~HasTokens([d EXCEPT !.total = 0])

(* Only counts that are parts of an input or an output that is absent. *)
PartsOnly(d) == d.total = 0 /\ d.input = 0 /\ d.output = 0

(* Such parts cannot be placed, except where they are buckets of their own. *)
Unplaced(d, semantics) ==
    \/ semantics \in {"unknown", "subset"}
    \/ semantics = "separate" /\ (d.cacheRead > 0 \/ d.cacheWrite > 0 \/ d.cached > 0)

UsageBreakdown(d, semantics) ==
    LET bound == LowerBound(d) IN
    CASE ~HasTokens(d) -> NoUsage
      [] TotalOnly(d) /\ semantics \in {"subset", "unknown"} -> Unclassified(d.total)
      [] PartsOnly(d) /\ HasTokens(d) /\ bound = NoSum -> Inconsistent(d.total, 0)
      [] PartsOnly(d) /\ bound > 0 /\ Unplaced(d, semantics) -> Unclassified(bound)
      [] OTHER -> CASE semantics = "subset" -> SubsetBreakdown(d)
                    [] semantics = "independent" -> IndependentBreakdown(d)
                    [] semantics = "separate" -> SeparateReasoningBreakdown(d)
                    [] semantics = "unknown" -> UnknownBreakdown(d)

(* The names of a provider and of its executor, as the sets of markers they  *)
(* contain; the first rule that matches decides.                             *)
UsageSemantics(markers) ==
    IF "compatible" \in markers THEN "subset"
    ELSE IF "claude" \in markers THEN "independent"
    ELSE IF "gemini" \in markers THEN "separate"
    ELSE IF "openai" \in markers THEN "subset"
    ELSE "unknown"

-----------------------------------------------------------------------------
(* TokenBreakdown.Valid: what the rest of the program accepts as usage. *)
Valid(b) ==
    /\ b.quality # ""
    /\ b.inputTotal = b.uncached + b.cacheRead + b.cacheWrite
    /\ b.outputTotal = b.nonReasoning + b.reasoning
    /\ b.total = b.inputTotal + b.outputTotal + b.unclassified
    /\ b.quality = "complete" => b.unclassified = 0
    /\ b \in Breakdown

Billable(b) == Valid(b) /\ b.quality = "complete"

(* recordUsage: the tokens a record counts in the quota windows of its key. *)
QuotaTokens(b) == IF Valid(b) /\ b.quality # "inconsistent" THEN b.total ELSE 0

-----------------------------------------------------------------------------
CONSTANT Unset   \* an optional rate that is not given

Rate == Nat
OptionalRate == Rate \union {Unset}
Rates == [input : Rate, output : Rate, cacheRead : OptionalRate, cacheWrite : OptionalRate]
Price == [input : Rate, output : Rate, cacheRead : Rate, cacheWrite : Rate]

(* Cache rates that are not given are the input rate of the same tier. *)
Resolve(r) ==
    [input |-> r.input, output |-> r.output,
     cacheRead |-> IF r.cacheRead = Unset THEN r.input ELSE r.cacheRead,
     cacheWrite |-> IF r.cacheWrite = Unset THEN r.input ELSE r.cacheWrite]

PerToken(tokens, rate) == IF tokens <= 0 \/ rate = 0 THEN 0 ELSE tokens * rate

(* The tier is chosen once per request, by the size of its whole input. *)
Applied(b, rates, long, threshold) ==
    IF long # Unset /\ b.inputTotal > threshold THEN Resolve(long) ELSE Resolve(rates)

TotalCost(b, p) ==
    PerToken(b.uncached, p.input) + PerToken(b.cacheRead, p.cacheRead)
      + PerToken(b.cacheWrite, p.cacheWrite) + PerToken(b.outputTotal, p.output)

ComputeCost(b, rates, long, threshold) ==
    IF Billable(b) THEN TotalCost(b, Applied(b, rates, long, threshold)) ELSE 0

-----------------------------------------------------------------------------
(* What usage.go promises of every breakdown: unless nothing was reported,   *)
(* it passes Valid, so the buckets are disjoint, add up without overflow and *)
(* a record is never dropped because of contradictory counts.                *)
EveryUsageIsValid(d, semantics) ==
    HasTokens(d) => Valid(UsageBreakdown(d, semantics))

(* Usage that is billed never contradicts a total the provider reported. *)
ReportedTotalStands(d, semantics) ==
    LET b == UsageBreakdown(d, semantics)
    IN  Billable(b) => d.total \in {0, b.total}

(* Reported usage is taken for measured as zero, and so billed at nothing,   *)
(* only where the one count reported is the undivided cache count of a       *)
(* provider that reports its caches separately.                              *)
NeverMeasuredAsZero(d, semantics) ==
    LET b == UsageBreakdown(d, semantics)
    IN  HasTokens(d) /\ Billable(b) /\ b.total = 0 =>
            semantics = "independent" /\ ~HasTokens([d EXCEPT !.cached = 0])

(* At one rate for everything a billable breakdown costs that rate per token *)
(* of its total: each token is billed in exactly one bucket, none in two.    *)
BilledOnce(b, rate) ==
    LET flat == [input |-> rate, output |-> rate, cacheRead |-> Unset, cacheWrite |-> Unset]
    IN  Billable(b) => ComputeCost(b, flat, Unset, 0) = rate * b.total

=============================================================================
