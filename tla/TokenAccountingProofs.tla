------------------------ MODULE TokenAccountingProofs ------------------------
(***************************************************************************)
(* What the accounting of token counts guarantees for every count a        *)
(* provider can report and every size of integers.                         *)
(***************************************************************************)
EXTENDS TokenAccounting, Functions, FiniteSetTheorems, WellFoundedInduction, TLAPS

(* A sum that succeeds is exact, and its terms were counts. *)
LEMMA SumFacts ==
    ASSUME NEW a \in Int, NEW b \in Int, MaxInt \in Nat
    PROVE  /\ Sum(a, b) \in Int
           /\ Sum(a, b) <= MaxInt
           /\ Sum(a, b) # NoSum => a >= 0 /\ b >= 0 /\ Sum(a, b) = a + b
           /\ Sum(a, b) >= 0 => a >= 0 /\ b >= 0 /\ Sum(a, b) = a + b
  BY DEF Sum, NoSum

(* Breakdowns that measure nothing are valid for every total that fits. *)
LEMMA UnmeasuredValid ==
    ASSUME MaxInt \in Nat, NEW t \in Count, NEW q \in {"complete", "unclassified", "inconsistent"},
           q = "complete" => t = 0
    PROVE  Valid(Unmeasured(q, t))
  <1> DEFINE b == Unmeasured(q, t)
  <1>1. /\ b.quality = q /\ b.total = t /\ b.inputTotal = 0
        /\ b.uncached = 0 /\ b.cacheRead = 0 /\ b.cacheWrite = 0
        /\ b.outputTotal = 0 /\ b.nonReasoning = 0 /\ b.reasoning = 0 /\ b.unclassified = t
    BY DEF Unmeasured
  <1>2. b \in Breakdown
    <2>1. 0 \in Count
      BY DEF Count
    <2>2. q \in {"", "complete", "unclassified", "inconsistent"}
      OBVIOUS
    <2> QED
      BY <2>1, <2>2 DEF Unmeasured, Breakdown
  <1>3. t \in Int
    BY DEF Count
  <1>4. q # "" /\ (q = "complete" => t = 0)
    OBVIOUS
  <1> HIDE DEF b
  <1>5. /\ b.inputTotal = b.uncached + b.cacheRead + b.cacheWrite
        /\ b.outputTotal = b.nonReasoning + b.reasoning
        /\ b.total = b.inputTotal + b.outputTotal + b.unclassified
    BY <1>1, <1>3
  <1>6. b.quality # "" /\ (b.quality = "complete" => b.unclassified = 0)
    BY <1>1, <1>4
  <1>7. Valid(b)
    BY <1>2, <1>5, <1>6 DEF Valid
  <1> QED
    BY <1>7 DEF b

LEMMA InconsistentValid ==
    ASSUME MaxInt \in Nat, NEW t \in Int, t <= MaxInt, NEW c \in Int, c <= MaxInt
    PROVE  Valid(Inconsistent(t, c)) /\ Inconsistent(t, c).quality = "inconsistent"
  <1> DEFINE u == IF t > 0 THEN t ELSE Larger(c, 0)
  <1>1. u \in Count
    BY DEF Count, Larger
  <1>2. Inconsistent(t, c) = Unmeasured("inconsistent", u)
    BY DEF Inconsistent
  <1>3. Unmeasured("inconsistent", u).quality = "inconsistent"
    BY DEF Unmeasured
  <1> HIDE DEF u
  <1> QED
    BY <1>1, <1>2, <1>3, UnmeasuredValid

(* Zero tokens are a complete measurement of nothing. *)
LEMMA UnclassifiedValid ==
    ASSUME MaxInt \in Nat, NEW t \in Int, t <= MaxInt
    PROVE  /\ Valid(Unclassified(t))
           /\ Unclassified(t).quality = "complete" => t = 0
           /\ Unclassified(t).quality # "inconsistent" => Unclassified(t).total = t
  <1>1. CASE t < 0
    <2>1. Unclassified(t) = Inconsistent(t, 0)
      BY <1>1 DEF Unclassified
    <2> QED
      BY <2>1, InconsistentValid
  <1>2. CASE t = 0
    <2>1. Unclassified(t) = Unmeasured("complete", t)
      BY <1>2 DEF Unclassified
    <2>2. Unmeasured("complete", t).quality = "complete" /\ Unmeasured("complete", t).total = t
      BY DEF Unmeasured
    <2>3. t \in Count
      BY <1>2 DEF Count
    <2> QED
      BY <1>2, <2>1, <2>2, <2>3, UnmeasuredValid
  <1>3. CASE t > 0
    <2>1. Unclassified(t) = Unmeasured("unclassified", t)
      BY <1>3 DEF Unclassified
    <2>2. Unmeasured("unclassified", t).quality = "unclassified"
          /\ Unmeasured("unclassified", t).total = t
      BY DEF Unmeasured
    <2>3. t \in Count
      BY <1>3 DEF Count
    <2> QED
      BY <2>1, <2>2, <2>3, UnmeasuredValid
  <1> QED
    BY <1>1, <1>2, <1>3

(* Non-negative buckets whose sum is the total make a complete breakdown. *)
LEMMA CompleteValid ==
    ASSUME MaxInt \in Nat, NEW b,
           b = Complete(b.uncached, b.cacheRead, b.cacheWrite, b.nonReasoning, b.reasoning,
                        b.total),
           b.uncached \in Nat, b.cacheRead \in Nat, b.cacheWrite \in Nat,
           b.nonReasoning \in Nat, b.reasoning \in Nat, b.total \in Int,
           b.total = b.uncached + b.cacheRead + b.cacheWrite + b.nonReasoning + b.reasoning,
           b.total <= MaxInt
    PROVE  Valid(b)
  <1>1. /\ b.quality = "complete" /\ b.inputTotal = b.uncached + b.cacheRead + b.cacheWrite
        /\ b.outputTotal = b.nonReasoning + b.reasoning /\ b.unclassified = 0
    BY DEF Complete
  <1>2. /\ b.total \in Count /\ b.uncached \in Count /\ b.cacheRead \in Count
        /\ b.cacheWrite \in Count /\ b.nonReasoning \in Count /\ b.reasoning \in Count
        /\ b.inputTotal \in Count /\ b.outputTotal \in Count /\ b.unclassified \in Count
    BY <1>1 DEF Count
  <1>3. b \in Breakdown
    BY <1>1, <1>2 DEF Complete, Breakdown
  <1>4. b.total = b.inputTotal + b.outputTotal + b.unclassified
    BY <1>1
  <1>5. Valid(b)
    BY <1>1, <1>3, <1>4 DEF Valid
  <1> QED
    BY <1>5

LEMMA DetailFields ==
    ASSUME MaxInt \in Nat, NEW d \in Detail
    PROVE  /\ d.input \in Int /\ d.output \in Int /\ d.reasoning \in Int /\ d.cacheRead \in Int
           /\ d.cacheWrite \in Int /\ d.cached \in Int /\ d.total \in Int
           /\ d.total <= MaxInt
  BY DEF Detail, Int64

(* What every way of nesting counts yields: valid, and, where it is complete, *)
(* in agreement with a total the provider reported.                          *)
Sound(b, total) == Valid(b) /\ (b.quality = "complete" => total \in {0, b.total})

LEMMA SubsetSound ==
    ASSUME MaxInt \in Nat, NEW d \in Detail
    PROVE  Sound(SubsetBreakdown(d), d.total)
  <1>0. /\ d.input \in Int /\ d.output \in Int /\ d.reasoning \in Int /\ d.cacheRead \in Int
        /\ d.cacheWrite \in Int /\ d.total \in Int /\ d.total <= MaxInt
    BY DetailFields
  <1>1. PICK cr \in Int : cr = IF d.input = 0 THEN 0 ELSE d.cacheRead
    BY <1>0
  <1>2. PICK cw \in Int : cw = IF d.input = 0 THEN 0 ELSE d.cacheWrite
    BY <1>0
  <1>3. PICK rs \in Int : rs = IF d.output = 0 THEN 0 ELSE d.reasoning
    BY <1>0
  <1>4. PICK e \in Int : e = Sum(d.input, d.output) /\ e <= MaxInt
    BY <1>0, SumFacts
  <1>5. PICK c \in Int : c = Sum(cr, cw)
    BY SumFacts
  <1> DEFINE bad == \/ e = NoSum \/ c = NoSum \/ c > d.input
                    \/ rs < 0 \/ rs > d.output
                    \/ d.total < 0 \/ (d.total > 0 /\ d.total < e)
                    \/ (d.total > e /\ d.input > 0 /\ d.output > 0)
             m == Complete(d.input - c, cr, cw, d.output - rs, rs, e)
             rest == [m EXCEPT !.quality = "unclassified", !.total = d.total,
                               !.unclassified = d.total - e]
  <1>6. SubsetBreakdown(d) = IF bad THEN Inconsistent(d.total, e)
                             ELSE IF d.total <= e THEN m ELSE rest
    BY <1>1, <1>2, <1>3, <1>4, <1>5 DEF SubsetBreakdown
  <1>7. CASE bad
    <2>1. SubsetBreakdown(d) = Inconsistent(d.total, e)
      BY <1>6, <1>7
    <2>2. Valid(Inconsistent(d.total, e)) /\ Inconsistent(d.total, e).quality = "inconsistent"
      BY <1>0, <1>4, InconsistentValid
    <2> QED
      BY <2>1, <2>2 DEF Sound
  <1>8. CASE ~bad
    <2>1. d.input >= 0 /\ d.output >= 0 /\ e = d.input + d.output
      BY <1>0, <1>4, <1>8, SumFacts
    <2>2. cr >= 0 /\ cw >= 0 /\ c = cr + cw
      BY <1>5, <1>8, SumFacts
    <2> c <= d.input
      BY <1>0, <1>8
    <2>3. rs >= 0 /\ rs <= d.output /\ d.total >= 0
      BY <1>0, <1>8
    <2>4. d.total \in {0, e} \/ d.total > e
      BY <1>0, <1>8, <2>1
    <2>5. d.input - c \in Nat /\ cr \in Nat /\ cw \in Nat /\ d.output - rs \in Nat /\ rs \in Nat
      BY <1>0, <2>1, <2>2, <2>3
    <2>6. e = (d.input - c) + cr + cw + (d.output - rs) + rs
      BY <1>0, <2>1, <2>2
    <2>7. Valid(m) /\ m.total = e
      <3>1. /\ m.total = e /\ m.uncached = d.input - c /\ m.cacheRead = cr /\ m.cacheWrite = cw
            /\ m.nonReasoning = d.output - rs /\ m.reasoning = rs
        BY DEF Complete
      <3>2. PICK b : b = m
        OBVIOUS
      <3>3. b = Complete(b.uncached, b.cacheRead, b.cacheWrite, b.nonReasoning, b.reasoning,
                         b.total)
        BY <3>1, <3>2
      <3> HIDE DEF m
      <3> QED
        BY <1>4, <2>5, <2>6, <3>1, <3>2, <3>3, CompleteValid
    <2>8. CASE d.total <= e
      <3>1. SubsetBreakdown(d) = m
        BY <1>6, <1>8, <2>8
      <3>2. d.total \in {0, m.total}
        BY <1>0, <2>4, <2>7, <2>8
      <3> QED
        BY <2>7, <3>1, <3>2 DEF Sound
    <2>9. CASE d.total > e
      <3>1. SubsetBreakdown(d) = rest
        BY <1>0, <1>6, <1>8, <2>9
      <3>2. /\ rest.quality = "unclassified" /\ rest.total = d.total
            /\ rest.unclassified = d.total - e
            /\ rest.inputTotal = (d.input - c) + cr + cw /\ rest.outputTotal = (d.output - rs) + rs
            /\ rest.uncached = d.input - c /\ rest.cacheRead = cr /\ rest.cacheWrite = cw
            /\ rest.nonReasoning = d.output - rs /\ rest.reasoning = rs
        BY DEF Complete
      <3>3. m \in Breakdown
        BY <2>7 DEF Valid
      <3>4. d.total \in Count /\ d.total - e \in Count
        BY <1>0, <2>1, <2>9 DEF Count
      <3>5. rest \in Breakdown
        BY <3>3, <3>4 DEF Breakdown
      <3>6. d.total = rest.inputTotal + rest.outputTotal + rest.unclassified
        BY <1>0, <2>1, <2>2, <2>3, <3>2
      <3> HIDE DEF rest
      <3>7. Valid(rest)
        BY <3>2, <3>5, <3>6 DEF Valid
      <3> QED
        BY <3>1, <3>2, <3>7 DEF Sound
    <2> QED
      BY <1>0, <2>8, <2>9
  <1> QED
    BY <1>7, <1>8

LEMMA BucketsSound ==
    ASSUME MaxInt \in Nat, NEW d \in Detail, NEW n \in Int
    PROVE  Sound(BucketsBreakdown(d, n), d.total)
  <1>0. /\ d.input \in Int /\ d.output \in Int /\ d.reasoning \in Int /\ d.cacheRead \in Int
        /\ d.cacheWrite \in Int /\ d.total \in Int /\ d.total <= MaxInt
    BY DetailFields
  <1>1. PICK a \in Int : a = Sum(d.input, d.cacheRead)
    BY <1>0, SumFacts
  <1>2. PICK i \in Int : i = Sum(a, d.cacheWrite)
    BY <1>0, SumFacts
  <1>3. PICK o \in Int : o = Sum(n, d.reasoning)
    BY <1>0, SumFacts
  <1>4. PICK e \in Int : e = Sum(i, o) /\ e <= MaxInt
    BY <1>0, SumFacts
  <1>5. PICK t \in Int : t = Resolved(d.total, e) /\ (t # NoSum => t = e /\ d.total \in {0, e})
    BY <1>0 DEF Resolved, NoSum
  <1>6. BucketsBreakdown(d, n) =
            IF e = NoSum \/ t = NoSum THEN Inconsistent(d.total, e)
            ELSE Complete(d.input, d.cacheRead, d.cacheWrite, n, d.reasoning, t)
    BY <1>1, <1>2, <1>3, <1>4, <1>5 DEF BucketsBreakdown
  <1>7. CASE e = NoSum \/ t = NoSum
    <2>1. Valid(Inconsistent(d.total, e)) /\ Inconsistent(d.total, e).quality = "inconsistent"
      BY <1>0, <1>4, InconsistentValid
    <2> QED
      BY <1>6, <1>7, <2>1 DEF Sound
  <1>8. CASE ~(e = NoSum \/ t = NoSum)
    <2>1. i >= 0 /\ o >= 0 /\ e = i + o
      BY <1>4, <1>8, SumFacts
    <2>2. n >= 0 /\ d.reasoning >= 0 /\ o = n + d.reasoning
      BY <1>0, <1>3, <2>1, SumFacts
    <2>3. a >= 0 /\ d.cacheWrite >= 0 /\ i = a + d.cacheWrite
      BY <1>0, <1>2, <2>1, SumFacts
    <2>4. d.input >= 0 /\ d.cacheRead >= 0 /\ a = d.input + d.cacheRead
      BY <1>0, <1>1, <2>3, SumFacts
    <2> DEFINE b == Complete(d.input, d.cacheRead, d.cacheWrite, n, d.reasoning, t)
    <2>5. d.input \in Nat /\ d.cacheRead \in Nat /\ d.cacheWrite \in Nat /\ n \in Nat
          /\ d.reasoning \in Nat /\ t <= MaxInt
          /\ t = d.input + d.cacheRead + d.cacheWrite + n + d.reasoning
      BY <1>0, <1>4, <1>5, <1>8, <2>1, <2>2, <2>3, <2>4
    <2>6. Valid(b) /\ b.total = t
      <3>1. /\ b.total = t /\ b.uncached = d.input /\ b.cacheRead = d.cacheRead
            /\ b.cacheWrite = d.cacheWrite /\ b.nonReasoning = n /\ b.reasoning = d.reasoning
        BY DEF Complete
      <3>2. PICK c : c = b
        OBVIOUS
      <3>3. c = Complete(c.uncached, c.cacheRead, c.cacheWrite, c.nonReasoning, c.reasoning,
                         c.total)
        BY <3>1, <3>2
      <3> HIDE DEF b
      <3> QED
        BY <2>5, <3>1, <3>2, <3>3, CompleteValid
    <2>7. BucketsBreakdown(d, n) = b
      BY <1>6, <1>8
    <2> HIDE DEF b
    <2> QED
      BY <1>5, <1>8, <2>6, <2>7 DEF Sound
  <1> QED
    BY <1>7, <1>8

LEMMA IndependentSound ==
    ASSUME MaxInt \in Nat, NEW d \in Detail
    PROVE  Sound(IndependentBreakdown(d), d.total)
  <1>0. d.output \in Int /\ d.reasoning \in Int /\ d.total \in Int /\ d.total <= MaxInt
    BY DetailFields
  <1>1. Sound(Inconsistent(d.total, 0), d.total)
    BY <1>0, InconsistentValid DEF Sound
  <1>2. d.output - d.reasoning \in Int
    BY <1>0
  <1>3. Sound(BucketsBreakdown(d, d.output), d.total)
        /\ Sound(BucketsBreakdown(d, d.output - d.reasoning), d.total)
    BY <1>0, <1>2, BucketsSound
  <1>4. \/ IndependentBreakdown(d) = Inconsistent(d.total, 0)
        \/ IndependentBreakdown(d) = BucketsBreakdown(d, d.output)
        \/ IndependentBreakdown(d) = BucketsBreakdown(d, d.output - d.reasoning)
    BY DEF IndependentBreakdown
  <1> QED
    BY <1>1, <1>3, <1>4

LEMMA SeparateSound ==
    ASSUME MaxInt \in Nat, NEW d \in Detail
    PROVE  Sound(SeparateReasoningBreakdown(d), d.total)
  <1>0. /\ d.input \in Int /\ d.output \in Int /\ d.reasoning \in Int /\ d.cacheRead \in Int
        /\ d.cacheWrite \in Int /\ d.total \in Int /\ d.total <= MaxInt
    BY DetailFields
  <1>1. PICK c \in Int : c = Sum(d.cacheRead, d.cacheWrite)
    BY <1>0, SumFacts
  <1>2. PICK o \in Int : o = Sum(d.output, d.reasoning)
    BY <1>0, SumFacts
  <1>3. PICK e \in Int : e = Sum(d.input, o) /\ e <= MaxInt
    BY <1>0, SumFacts
  <1>4. PICK t \in Int : t = Resolved(d.total, e) /\ (t # NoSum => t = e /\ d.total \in {0, e})
    BY <1>0 DEF Resolved, NoSum
  <1> DEFINE b == Complete(d.input - c, d.cacheRead, d.cacheWrite, d.output, d.reasoning, t)
  <1>5. SeparateReasoningBreakdown(d) =
            IF d.input < 0 \/ c = NoSum \/ c > d.input THEN Inconsistent(d.total, 0)
            ELSE IF e = NoSum \/ t = NoSum THEN Inconsistent(d.total, e) ELSE b
    BY <1>1, <1>2, <1>3, <1>4 DEF SeparateReasoningBreakdown
  <1>6. Sound(Inconsistent(d.total, 0), d.total) /\ Sound(Inconsistent(d.total, e), d.total)
    BY <1>0, <1>3, InconsistentValid DEF Sound
  <1>7. ASSUME d.input >= 0, c # NoSum, c <= d.input, e # NoSum, t # NoSum
        PROVE  Sound(b, d.total)
    <2>1. d.cacheRead >= 0 /\ d.cacheWrite >= 0 /\ c = d.cacheRead + d.cacheWrite
      BY <1>0, <1>1, <1>7, SumFacts
    <2>2. o >= 0 /\ e = d.input + o
      BY <1>0, <1>3, <1>7, SumFacts
    <2>3. d.output >= 0 /\ d.reasoning >= 0 /\ o = d.output + d.reasoning
      BY <1>0, <1>2, <2>2, SumFacts
    <2>4. /\ d.input - c \in Nat /\ d.cacheRead \in Nat /\ d.cacheWrite \in Nat
          /\ d.output \in Nat /\ d.reasoning \in Nat /\ t <= MaxInt
          /\ t = (d.input - c) + d.cacheRead + d.cacheWrite + d.output + d.reasoning
      BY <1>0, <1>3, <1>4, <1>7, <2>1, <2>2, <2>3
    <2>5. Valid(b) /\ b.total = t
      <3>1. /\ b.total = t /\ b.uncached = d.input - c /\ b.cacheRead = d.cacheRead
            /\ b.cacheWrite = d.cacheWrite /\ b.nonReasoning = d.output
            /\ b.reasoning = d.reasoning
        BY DEF Complete
      <3>2. PICK m : m = b
        OBVIOUS
      <3>3. m = Complete(m.uncached, m.cacheRead, m.cacheWrite, m.nonReasoning, m.reasoning,
                         m.total)
        BY <3>1, <3>2
      <3> HIDE DEF b
      <3> QED
        BY <2>4, <3>1, <3>2, <3>3, CompleteValid
    <2> HIDE DEF b
    <2> QED
      BY <1>4, <1>7, <2>5 DEF Sound
  <1> HIDE DEF b
  <1> QED
    BY <1>0, <1>5, <1>6, <1>7

LEMMA UnclassifiedSound ==
    ASSUME MaxInt \in Nat, NEW t \in Int, t <= MaxInt, NEW r \in {0, t}
    PROVE  Sound(Unclassified(t), r)
  <1>1. Valid(Unclassified(t)) /\ (Unclassified(t).quality = "complete" => t = 0)
    BY UnclassifiedValid
  <1>2. Unclassified(t).quality # "inconsistent" => Unclassified(t).total = t
    BY UnclassifiedValid
  <1>3. Unclassified(t).quality = "complete" => Unclassified(t).quality # "inconsistent"
    OBVIOUS
  <1> QED
    BY <1>1, <1>2, <1>3 DEF Sound

LEMMA LowerBoundType ==
    ASSUME MaxInt \in Nat, NEW d \in Detail
    PROVE  LowerBound(d) \in Int /\ LowerBound(d) <= MaxInt
  <1>0. /\ d.input \in Int /\ d.output \in Int /\ d.reasoning \in Int /\ d.cacheRead \in Int
        /\ d.cacheWrite \in Int /\ d.cached \in Int
    BY DetailFields
  <1>1. PICK c \in Int : c = Sum(d.cacheRead, d.cacheWrite)
    BY <1>0, SumFacts
  <1>2. PICK i \in Int : i = Larger(d.input, Larger(c, d.cached))
    BY <1>0 DEF Larger
  <1>3. PICK o \in Int : o = Larger(d.output, d.reasoning)
    BY <1>0 DEF Larger
  <1>4. LowerBound(d) = NoSum \/ LowerBound(d) = Sum(i, o)
    BY <1>1, <1>2, <1>3 DEF LowerBound
  <1>5. Sum(i, o) \in Int /\ Sum(i, o) <= MaxInt
    BY SumFacts
  <1>6. NoSum \in Int /\ NoSum <= MaxInt
    BY DEF NoSum
  <1> QED
    BY <1>4, <1>5, <1>6

LEMMA UnknownSound ==
    ASSUME MaxInt \in Nat, NEW d \in Detail
    PROVE  Sound(UnknownBreakdown(d), d.total)
  <1>0. d.total \in Int /\ d.total <= MaxInt
    BY DetailFields
  <1>1. PICK l \in Int : l = LowerBound(d) /\ l <= MaxInt
    BY LowerBoundType
  <1>2. Sound(Inconsistent(d.total, 0), d.total)
    BY <1>0, InconsistentValid DEF Sound
  <1>3. \/ UnknownBreakdown(d) = Inconsistent(d.total, 0)
        \/ UnknownBreakdown(d) = Unclassified(l) /\ d.total = 0
        \/ UnknownBreakdown(d) = Unclassified(d.total)
    BY <1>1 DEF UnknownBreakdown
  <1>4. Sound(Unclassified(d.total), d.total)
    BY <1>0, UnclassifiedSound
  <1>5. d.total = 0 => Sound(Unclassified(l), d.total)
    BY <1>1, UnclassifiedSound
  <1> QED
    BY <1>2, <1>3, <1>4, <1>5

(* Whatever a record reports and however its provider nests the counts. *)
LEMMA UsageSound ==
    ASSUME MaxInt \in Nat, NEW d \in Detail, NEW s \in Semantics, HasTokens(d)
    PROVE  Sound(UsageBreakdown(d, s), d.total)
  <1>0. d.total \in Int /\ d.total <= MaxInt
    BY DetailFields
  <1>1. PICK l \in Int : l = LowerBound(d) /\ l <= MaxInt
    BY LowerBoundType
  <1>2. CASE TotalOnly(d) /\ s \in {"subset", "unknown"}
    <2>1. UsageBreakdown(d, s) = Unclassified(d.total)
      BY <1>0, <1>2 DEF UsageBreakdown, TotalOnly, PartsOnly
    <2> QED
      BY <1>0, <2>1, UnclassifiedSound
  <1>3. CASE PartsOnly(d) /\ l = NoSum
    <2>1. UsageBreakdown(d, s) = Inconsistent(d.total, 0)
      BY <1>0, <1>1, <1>3 DEF UsageBreakdown, TotalOnly, PartsOnly, NoSum
    <2> QED
      BY <1>0, <2>1, InconsistentValid DEF Sound
  <1>4. CASE PartsOnly(d) /\ l > 0 /\ Unplaced(d, s)
    <2>1. UsageBreakdown(d, s) = Unclassified(l)
      BY <1>0, <1>1, <1>4 DEF UsageBreakdown, TotalOnly, PartsOnly, NoSum
    <2>2. d.total = 0
      BY <1>4 DEF PartsOnly
    <2> QED
      BY <1>1, <2>1, <2>2, UnclassifiedSound
  <1>5. CASE ~(TotalOnly(d) /\ s \in {"subset", "unknown"}) /\ ~(PartsOnly(d) /\ l = NoSum)
             /\ ~(PartsOnly(d) /\ l > 0 /\ Unplaced(d, s))
    <2>1. UsageBreakdown(d, s) = CASE s = "subset" -> SubsetBreakdown(d)
                                   [] s = "independent" -> IndependentBreakdown(d)
                                   [] s = "separate" -> SeparateReasoningBreakdown(d)
                                   [] s = "unknown" -> UnknownBreakdown(d)
      BY <1>1, <1>5 DEF UsageBreakdown
    <2>2. CASE s = "subset"
      BY <2>1, <2>2, SubsetSound
    <2>3. CASE s = "independent"
      BY <2>1, <2>3, IndependentSound
    <2>4. CASE s = "separate"
      BY <2>1, <2>4, SeparateSound
    <2>5. CASE s = "unknown"
      BY <2>1, <2>5, UnknownSound
    <2> QED
      BY <2>2, <2>3, <2>4, <2>5 DEF Semantics
  <1> QED
    BY <1>2, <1>3, <1>4, <1>5

(* usageBreakdown never produces buckets that Valid refuses: however          *)
(* contradictory or large the reported counts are, they end up in disjoint   *)
(* buckets that add up without overflow.                                     *)
THEOREM UsageIsValid ==
    ASSUME MaxInt \in Nat
    PROVE  \A d \in Detail, s \in Semantics : EveryUsageIsValid(d, s)
  BY UsageSound DEF EveryUsageIsValid, Sound

(* A record whose buckets contradict the total its provider reported is      *)
(* never billable, under any of the four ways of nesting counts.             *)
THEOREM ReportedTotalIsBilled ==
    ASSUME MaxInt \in Nat
    PROVE  \A d \in Detail, s \in Semantics : ReportedTotalStands(d, s)
  <1> SUFFICES ASSUME NEW d \in Detail, NEW s \in Semantics
               PROVE  ReportedTotalStands(d, s)
    OBVIOUS
  <1>1. CASE HasTokens(d)
    BY <1>1, UsageSound DEF ReportedTotalStands, Sound, Billable
  <1>2. CASE ~HasTokens(d)
    <2>1. d.total = 0
      BY <1>2, DetailFields DEF HasTokens
    <2> QED
      BY <2>1 DEF ReportedTotalStands
  <1> QED
    BY <1>1, <1>2

-----------------------------------------------------------------------------
(* Records that are measured as zero *)

(* A breakdown is measured to hold no token at all. *)
MeasuredZero(b) == b.quality = "complete" /\ b.total = 0

Nothing(d) ==
    /\ d.input = 0 /\ d.output = 0 /\ d.reasoning = 0
    /\ d.cacheRead = 0 /\ d.cacheWrite = 0 /\ d.total = 0

LEMMA NothingButCached ==
    ASSUME NEW d \in Detail
    PROVE  /\ HasTokens(d) <=> ~Nothing(d) \/ d.cached # 0
           /\ HasTokens([d EXCEPT !.cached = 0]) <=> ~Nothing(d)
  <1> DEFINE e == [d EXCEPT !.cached = 0]
  <1>1. /\ e.input = d.input /\ e.output = d.output /\ e.reasoning = d.reasoning
        /\ e.cacheRead = d.cacheRead /\ e.cacheWrite = d.cacheWrite /\ e.total = d.total
        /\ e.cached = 0
    BY DEF Detail
  <1> HIDE DEF e
  <1>2. HasTokens(e) <=> ~Nothing(d)
    BY <1>1 DEF HasTokens, Nothing
  <1> QED
    BY <1>2 DEF HasTokens, Nothing, e

LEMMA LowerBoundFacts ==
    ASSUME MaxInt \in Nat, NEW d \in Detail, LowerBound(d) # NoSum
    PROVE  /\ LowerBound(d) >= 0 /\ d.cached >= 0
           /\ LowerBound(d) = 0 /\ d.total = 0 => Nothing(d) /\ d.cached = 0
  <1>0. /\ d.input \in Int /\ d.output \in Int /\ d.reasoning \in Int /\ d.cacheRead \in Int
        /\ d.cacheWrite \in Int /\ d.cached \in Int
    BY DetailFields
  <1>1. PICK c \in Int : c = Sum(d.cacheRead, d.cacheWrite)
    BY <1>0, SumFacts
  <1>2. PICK i \in Int : i = Larger(d.input, Larger(c, d.cached))
                         /\ i >= d.input /\ i >= c /\ i >= d.cached
    BY <1>0 DEF Larger
  <1>3. PICK o \in Int : o = Larger(d.output, d.reasoning) /\ o >= d.output /\ o >= d.reasoning
    BY <1>0 DEF Larger
  <1>4. /\ c # NoSum /\ d.input >= 0 /\ d.output >= 0 /\ d.reasoning >= 0 /\ d.cached >= 0
        /\ LowerBound(d) = Sum(i, o)
    BY <1>0, <1>1, <1>2, <1>3 DEF LowerBound
  <1>5. d.cacheRead >= 0 /\ d.cacheWrite >= 0 /\ c = d.cacheRead + d.cacheWrite
    BY <1>0, <1>1, <1>4, SumFacts
  <1>6. i >= 0 /\ o >= 0 /\ LowerBound(d) = i + o
    BY <1>4, SumFacts
  <1>7. LowerBound(d) >= 0
    BY <1>6
  <1>8. ASSUME LowerBound(d) = 0, d.total = 0
        PROVE  Nothing(d) /\ d.cached = 0
    <2>1. i = 0 /\ o = 0
      BY <1>6, <1>8
    <2>2. d.input = 0 /\ c = 0 /\ d.cached = 0 /\ d.output = 0 /\ d.reasoning = 0
      BY <1>0, <1>2, <1>3, <1>4, <1>5, <2>1
    <2>3. d.cacheRead = 0 /\ d.cacheWrite = 0
      BY <1>0, <1>5, <2>2
    <2> QED
      BY <1>8, <2>2, <2>3 DEF Nothing
  <1> QED
    BY <1>4, <1>7, <1>8

LEMMA InconsistentNotZero ==
    ASSUME NEW t, NEW c
    PROVE  ~MeasuredZero(Inconsistent(t, c))
  BY DEF MeasuredZero, Inconsistent, Unmeasured

LEMMA UnclassifiedZero ==
    ASSUME MaxInt \in Nat, NEW t \in Int, t <= MaxInt, MeasuredZero(Unclassified(t))
    PROVE  t = 0
  BY UnclassifiedValid DEF MeasuredZero

LEMMA SubsetZero ==
    ASSUME MaxInt \in Nat, NEW d \in Detail, MeasuredZero(SubsetBreakdown(d))
    PROVE  d.input = 0 /\ d.output = 0 /\ d.total = 0
  <1>0. d.input \in Int /\ d.output \in Int /\ d.total \in Int
    BY DetailFields
  <1>1. PICK e \in Int : e = Sum(d.input, d.output)
    BY <1>0, SumFacts
  <1>2. /\ e # NoSum /\ d.total >= 0 /\ (d.total > 0 => d.total >= e)
        /\ ~(d.total > e) /\ SubsetBreakdown(d).total = e
    <2>1. /\ e # NoSum /\ ~(d.total < 0 \/ (d.total > 0 /\ d.total < e))
          /\ \/ SubsetBreakdown(d).quality = "unclassified"
             \/ d.total <= e /\ SubsetBreakdown(d).total = e
      BY <1>0, <1>1, InconsistentNotZero DEF SubsetBreakdown, Complete, MeasuredZero
    <2> QED
      BY <1>0, <2>1 DEF MeasuredZero
  <1>3. e = 0 /\ d.input >= 0 /\ d.output >= 0 /\ e = d.input + d.output
    BY <1>0, <1>1, <1>2, SumFacts DEF MeasuredZero
  <1> QED
    BY <1>0, <1>2, <1>3

LEMMA BucketsZero ==
    ASSUME MaxInt \in Nat, NEW d \in Detail, NEW n \in Int, MeasuredZero(BucketsBreakdown(d, n))
    PROVE  /\ d.input = 0 /\ d.cacheRead = 0 /\ d.cacheWrite = 0 /\ d.reasoning = 0
           /\ n = 0 /\ d.total = 0
  <1>0. /\ d.input \in Int /\ d.reasoning \in Int /\ d.cacheRead \in Int
        /\ d.cacheWrite \in Int /\ d.total \in Int
    BY DetailFields
  <1>1. PICK a \in Int : a = Sum(d.input, d.cacheRead)
    BY <1>0, SumFacts
  <1>2. PICK i \in Int : i = Sum(a, d.cacheWrite)
    BY <1>0, SumFacts
  <1>3. PICK o \in Int : o = Sum(n, d.reasoning)
    BY <1>0, SumFacts
  <1>4. PICK e \in Int : e = Sum(i, o)
    BY <1>0, SumFacts
  <1>5. e # NoSum /\ d.total \in {0, e} /\ BucketsBreakdown(d, n).total = e
    <2>1. e # NoSum /\ Resolved(d.total, e) # NoSum
          /\ BucketsBreakdown(d, n).total = Resolved(d.total, e)
      BY <1>1, <1>2, <1>3, <1>4, InconsistentNotZero DEF BucketsBreakdown, Complete
    <2> QED
      BY <2>1 DEF Resolved
  <1>6. e = 0 /\ i >= 0 /\ o >= 0 /\ e = i + o
    BY <1>4, <1>5, SumFacts DEF MeasuredZero
  <1>7. n >= 0 /\ d.reasoning >= 0 /\ o = n + d.reasoning
    BY <1>0, <1>3, <1>6, SumFacts
  <1>8. a >= 0 /\ d.cacheWrite >= 0 /\ i = a + d.cacheWrite
    BY <1>0, <1>2, <1>6, SumFacts
  <1>9. d.input >= 0 /\ d.cacheRead >= 0 /\ a = d.input + d.cacheRead
    BY <1>0, <1>1, <1>8, SumFacts
  <1>10. i = 0 /\ o = 0 /\ d.total = 0
    BY <1>5, <1>6
  <1>11. n = 0 /\ d.reasoning = 0
    BY <1>0, <1>7, <1>10
  <1>12. a = 0 /\ d.cacheWrite = 0
    BY <1>0, <1>8, <1>10
  <1> QED
    BY <1>0, <1>9, <1>10, <1>11, <1>12

LEMMA IndependentZero ==
    ASSUME MaxInt \in Nat, NEW d \in Detail, MeasuredZero(IndependentBreakdown(d))
    PROVE  Nothing(d)
  <1>0. d.output \in Int /\ d.reasoning \in Int /\ d.output - d.reasoning \in Int
    BY DetailFields
  <1>1. PICK n \in {d.output, d.output - d.reasoning} : MeasuredZero(BucketsBreakdown(d, n))
    BY InconsistentNotZero DEF IndependentBreakdown
  <1>2. /\ d.input = 0 /\ d.cacheRead = 0 /\ d.cacheWrite = 0 /\ d.reasoning = 0
        /\ n = 0 /\ d.total = 0
    BY <1>0, <1>1, BucketsZero
  <1>3. d.output = 0
    BY <1>0, <1>1, <1>2
  <1> QED
    BY <1>2, <1>3 DEF Nothing

LEMMA SeparateZero ==
    ASSUME MaxInt \in Nat, NEW d \in Detail, MeasuredZero(SeparateReasoningBreakdown(d))
    PROVE  Nothing(d)
  <1>0. /\ d.input \in Int /\ d.output \in Int /\ d.reasoning \in Int /\ d.cacheRead \in Int
        /\ d.cacheWrite \in Int /\ d.total \in Int
    BY DetailFields
  <1>1. PICK c \in Int : c = Sum(d.cacheRead, d.cacheWrite)
    BY <1>0, SumFacts
  <1>2. PICK o \in Int : o = Sum(d.output, d.reasoning)
    BY <1>0, SumFacts
  <1>3. PICK e \in Int : e = Sum(d.input, o)
    BY <1>0, SumFacts
  <1>4. /\ c # NoSum /\ ~(c > d.input) /\ e # NoSum /\ d.total \in {0, e}
        /\ SeparateReasoningBreakdown(d).total = e
    <2>1. /\ c # NoSum /\ ~(c > d.input) /\ e # NoSum /\ Resolved(d.total, e) # NoSum
          /\ SeparateReasoningBreakdown(d).total = Resolved(d.total, e)
      BY <1>1, <1>2, <1>3, InconsistentNotZero DEF SeparateReasoningBreakdown, Complete
    <2> QED
      BY <2>1 DEF Resolved
  <1>5. e = 0 /\ d.input >= 0 /\ o >= 0 /\ e = d.input + o
    BY <1>0, <1>3, <1>4, SumFacts DEF MeasuredZero
  <1>6. d.output >= 0 /\ d.reasoning >= 0 /\ o = d.output + d.reasoning
    BY <1>0, <1>2, <1>5, SumFacts
  <1>7. d.cacheRead >= 0 /\ d.cacheWrite >= 0 /\ c = d.cacheRead + d.cacheWrite
    BY <1>0, <1>1, <1>4, SumFacts
  <1>8. d.input = 0 /\ o = 0 /\ d.total = 0
    BY <1>0, <1>4, <1>5
  <1>9. d.output = 0 /\ d.reasoning = 0
    BY <1>0, <1>6, <1>8
  <1>10. d.cacheRead = 0 /\ d.cacheWrite = 0
    BY <1>0, <1>4, <1>7, <1>8
  <1> QED
    BY <1>8, <1>9, <1>10 DEF Nothing

LEMMA UnknownZero ==
    ASSUME MaxInt \in Nat, NEW d \in Detail, MeasuredZero(UnknownBreakdown(d))
    PROVE  Nothing(d) /\ d.cached = 0
  <1>0. d.total \in Int /\ d.total <= MaxInt
    BY DetailFields
  <1>1. PICK l \in Int : l = LowerBound(d) /\ l <= MaxInt
    BY LowerBoundType
  <1>2. l # NoSum /\ MeasuredZero(Unclassified(IF d.total = 0 THEN l ELSE d.total))
    BY <1>1, InconsistentNotZero DEF UnknownBreakdown
  <1>3. d.total = 0
    BY <1>0, <1>2, UnclassifiedZero
  <1>4. l = 0
    BY <1>1, <1>2, <1>3, UnclassifiedZero
  <1> QED
    BY <1>1, <1>2, <1>3, <1>4, LowerBoundFacts

(* Usage is billed at nothing only where nothing was reported, but for one    *)
(* case: a provider with caches beside its input that reports only the       *)
(* undivided cache count (usage.go, providerIndependentBreakdown).           *)
THEOREM ZeroMeansNothing ==
    ASSUME MaxInt \in Nat
    PROVE  \A d \in Detail, s \in Semantics : NeverMeasuredAsZero(d, s)
  <1> SUFFICES ASSUME NEW d \in Detail, NEW s \in Semantics, HasTokens(d),
                      MeasuredZero(UsageBreakdown(d, s))
               PROVE  s = "independent" /\ Nothing(d)
    BY NothingButCached DEF NeverMeasuredAsZero, Billable, MeasuredZero
  <1>0. d.total \in Int /\ d.total <= MaxInt /\ d.cached \in Int
    BY DetailFields
  <1>1. PICK l \in Int : l = LowerBound(d) /\ l <= MaxInt
    BY LowerBoundType
  <1>2. ~(TotalOnly(d) /\ s \in {"subset", "unknown"})
    <2> SUFFICES ASSUME TotalOnly(d), s \in {"subset", "unknown"} PROVE FALSE
      OBVIOUS
    <2>1. UsageBreakdown(d, s) = Unclassified(d.total)
      BY <1>0 DEF UsageBreakdown, TotalOnly, PartsOnly
    <2> QED
      BY <1>0, <2>1, UnclassifiedZero DEF TotalOnly
  <1>3. ~(PartsOnly(d) /\ l = NoSum)
    <2> SUFFICES ASSUME PartsOnly(d), l = NoSum PROVE FALSE
      OBVIOUS
    <2>1. UsageBreakdown(d, s) = Inconsistent(d.total, 0)
      BY <1>0, <1>1 DEF UsageBreakdown, TotalOnly, PartsOnly, NoSum
    <2> QED
      BY <2>1, InconsistentNotZero
  <1>4. ~(PartsOnly(d) /\ l > 0 /\ Unplaced(d, s))
    <2> SUFFICES ASSUME PartsOnly(d), l > 0, Unplaced(d, s) PROVE FALSE
      OBVIOUS
    <2>1. UsageBreakdown(d, s) = Unclassified(l)
      BY <1>0, <1>1 DEF UsageBreakdown, TotalOnly, PartsOnly, NoSum
    <2> QED
      BY <1>1, <2>1, UnclassifiedZero
  <1>5. UsageBreakdown(d, s) = CASE s = "subset" -> SubsetBreakdown(d)
                                 [] s = "independent" -> IndependentBreakdown(d)
                                 [] s = "separate" -> SeparateReasoningBreakdown(d)
                                 [] s = "unknown" -> UnknownBreakdown(d)
    BY <1>1, <1>2, <1>3, <1>4 DEF UsageBreakdown
  <1>6. ASSUME PartsOnly(d) PROVE l >= 0 /\ d.cached >= 0 /\ (l = 0 => Nothing(d) /\ d.cached = 0)
    BY <1>1, <1>3, <1>6, LowerBoundFacts DEF PartsOnly
  <1>7. CASE s = "subset"
    <2>1. MeasuredZero(SubsetBreakdown(d))
      BY <1>5, <1>7
    <2>2. PartsOnly(d)
      BY <2>1, SubsetZero DEF PartsOnly
    <2>3. l = 0
      BY <1>4, <1>6, <1>7, <2>2 DEF Unplaced
    <2> QED
      BY <1>6, <2>2, <2>3, NothingButCached
  <1>8. CASE s = "independent"
    <2>1. MeasuredZero(IndependentBreakdown(d))
      BY <1>5, <1>8
    <2> QED
      BY <1>8, <2>1, IndependentZero
  <1>9. CASE s = "separate"
    <2>1. MeasuredZero(SeparateReasoningBreakdown(d))
      BY <1>5, <1>9
    <2>2. Nothing(d)
      BY <2>1, SeparateZero
    <2>3. PartsOnly(d) /\ d.cached # 0
      BY <2>2, NothingButCached DEF PartsOnly, Nothing
    <2>4. d.cached > 0
      BY <1>0, <1>6, <2>3
    <2>5. l > 0
      BY <1>6, <2>3
    <2> QED
      BY <1>4, <1>9, <2>3, <2>4, <2>5 DEF Unplaced
  <1>10. CASE s = "unknown"
    <2>1. MeasuredZero(UnknownBreakdown(d))
      BY <1>5, <1>10
    <2> QED
      BY <2>1, UnknownZero, NothingButCached
  <1> QED
    BY <1>7, <1>8, <1>9, <1>10 DEF Semantics

-----------------------------------------------------------------------------
(* ComputeCost bills each token once: at one rate for all buckets, with the   *)
(* cache rates left to their default, a billable record costs rate times     *)
(* total.                                                                    *)
THEOREM EachTokenIsBilledOnce ==
    ASSUME MaxInt \in Nat, Unset \notin Nat
    PROVE  \A b \in Breakdown, rate \in Nat : BilledOnce(b, rate)
  <1> SUFFICES ASSUME NEW b \in Breakdown, NEW rate \in Nat, Billable(b)
               PROVE  ComputeCost(b, [input |-> rate, output |-> rate, cacheRead |-> Unset,
                                      cacheWrite |-> Unset], Unset, 0) = rate * b.total
    BY DEF BilledOnce
  <1> DEFINE flat == [input |-> rate, output |-> rate, cacheRead |-> Unset, cacheWrite |-> Unset]
             p == Resolve(flat)
  <1>1. p.input = rate /\ p.output = rate /\ p.cacheRead = rate /\ p.cacheWrite = rate
    BY DEF Resolve
  <1>2. ComputeCost(b, flat, Unset, 0) = TotalCost(b, p)
    BY DEF ComputeCost, Applied
  <1>3. PICK u \in Nat, r \in Nat, w \in Nat, o \in Nat :
            u = b.uncached /\ r = b.cacheRead /\ w = b.cacheWrite /\ o = b.outputTotal
    <2>1. /\ b.uncached \in Nat /\ b.cacheRead \in Nat /\ b.cacheWrite \in Nat
          /\ b.outputTotal \in Nat
      <3>1. /\ b.uncached \in Count /\ b.cacheRead \in Count /\ b.cacheWrite \in Count
            /\ b.outputTotal \in Count
        BY DEF Breakdown
      <3> QED
        BY <3>1 DEF Count
    <2> QED
      BY <2>1
  <1>4. b.total = u + r + w + o
    BY <1>3 DEF Billable, Valid
  <1>5. \A n \in Nat : PerToken(n, rate) = n * rate
    BY DEF PerToken
  <1>6. TotalCost(b, p) = u * rate + r * rate + w * rate + o * rate
    BY <1>1, <1>3, <1>5 DEF TotalCost
  <1>7. u * rate + r * rate + w * rate + o * rate = rate * (u + r + w + o)
    OBVIOUS
  <1> QED
    BY <1>2, <1>4, <1>6, <1>7

-----------------------------------------------------------------------------
(* Induction.  The library states it for an operator; here a property is a   *)
(* set, and well-foundedness gives the least counterexample.                 *)

(* The natural numbers are well ordered. *)
LEMMA LessRelation ==
    \E R : IsWellFoundedOn(R, Nat) /\ \A m, n \in Nat : m < n => <<m, n>> \in R
  <1> DEFINE R == OpToRel(<, Nat)
  <1>1. IsWellFoundedOn(R, Nat)
    BY NatLessThanWellFounded
  <1>2. \A m, n \in Nat : m < n => <<m, n>> \in R
    BY DEF OpToRel
  <1> HIDE DEF R
  <1> QED
    BY <1>1, <1>2

LEMMA LeastNumber ==
    ASSUME NEW S, S \subseteq Nat, S # {}
    PROVE  \E m \in S : \A n \in S : m <= n
  <1>1. PICK R : IsWellFoundedOn(R, Nat) /\ \A m, n \in Nat : m < n => <<m, n>> \in R
    BY LessRelation
  <1>2. PICK m \in S : \A n \in S : ~ (<<n, m>> \in R)
    BY <1>1, WFMin
  <1>3. ASSUME NEW n \in S PROVE m <= n
    <2>1. m \in Nat /\ n \in Nat /\ ~(n < m)
      BY <1>1, <1>2
    <2> QED
      BY <2>1
  <1> QED
    BY <1>3

(* Induction, for the properties that are sets. *)
LEMMA NumberInduction ==
    ASSUME NEW N, 0 \in N, \A n \in Nat : n \in N => n + 1 \in N
    PROVE  Nat \subseteq N
  <1> SUFFICES ASSUME ~(Nat \subseteq N) PROVE FALSE
    OBVIOUS
  <1>1. PICK m \in Nat \ N : \A n \in Nat \ N : m <= n
    BY LeastNumber
  <1>2. m # 0 /\ m - 1 \in Nat
    BY <1>1
  <1>3. m - 1 \in N
    BY <1>1, <1>2
  <1>4. (m - 1) + 1 = m
    OBVIOUS
  <1> QED
    BY <1>1, <1>2, <1>3, <1>4

(* Induction over the subsets of a finite set. *)
LEMMA SubsetInduction ==
    ASSUME NEW S, IsFiniteSet(S), NEW F,
           \A T \in SUBSET S : (\A U \in SUBSET T : U # T => U \in F) => T \in F
    PROVE  \A T \in SUBSET S : T \in F
  <1> DEFINE N == {n \in Nat : \E T \in SUBSET S : T \notin F /\ Cardinality(T) = n}
  <1> SUFFICES ASSUME NEW V \in SUBSET S, V \notin F PROVE FALSE
    OBVIOUS
  <1>1. Cardinality(V) \in N
    BY FS_Subset, FS_CardinalityType
  <1>2. PICK n \in N : \A m \in N : n <= m
    BY <1>1, LeastNumber
  <1>3. PICK T \in SUBSET S : T \notin F /\ Cardinality(T) = n
    BY <1>2
  <1>4. IsFiniteSet(T)
    BY <1>3, FS_Subset
  <1>5. PICK U \in SUBSET T : U # T /\ U \notin F
    BY <1>3
  <1>6. IsFiniteSet(U) /\ Cardinality(U) <= n /\ Cardinality(U) # n
    BY <1>3, <1>4, <1>5, FS_Subset
  <1>7. Cardinality(U) \in Nat
    BY <1>6, FS_CardinalityType
  <1>8. Cardinality(U) \in N
    BY <1>5, <1>7
  <1>9. n <= Cardinality(U) /\ n \in Nat
    BY <1>2, <1>8
  <1> QED
    BY <1>6, <1>7, <1>9

-----------------------------------------------------------------------------
(* Sums over finite sets of charges: SumFunctionOnSet without its recursion *)

Chosen(s) == CHOOSE x \in s : TRUE

Step(g, f, s) == IF s = {} THEN 0 ELSE f[Chosen(s)] + g[s \ {Chosen(s)}]

Recursive(g, f, S) == g = [s \in SUBSET S |-> Step(g, f, s)]

LEMMA RecursiveExists ==
    ASSUME NEW S, IsFiniteSet(S), NEW f
    PROVE  \E g : Recursive(g, f, S)
  <1> DEFINE Upto(g, n) == /\ g = [s \in SUBSET S |-> g[s]]
                           /\ \A s \in SUBSET S : Cardinality(s) <= n => g[s] = Step(g, f, s)
             N == {n \in Nat : \E g : Upto(g, n)}
  <1>0. \A s \in SUBSET S : IsFiniteSet(s) /\ Cardinality(s) \in Nat
    BY FS_Subset, FS_CardinalityType
  <1>1. 0 \in N
    <2> DEFINE g == [s \in SUBSET S |-> 0]
    <2>1. g = [s \in SUBSET S |-> g[s]]
      OBVIOUS
    <2>2. ASSUME NEW s \in SUBSET S, Cardinality(s) <= 0 PROVE g[s] = Step(g, f, s)
      <3>1. s = {}
        BY <1>0, <2>2, FS_EmptySet
      <3> QED
        BY <3>1 DEF Step
    <2> HIDE DEF g
    <2>3. Upto(g, 0)
      BY <2>1, <2>2
    <2> QED
      BY <2>3
  <1>2. ASSUME NEW n \in Nat, n \in N PROVE n + 1 \in N
    <2>1. PICK g : Upto(g, n)
      BY <1>2
    <2> DEFINE h == [s \in SUBSET S |-> Step(g, f, s)]
    <2>2. h = [s \in SUBSET S |-> h[s]]
      OBVIOUS
    <2>3. ASSUME NEW s \in SUBSET S, Cardinality(s) <= n + 1 PROVE h[s] = Step(h, f, s)
      <3>1. CASE s = {}
        BY <3>1 DEF Step
      <3>2. CASE s # {}
        <4>1. Chosen(s) \in s
          BY <3>2 DEF Chosen
        <4> DEFINE t == s \ {Chosen(s)}
        <4>2. t \in SUBSET S /\ Cardinality(t) = Cardinality(s) - 1
          BY <1>0, <4>1, FS_RemoveElement
        <4>3. Cardinality(t) <= n
          BY <1>0, <2>3, <4>2
        <4>4. h[t] = g[t]
          BY <2>1, <4>2, <4>3
        <4>5. h[s] = f[Chosen(s)] + g[t]
          BY <3>2 DEF Step
        <4> QED
          BY <3>2, <4>4, <4>5 DEF Step
      <3> QED
        BY <3>1, <3>2
    <2> HIDE DEF h
    <2>4. Upto(h, n + 1)
      BY <2>2, <2>3
    <2>5. \E k : Upto(k, n + 1)
      BY <2>4
    <2> HIDE DEF Upto
    <2> QED
      BY <2>5
  <1>3. Nat \subseteq N
    BY <1>1, <1>2, NumberInduction
  <1>4. PICK g : Upto(g, Cardinality(S))
    BY <1>0, <1>3
  <1>5. \A s \in SUBSET S : g[s] = Step(g, f, s)
    BY <1>0, <1>4, FS_Subset
  <1>6. Recursive(g, f, S)
    BY <1>4, <1>5 DEF Recursive
  <1> QED
    BY <1>6

LEMMA SumIsRecursive ==
    ASSUME NEW S, IsFiniteSet(S), NEW f
    PROVE  \E g : Recursive(g, f, S) /\ SumFunctionOnSet(f, S) = g[S]
  <1> DEFINE g == CHOOSE g : Recursive(g, f, S)
  <1>1. Recursive(g, f, S)
    BY RecursiveExists
  <1>2. SumFunctionOnSet(f, S) = g[S]
    BY DEF SumFunctionOnSet, FoldFunctionOnSet, MapThenFoldSet, Recursive, Step, Chosen
  <1> HIDE DEF g
  <1> QED
    BY <1>1, <1>2

(* The functions that compute the sums of a set and of a subset agree. *)
LEMMA RecursiveUnique ==
    ASSUME NEW S, IsFiniteSet(S), NEW f, NEW h, NEW g, Recursive(g, f, S),
           NEW T \in SUBSET S, NEW k, Recursive(k, h, T), \A x \in T : f[x] = h[x]
    PROVE  \A U \in SUBSET T : g[U] = k[U]
  <1> DEFINE F == {U \in SUBSET T : g[U] = k[U]}
  <1>1. IsFiniteSet(T)
    BY FS_Subset
  <1>2. ASSUME NEW U \in SUBSET T, \A V \in SUBSET U : V # U => V \in F PROVE U \in F
    <2>1. g[U] = Step(g, f, U) /\ k[U] = Step(k, h, U)
      BY DEF Recursive
    <2>2. CASE U = {}
      BY <2>1, <2>2 DEF Step
    <2>3. CASE U # {}
      <3>1. Chosen(U) \in U
        BY <2>3 DEF Chosen
      <3>2. U \ {Chosen(U)} \in F /\ f[Chosen(U)] = h[Chosen(U)]
        BY <1>2, <3>1
      <3> QED
        BY <2>1, <2>3, <3>2 DEF Step
    <2> QED
      BY <2>2, <2>3
  <1>3. \A U \in SUBSET T : U \in F
    <2> HIDE DEF F
    <2> QED
      BY <1>1, <1>2, SubsetInduction
  <1> QED
    BY <1>3

(* A sum depends on the summands alone. *)
LEMMA SumsAgree ==
    ASSUME NEW S, IsFiniteSet(S), NEW f, NEW h, \A x \in S : f[x] = h[x]
    PROVE  SumFunctionOnSet(f, S) = SumFunctionOnSet(h, S)
  <1>1. PICK g : Recursive(g, f, S) /\ SumFunctionOnSet(f, S) = g[S]
    BY SumIsRecursive
  <1>2. PICK k : Recursive(k, h, S) /\ SumFunctionOnSet(h, S) = k[S]
    BY SumIsRecursive
  <1>3. \A U \in SUBSET S : g[U] = k[U]
    BY <1>1, <1>2, RecursiveUnique
  <1> QED
    BY <1>1, <1>2, <1>3

LEMMA SumEmpty ==
    ASSUME NEW f
    PROVE  SumFunctionOnSet(f, {}) = 0
  <1>1. PICK g : Recursive(g, f, {}) /\ SumFunctionOnSet(f, {}) = g[{}]
    BY SumIsRecursive, FS_EmptySet
  <1> QED
    BY <1>1 DEF Recursive, Step

(* Any element may be taken out of a sum. *)
LEMMA SumTakesOut ==
    ASSUME NEW S, IsFiniteSet(S), NEW f, \A x \in S : f[x] \in Int
    PROVE  /\ SumFunctionOnSet(f, S) \in Int
           /\ \A x \in S : SumFunctionOnSet(f, S) = f[x] + SumFunctionOnSet(f, S \ {x})
  <1>1. PICK g : Recursive(g, f, S)
    BY RecursiveExists
  <1>2. ASSUME NEW T \in SUBSET S PROVE SumFunctionOnSet(f, T) = g[T]
    <2>1. PICK k : Recursive(k, f, T) /\ SumFunctionOnSet(f, T) = k[T]
      BY SumIsRecursive, FS_Subset
    <2> QED
      BY <1>1, <2>1, RecursiveUnique
  <1> DEFINE F == {T \in SUBSET S : /\ g[T] \in Int
                                    /\ \A x \in T : g[T] = f[x] + g[T \ {x}]}
  <1>3. ASSUME NEW T \in SUBSET S, \A U \in SUBSET T : U # T => U \in F PROVE T \in F
    <2>1. g[T] = Step(g, f, T)
      BY <1>1 DEF Recursive
    <2>2. CASE T = {}
      BY <2>1, <2>2 DEF Step
    <2>3. CASE T # {}
      <3>1. PICK c \in T : g[T] = f[c] + g[T \ {c}]
        BY <2>1, <2>3 DEF Step, Chosen
      <3>2. T \ {c} \in F
        BY <1>3, <3>1
      <3>3. ASSUME NEW x \in T, x # c PROVE g[T] = f[x] + g[T \ {x}]
        <4> DEFINE r == (T \ {c}) \ {x}
        <4>1. g[T \ {c}] = f[x] + g[r]
          BY <3>2, <3>3
        <4>2. T \ {x} \in F /\ (T \ {x}) \ {c} = r
          BY <1>3, <3>3
        <4>3. g[T \ {x}] = f[c] + g[r]
          BY <3>3, <4>2
        <4>4. r \in F /\ f[x] \in Int /\ f[c] \in Int
          BY <1>3, <3>1, <3>3
        <4>5. g[r] \in Int
          BY <4>4
        <4> HIDE DEF r
        <4> QED
          BY <3>1, <4>1, <4>3, <4>4, <4>5
      <3>4. g[T] \in Int
        BY <3>1, <3>2
      <3> QED
        BY <3>1, <3>3, <3>4
    <2> QED
      BY <2>2, <2>3
  <1>4. \A T \in SUBSET S : T \in F
    <2> HIDE DEF F
    <2> QED
      BY <1>3, SubsetInduction
  <1>5. S \in F /\ \A x \in S : S \ {x} \in SUBSET S
    BY <1>4
  <1> QED
    BY <1>2, <1>5

LEMMA SumAdds ==
    ASSUME NEW S, IsFiniteSet(S), NEW x, x \notin S, NEW f, \A y \in S \union {x} : f[y] \in Int
    PROVE  SumFunctionOnSet(f, S \union {x}) = f[x] + SumFunctionOnSet(f, S)
  <1>1. IsFiniteSet(S \union {x})
    BY FS_AddElement
  <1>2. (S \union {x}) \ {x} = S
    OBVIOUS
  <1>3. SumFunctionOnSet(f, S \union {x}) = f[x] + SumFunctionOnSet(f, (S \union {x}) \ {x})
    BY <1>1, SumTakesOut
  <1> QED
    BY <1>2, <1>3

LEMMA SumMonotonic ==
    ASSUME NEW S, IsFiniteSet(S), NEW f, \A x \in S : f[x] \in Nat, NEW T \in SUBSET S
    PROVE  /\ SumFunctionOnSet(f, T) \in Nat
           /\ SumFunctionOnSet(f, T) <= SumFunctionOnSet(f, S)
  <1> DEFINE F == {U \in SUBSET S : /\ SumFunctionOnSet(f, U) \in Nat
                                    /\ \A x \in U : SumFunctionOnSet(f, U \ {x}) <= SumFunctionOnSet(f, U)
                                    /\ T \subseteq U => SumFunctionOnSet(f, T) <= SumFunctionOnSet(f, U)}
  <1>1. ASSUME NEW U \in SUBSET S, \A V \in SUBSET U : V # U => V \in F PROVE U \in F
    <2>1. IsFiniteSet(U) /\ \A x \in U : f[x] \in Int
      BY FS_Subset
    <2>2. SumFunctionOnSet(f, U) \in Int /\ \A x \in U : SumFunctionOnSet(f, U) = f[x] + SumFunctionOnSet(f, U \ {x})
      BY <2>1, SumTakesOut
    <2>3. \A x \in U : U \ {x} \in F
      BY <1>1
    <2>4. \A x \in U : SumFunctionOnSet(f, U \ {x}) \in Nat /\ f[x] \in Nat
      BY <2>3
    <2>5. ASSUME NEW x \in U
          PROVE  /\ SumFunctionOnSet(f, U \ {x}) <= SumFunctionOnSet(f, U)
                 /\ SumFunctionOnSet(f, U) \in Nat
      <3>1. PICK p : p = SumFunctionOnSet(f, U \ {x})
        OBVIOUS
      <3>2. PICK n : n = f[x]
        OBVIOUS
      <3>3. p \in Nat /\ n \in Nat /\ SumFunctionOnSet(f, U) = n + p
        BY <2>2, <2>4, <3>1, <3>2
      <3> QED
        BY <3>1, <3>3
    <2>6. SumFunctionOnSet(f, U) \in Nat
      <3>1. CASE U = {}
        BY <3>1, SumEmpty
      <3>2. CASE U # {}
        BY <2>5, <3>2
      <3> QED
        BY <3>1, <3>2
    <2>7. ASSUME T \subseteq U, T # U PROVE SumFunctionOnSet(f, T) <= SumFunctionOnSet(f, U)
      <3>1. PICK x \in U : x \notin T
        BY <2>7
      <3>2. SumFunctionOnSet(f, T) <= SumFunctionOnSet(f, U \ {x}) /\ T \in F
        BY <1>1, <2>3, <2>7, <3>1
      <3> QED
        BY <2>4, <2>5, <2>6, <3>2
    <2> QED
      BY <2>5, <2>6, <2>7
  <1>2. \A U \in SUBSET S : U \in F
    <2> HIDE DEF F
    <2> QED
      BY <1>1, SubsetInduction
  <1> QED
    BY <1>2

(* A finite set of integers that is not empty has a largest element. *)
LEMMA LargestNumber ==
    ASSUME NEW S, IsFiniteSet(S), S \subseteq Int, S # {}
    PROVE  \E m \in S : \A n \in S : n <= m
  <1> DEFINE F == {T \in SUBSET S : T # {} => \E m \in T : \A n \in T : n <= m}
  <1>1. ASSUME NEW T \in SUBSET S, \A U \in SUBSET T : U # T => U \in F PROVE T \in F
    <2> SUFFICES ASSUME T # {} PROVE \E m \in T : \A n \in T : n <= m
      OBVIOUS
    <2>1. PICK x \in T : TRUE
      OBVIOUS
    <2>2. T \ {x} \in F
      BY <1>1
    <2>3. CASE T \ {x} = {}
      BY <2>3
    <2>4. CASE T \ {x} # {}
      <3>1. PICK m \in T \ {x} : \A n \in T \ {x} : n <= m
        BY <2>2, <2>4
      <3>2. m \in Int /\ x \in Int
        OBVIOUS
      <3>3. CASE x <= m
        BY <3>1, <3>3
      <3>4. CASE m < x
        <4>1. \A n \in T \ {x} : n \in Int /\ n <= x
          BY <3>1, <3>2, <3>4
        <4> QED
          BY <3>2, <4>1
      <3> QED
        BY <3>2, <3>3, <3>4
    <2> QED
      BY <2>3, <2>4
  <1>2. \A T \in SUBSET S : T \in F
    <2> HIDE DEF F
    <2> QED
      BY <1>1, SubsetInduction
  <1> QED
    BY <1>2


=============================================================================
