---------------------------- MODULE MCGroupLedger ----------------------------
(* Instances of GroupLedger for TLC.  A key becomes grouped at a midnight: the *)
(* last instant of a day is followed by a day of two instants, between which   *)
(* resets and late usage can fall, and by the first instant of a third day.    *)
EXTENDS GroupLedger

MCInstants == 1..4
MCNextMidnight == [t \in MCInstants |-> 2 * (t \div 2) + 2]

(* The token accounting in front of the ledger, on every record with counts  *)
(* from -1 to 2 and integers up to 3.                                        *)
Tokens == INSTANCE TokenAccounting WITH MaxInt <- 3, Unset <- "unset"

SmallRecords ==
    {[input |-> i, output |-> o, reasoning |-> n, cacheRead |-> r, cacheWrite |-> w,
      cached |-> c, total |-> t] :
        i \in -1..2, o \in -1..2, n \in -1..2, r \in -1..2, w \in -1..2, c \in -1..2, t \in -1..3}

ASSUME SmallRecordsAreAccounted ==
    \A d \in SmallRecords, s \in Tokens!Semantics :
        /\ Tokens!EveryUsageIsValid(d, s)
        /\ Tokens!ReportedTotalStands(d, s)
        /\ Tokens!NeverMeasuredAsZero(d, s)
        /\ \A rate \in {0, 2} : Tokens!BilledOnce(Tokens!UsageBreakdown(d, s), rate)

=============================================================================
