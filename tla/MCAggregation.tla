--------------------------- MODULE MCAggregation ---------------------------
EXTENDS Aggregation, TLC

\* Days of two hours of two minutes; the first clock is the second half of day 1.
\* The samples are two of one minute and one of the other minute of their hour.
MCStamp == "s1" :> 6 @@ "s2" :> 6 @@ "s3" :> 7
MCDelay == [am |-> 1, ah |-> 1, ad |-> 1]
MCRetention == [d |-> 1, am |-> 1, ah |-> 0, ad |-> 0]
MCSymmetry == Permutations(Backends)
=============================================================================
