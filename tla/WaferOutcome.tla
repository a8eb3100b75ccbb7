---------------------------- MODULE WaferOutcome ----------------------------
(***************************************************************************)
(* From a wafer run's tally to the bin summary of the outcome report:      *)
(* BinDistribution of src/tpt-ate-aggregate/src/outcome.rs, and the        *)
(* minimum-cohort rule that is applied to it before the report leaves.     *)
(* The summary is public and is redacted in place, as often as its owner   *)
(* likes and with any cohort.                                              *)
(***************************************************************************)
EXTENDS WaferSort

CONSTANT Cohorts  \* values of min_cohort

ASSUME CohortAssumption == Cohorts \subseteq Nat

VARIABLES
  distribution,  \* BinDistribution, once it has been built
  redactedFor    \* history: the largest cohort it was redacted for

outcomeVars == <<distribution, redactedFor>>
allVars == <<vars, outcomeVars>>

NoDistribution == [total_tested |-> 0]
IsBuilt == distribution # NoDistribution

----------------------------------------------------------------------------
(* BinDistribution                                                         *)

Buckets(counts) == [bin \in DOMAIN counts |-> [count |-> counts[bin], withheld |-> FALSE]]

FromTally ==
  [total_tested |-> tally.tested, total_passed |-> tally.passed,
   hard_bins |-> Buckets(tally.hard), soft_bins |-> Buckets(tally.soft)]

\* Variant for a sensitivity check: each redaction forgets the ones before it.
RedactAfresh(bucket, min_cohort) == [bucket EXCEPT !.withheld = bucket.count < min_cohort]

\* The size stays in the bucket; a mark is set and never taken back.
Redact(bucket, min_cohort) ==
  [bucket EXCEPT !.withheld = @ \/ bucket.count < min_cohort]

RedactAll(buckets, min_cohort) ==
  [bin \in DOMAIN buckets |-> Redact(buckets[bin], min_cohort)]

PublishableCount(bucket, min_cohort) ==
  IF bucket.withheld THEN min_cohort ELSE bucket.count

----------------------------------------------------------------------------
(* The flow                                                                *)

OutcomeInit ==
  /\ Init
  /\ distribution = NoDistribution
  /\ redactedFor = 0

\* BinDistribution::from_tally
Summarize ==
  /\ phase = "recorded"
  /\ ~IsBuilt
  /\ distribution' = FromTally
  /\ UNCHANGED <<vars, redactedFor>>

\* BinDistribution::redact_below_cohort: every bucket of both taxonomies.
RedactBelowCohort(min_cohort) ==
  /\ IsBuilt
  /\ distribution' =
       [distribution EXCEPT !.hard_bins = RedactAll(@, min_cohort),
                            !.soft_bins = RedactAll(@, min_cohort)]
  /\ redactedFor' = IF min_cohort > redactedFor THEN min_cohort ELSE redactedFor
  /\ UNCHANGED vars

OutcomeNext ==
  \/ Next /\ UNCHANGED outcomeVars
  \/ Summarize
  \/ \E min_cohort \in Cohorts : RedactBelowCohort(min_cohort)

OutcomeSpec == OutcomeInit /\ [][OutcomeNext]_allVars

----------------------------------------------------------------------------
(* What the bin summary guarantees                                         *)

AllBuckets ==
  {distribution.hard_bins[bin] : bin \in DOMAIN distribution.hard_bins}
    \cup {distribution.soft_bins[bin] : bin \in DOMAIN distribution.soft_bins}

\* Once redacted for a cohort, no bucket is published below it, whatever
\* smaller cohorts the summary is redacted for or published with later: the
\* number shown for any cohort up to that one reaches the cohort asked for
\* (redact_below_cohort and publishable_count together).
NothingBelowCohort ==
  IsBuilt =>
    \A bucket \in AllBuckets, n \in Cohorts :
      n <= redactedFor => PublishableCount(bucket, n) >= n

\* outcome.rs: withheld counts "keep their keys but hide their sizes", that
\* is, a withheld bucket of the summary does not hold the size of its bin.
WithheldSizesHidden ==
  IsBuilt =>
    \A bin \in DOMAIN distribution.hard_bins :
      distribution.hard_bins[bin].withheld =>
        distribution.hard_bins[bin].count # tally.hard[bin]
=============================================================================
