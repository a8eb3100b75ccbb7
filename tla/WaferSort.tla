----------------------------- MODULE WaferSort -----------------------------
(***************************************************************************)
(* From the results of a wafer's dies to the counters of its STDF file:    *)
(* sort_wafer and tally (src/tpt-ate-test/src/bin_sort.rs) over the wafer  *)
(* map (wafer.rs) and the bin taxonomy (bins.rs), and the summary records  *)
(* of build_wafer_run_records (recording.rs).                              *)
(*                                                                         *)
(* The same results are counted twice, by two loops that know different    *)
(* things: sort_wafer places them on the map, where a second result for a  *)
(* die replaces the first and a result for an untestable site has no       *)
(* place; tally counts every one of them.  The file takes some counters    *)
(* from the one and some from the other.                                   *)
(***************************************************************************)
EXTENDS Integers, Sequences, FiniteSets, FiniteSetsExt, Functions

CONSTANTS
  Sites,       \* coordinates of WaferDieMap::dies
  Excluded,    \* those whose DieState is Excluded
  OffLayout,   \* coordinates no site has, which a tester may report
  Tests,       \* TestProgram::tests, as records [number, failSoftBin]
  Groups,      \* TestProgram::pattern_groups, likewise
  HardBinOf,   \* BinTaxonomy::soft_bins: hard bin of each defined soft bin
  PassHardBins,  \* hard bins whose definition says pass
  MaxResults   \* bound: how many results a run has

ASSUME SiteAssumption == Excluded \subseteq Sites /\ OffLayout \cap Sites = {}
ASSUME TaxonomyAssumption == 1 \in DOMAIN HardBinOf /\ HardBinOf[1] \in PassHardBins
ASSUME ProgramAssumption ==
  /\ Tests \in Seq([number : Nat, failSoftBin : Nat])
  /\ Groups \in Seq([number : Nat, failSoftBin : Nat])
  /\ MaxResults \in Nat

VARIABLES
  phase,      \* which function of the flow runs
  results,    \* DieTestResult, in the order the tester gives them
  position,   \* results the current loop has been through
  dies,       \* WaferDieMap::dies
  unmatched,  \* what sort_wafer returns
  tally,      \* BinTally
  summary     \* the counters written to the file

vars == <<phase, results, position, dies, unmatched, tally, summary>>

----------------------------------------------------------------------------
(* Results and bins                                                        *)

Items == Len(Tests) + Len(Groups)

\* The verdicts of the items executed, in execution order: measurements,
\* then patterns.  A tester that aborts has not completed the program.
DieTestResult ==
  UNION {[coord : Sites \cup OffLayout, passed : [1 .. n -> BOOLEAN],
          aborted : {n < Items}] : n \in 0 .. Items}

AbortSoftBin == 12
DefaultParametricSoftBin == 10
DefaultFunctionalSoftBin == 11

\* An unknown soft bin rolls up into the ABORT hard bin.
HardBin(soft) == IF soft \in DOMAIN HardBinOf THEN HardBinOf[soft] ELSE 12

Outcome(passed, soft) == [passed |-> passed, hard |-> HardBin(soft), soft |-> soft]

IsTest(item) == item <= Len(Tests)
ItemSpec(item) == IF IsTest(item) THEN Tests[item] ELSE Groups[item - Len(Tests)]

\* iter().find(|s| s.test_number == number): the first match of its kind.
First(item) ==
  Min({i \in 1 .. Items : IsTest(i) = IsTest(item) /\ ItemSpec(i).number = ItemSpec(item).number})

FailSoftBin(item) ==
  LET declared == ItemSpec(First(item)).failSoftBin
  IN IF declared # 0 THEN declared
     ELSE IF IsTest(item) THEN DefaultParametricSoftBin
     ELSE DefaultFunctionalSoftBin

Failures(r) == {i \in DOMAIN r.passed : ~r.passed[i]}

SortDie(r) ==
  IF r.aborted THEN Outcome(FALSE, AbortSoftBin)
  ELSE IF Failures(r) = {} THEN Outcome(TRUE, 1)
  ELSE Outcome(FALSE, FailSoftBin(Min(Failures(r))))

----------------------------------------------------------------------------
(* The wafer map and the tally                                             *)

Untested == [state |-> "Untested"]
ExcludedDie == [state |-> "Excluded"]
Tested(outcome) == [state |-> "Tested", outcome |-> outcome]

IsTested(die) == die.state = "Tested"

\* WaferDieMap::record: TRUE where a result has a place.
Places(coord) == coord \in DOMAIN dies /\ dies[coord].state # "Excluded"

EmptyTally ==
  [tested |-> 0, passed |-> 0, hard |-> [b \in {} |-> 0], soft |-> [b \in {} |-> 0],
   aborted |-> 0]

\* Variant for a sensitivity check: the bin is set to one, not increased.
SetToOne(bins, bin) ==
  [b \in DOMAIN bins \cup {bin} |-> IF b = bin THEN 1 ELSE bins[b]]

\* *bins.entry(bin).or_insert(0) += 1
Count(bins, bin) ==
  [b \in DOMAIN bins \cup {bin} |->
     (IF b \in DOMAIN bins THEN bins[b] ELSE 0) + (IF b = bin THEN 1 ELSE 0)]

\* Variant for a sensitivity check: an aborted die is counted again.
AbortedTwice(t, outcome, aborted) ==
  [tested |-> t.tested + (IF aborted THEN 2 ELSE 1),
   passed |-> t.passed + (IF outcome.passed THEN 1 ELSE 0),
   hard |-> Count(t.hard, outcome.hard),
   soft |-> Count(t.soft, outcome.soft),
   aborted |-> t.aborted + (IF aborted THEN 1 ELSE 0)]

\* Variant for a sensitivity check: every die that is not aborted has passed.
NotAbortedPassed(t, outcome, aborted) ==
  [tested |-> t.tested + 1,
   passed |-> t.passed + (IF ~aborted THEN 1 ELSE 0),
   hard |-> Count(t.hard, outcome.hard),
   soft |-> Count(t.soft, outcome.soft),
   aborted |-> t.aborted + (IF aborted THEN 1 ELSE 0)]

\* BinTally::record, and the abort counter of tally.
Tally(t, outcome, aborted) ==
  [tested |-> t.tested + 1,
   passed |-> t.passed + (IF outcome.passed THEN 1 ELSE 0),
   hard |-> Count(t.hard, outcome.hard),
   soft |-> Count(t.soft, outcome.soft),
   aborted |-> t.aborted + (IF aborted THEN 1 ELSE 0)]

\* WaferDieMap::tested_counts
TestedDies == {c \in DOMAIN dies : IsTested(dies[c])}
PassedDies == {c \in TestedDies : dies[c].outcome.passed}

----------------------------------------------------------------------------
(* The summary records                                                     *)

\* Variant for a sensitivity check: a die is read as tested when its passed byte is set.
PassedOnly(map) == [c \in {d \in DOMAIN map : map[d].passed} |-> map[c]]

\* encode_wafer_map_gdr and decode_wafer_map_gdr: a die that is not tested
\* is written as zeros, and zeros are read as a die that is not tested.
NoEntry == [passed |-> FALSE, hard |-> 0, soft |-> 0]
Encoded == [c \in DOMAIN dies |-> IF IsTested(dies[c]) THEN dies[c].outcome ELSE NoEntry]
Decoded(map) == [c \in {d \in DOMAIN map : map[d] # NoEntry} |-> map[c]]

\* Variant for a sensitivity check: only results on the map are looked at.
SynopsisOfMap(item) ==
  LET first == First(item)
      picked == {k \in DOMAIN results :
                   first \in DOMAIN results[k].passed /\ Places(results[k].coord)}
  IN [exec |-> Cardinality(picked),
      fail |-> Cardinality({k \in picked : ~results[k].passed[first]})]

\* summarize: how often an item was executed and failed, over all results.
Synopsis(item) ==
  LET first == First(item)
      picked == {k \in DOMAIN results : first \in DOMAIN results[k].passed}
  IN [exec |-> Cardinality(picked),
      fail |-> Cardinality({k \in picked : ~results[k].passed[first]})]

NoSummary == [part |-> 0]

Summary ==
  [part |-> Cardinality(TestedDies),          \* WRR and both PCRs
   good |-> Cardinality(PassedDies),
   abrt |-> tally.aborted,
   hbr |-> tally.hard,
   sbr |-> tally.soft,
   tsr |-> [item \in 1 .. Items |-> Synopsis(item)],
   gdr |-> Encoded]

----------------------------------------------------------------------------
(* The flow                                                                *)

Init ==
  /\ phase = "testing"
  /\ results = <<>>
  /\ position = 0
  /\ dies = [c \in Sites |-> IF c \in Excluded THEN ExcludedDie ELSE Untested]
  /\ unmatched = 0
  /\ tally = EmptyTally
  /\ summary = NoSummary

\* The tester hands over one more result.
Test(r) ==
  /\ phase = "testing"
  /\ Len(results) < MaxResults
  /\ results' = Append(results, r)
  /\ UNCHANGED <<phase, position, dies, unmatched, tally, summary>>

\* Variant for a sensitivity check: the second loop starts where the first one ended.
StartsAtEnd(next) ==
  /\ phase' = next
  /\ UNCHANGED <<results, position, dies, unmatched, tally>>

Starts(next) ==
  /\ phase' = next
  /\ position' = 0
  /\ UNCHANGED <<results, dies, unmatched, tally>>

StartSort == phase = "testing" /\ Starts("sorting") /\ UNCHANGED summary

\* One iteration of sort_wafer.
SortNext ==
  /\ phase = "sorting"
  /\ position < Len(results)
  /\ position' = position + 1
  /\ LET r == results[position + 1]
     IN IF Places(r.coord)
        THEN /\ dies' = [dies EXCEPT ![r.coord] = Tested(SortDie(r))]
             /\ UNCHANGED unmatched
        ELSE /\ unmatched' = unmatched + 1
             /\ UNCHANGED dies
  /\ UNCHANGED <<phase, results, tally, summary>>

StartTally ==
  /\ phase = "sorting"
  /\ position = Len(results)
  /\ Starts("tallying")
  /\ UNCHANGED summary

\* One iteration of tally.
TallyNext ==
  /\ phase = "tallying"
  /\ position < Len(results)
  /\ position' = position + 1
  /\ LET r == results[position + 1]
     IN tally' = Tally(tally, SortDie(r), r.aborted)
  /\ UNCHANGED <<phase, results, dies, unmatched, summary>>

\* build_wafer_run_records
Build ==
  /\ phase = "tallying"
  /\ position = Len(results)
  /\ Starts("recorded")
  /\ summary' = Summary

Next ==
  \/ \E r \in DieTestResult : Test(r)
  \/ StartSort
  \/ SortNext
  \/ StartTally
  \/ TallyNext
  \/ Build

Spec == Init /\ [][Next]_vars

----------------------------------------------------------------------------
(* What the counters of the file guarantee                                 *)

\* Every variable keeps its type.
TypeOK ==
  /\ phase \in {"testing", "sorting", "tallying", "recorded"}
  /\ results \in Seq(DieTestResult)
  /\ position \in 0 .. Len(results)
  /\ \A c \in DOMAIN dies :
       dies[c].state \in {"Untested", "Excluded", "Tested"}
  /\ unmatched \in 0 .. Len(results)
  /\ tally.tested \in 0 .. Len(results)

Recorded == phase = "recorded"

Total(counts) == SumFunction(counts)
CountIn(counts, bin) == IF bin \in DOMAIN counts THEN counts[bin] ELSE 0

\* Results that are on the map no more: their die has a later result.
Replaced ==
  {k \in DOMAIN results :
     /\ results[k].coord \in Sites \ Excluded
     /\ \E j \in DOMAIN results : j > k /\ results[j].coord = results[k].coord}

\* The bins and the wafer counters differ by exactly the results that have
\* no place on the map and those a retest has replaced; nothing else is
\* lost or counted twice.
CountersReconcile ==
  Recorded =>
    /\ Total(summary.hbr) = Len(results)
    /\ Total(summary.sbr) = Len(results)
    /\ Len(results) - summary.part = unmatched + Cardinality(Replaced)

\* On each hard bin, the map (hard_bin_counts) never holds more dies than
\* the HBR says, and as many if every result is on the map.
BinsCoverMap ==
  Recorded =>
    \A bin \in DOMAIN summary.hbr \cup {dies[c].outcome.hard : c \in TestedDies} :
      LET onMap == Cardinality({c \in TestedDies : dies[c].outcome.hard = bin})
      IN /\ onMap <= CountIn(summary.hbr, bin)
         /\ (unmatched = 0 /\ Replaced = {}) => onMap = CountIn(summary.hbr, bin)

\* The bins flagged 'P' in the HBRs hold exactly the results that passed,
\* and never fewer than the good dies of the WRR.  It needs a program none
\* of whose fail bins is a pass bin.
PassBinsHoldGoodDies ==
  (/\ Recorded
   /\ \A item \in 1 .. Items : HardBin(FailSoftBin(item)) \notin PassHardBins
   /\ HardBin(AbortSoftBin) \notin PassHardBins) =>
    LET flagged == [b \in DOMAIN summary.hbr \cap PassHardBins |-> summary.hbr[b]]
    IN Total(flagged) = tally.passed /\ summary.good <= tally.passed

\* No failure is missing from the synopses: a result that did not pass was
\* aborted (WRR abort count) or failed in some item (TSR fail counts).  It
\* needs test numbers that tell the items of a kind apart.
SynopsesExplainFailures ==
  (Recorded /\ \A item \in 1 .. Items : First(item) = item) =>
    Len(results) - tally.passed <=
      summary.abrt + Total([item \in 1 .. Items |-> summary.tsr[item].fail])

\* The wafer map read back from the GDR is the wafer map: each tested die
\* with its outcome, and no other die, although an untested die has no mark
\* of its own.
SnapshotIsMap ==
  Recorded => Decoded(summary.gdr) = [c \in TestedDies |-> dies[c].outcome]
=============================================================================
