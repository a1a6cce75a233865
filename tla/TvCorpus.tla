------------------------------ MODULE TvCorpus -------------------------------
(***************************************************************************)
(* The bars a batch run calculates on (openpine/batch/runner.py,           *)
(* openpine/batch/tv_corpus.py): provider bars for the prehistory, laid    *)
(* over with the rows the TradingView corpus shows for the same times and  *)
(* then with the rows of the entry's own chart; and the alignment of       *)
(* Pine's bar_index with the chart, read off plotted bar-index columns or  *)
(* off periodic gaps.  Times are bar numbers, a bar is a time and the      *)
(* place its prices come from; a list of bars sorted by time is a set, in  *)
(* which the index of a bar is the number of bars before it.  A chart's    *)
(* column is the set of its rows that are na.                              *)
(***************************************************************************)
EXTENDS Integers, Sequences, FiniteSets, FiniteSetsExt

CONSTANTS TvTimes,     \* the bar numbers, 0..n
          TvRequests   \* the requests considered (see RequestType)

VARIABLES tvReq,         \* the request being served
          tvStep,      \* its step
          bars,        \* the bars so far, a set of [time, from, nth]
          fit,         \* the alignment read off the na columns so far
          shift        \* the inferred alignment: [offset, used]

tvVars == <<tvReq, tvStep, bars, fit, shift>>

\* kind; provider: the times the provider has; corpus: the times shown by each chart
\* of the same group; chart: the times of the entry's own chart; flags; barColumns: the bar index
\* at the first row of each plotted bar-index column; naColumns: the na rows of the rest.
RequestType ==
  [kind : {"indicator", "strategy"}, provider : SUBSET TvTimes, corpus : Seq(SUBSET TvTimes),
   chart : SUBSET TvTimes, authoritative : BOOLEAN, providerOnly : BOOLEAN,
   barColumns : Seq(Nat), naColumns : Seq(SUBSET Nat)]

ASSUME CorpusAssumption ==
  /\ TvTimes \subseteq Nat /\ IsFiniteSet(TvTimes)
  /\ TvRequests \subseteq RequestType

NoShift == [offset |-> 0, used |-> {}]

\* column: the next one; used: the columns whose constraint was taken, which together say
\* that bar_index is residue modulo modulus at the chart's first row.
NoFit == [column |-> 1, modulus |-> 1, residue |-> 0, used |-> {}]

BarType == [time : TvTimes, from : {"provider", "corpus", "chart"}, nth : Nat]

\* Every variable keeps its type.
TvTypeOK ==
  /\ tvReq \in TvRequests
  /\ tvStep \in {"load", "align", "columns", "done", "raised"}
  /\ bars \subseteq BarType
  /\ fit.modulus \in Nat \ {0} /\ fit.residue \in 0..(fit.modulus - 1)
  /\ fit.column \in 1..(Len(tvReq.naColumns) + 1)
  /\ shift.offset \in Int
  /\ fit.used \subseteq DOMAIN tvReq.naColumns /\ shift.used \subseteq fit.used

TvInit ==
  /\ tvReq \in TvRequests
  /\ tvStep = "load"
  /\ bars = {} /\ fit = NoFit /\ shift = NoShift

TvRaise == tvStep' = "raised" /\ UNCHANGED <<tvReq, bars, fit, shift>>

\* read_chart with build_chart_export: the rows of the chart.
ChartRows == {[time |-> t, from |-> "chart", nth |-> 0] : t \in tvReq.chart}

\* Mutant: the rows of the chart join the bars they should replace.
MergeTvVisibleBars_Append(old) == old \cup ChartRows

\* _merge_tv_visible_bars: the chart's rows replace the bars of the same times.
MergeTvVisibleBars(old) == {b \in old : b.time \notin tvReq.chart} \cup ChartRows

\* load_visible_bars_by_time: of the corpus charts that show a time the first one counts,
\* a later one that disagrees is a conflict and is passed over.
Shows(t) == {i \in DOMAIN tvReq.corpus : t \in tvReq.corpus[i]}
CorpusChart(t) == Min(Shows(t))

\* merge_visible_bars: the provider's bars keep their times, with the corpus's prices.
MergeVisibleBars(old) ==
  {IF Shows(b.time) = {} THEN b
   ELSE [time |-> b.time, from |-> "corpus", nth |-> CorpusChart(b.time)] : b \in old}

AuthoritativeBars ==
  /\ tvStep = "load" /\ tvReq.authoritative
  /\ IF tvReq.kind = "strategy" \/ tvReq.chart = {}
     THEN TvRaise
     ELSE /\ bars' = MergeTvVisibleBars({})
          /\ tvStep' = "align"
          /\ UNCHANGED <<tvReq, fit, shift>>

ProviderBars ==
  /\ tvStep = "load" /\ ~tvReq.authoritative
  /\ IF tvReq.provider = {} \/ (~tvReq.providerOnly /\ tvReq.kind = "strategy")
     THEN TvRaise
     ELSE LET loaded == {[time |-> t, from |-> "provider", nth |-> 0] : t \in tvReq.provider}
          IN  /\ bars' = IF tvReq.providerOnly THEN loaded
                          ELSE MergeTvVisibleBars(MergeVisibleBars(loaded))
              /\ tvStep' = "align"
              /\ UNCHANGED <<tvReq, fit, shift>>

-----------------------------------------------------------------------------
(* The alignment of bar_index.                                             *)

Gcd(a, b) == Max({d \in 1..a : a % d = 0 /\ b % d = 0})
Lcm(a, b) == (a * b) \div Gcd(a, b)

\* The local index of the first bar the chart shows, or -1.
FirstVisible ==
  IF \E b \in bars : b.time >= Min(tvReq.chart)
  THEN Cardinality({b \in bars : b.time < Min(tvReq.chart)}) ELSE -1

\* A column whose na rows lie one period apart says what bar_index is modulo the period
\* at the chart's first row.
Gap(na, row) == Min({later \in na : later > row}) - row
Period(na) == Gap(na, Min(na))
IsPeriodic(na) ==
  /\ Cardinality(na) >= 3
  /\ Period(na) \in 2..128
  /\ \A row \in na : (\E later \in na : later > row) => Gap(na, row) = Period(na)
Residue(na) == (-Min(na)) % Period(na)

\* _infer_tv_bar_index_offset: plotted bar-index columns decide when they agree; without
\* any the na columns are asked.
InferOffset ==
  LET first == FirstVisible
      offsets == {tvReq.barColumns[i] - first : i \in DOMAIN tvReq.barColumns}
  IN  /\ tvStep = "align"
      /\ tvStep' = IF first # -1 /\ offsets = {} THEN "columns" ELSE "done"
      /\ shift' = IF first # -1 /\ Cardinality(offsets) = 1
                  THEN [offset |-> CHOOSE o \in offsets : TRUE, used |-> {}] ELSE NoShift
      /\ UNCHANGED <<tvReq, bars, fit>>

Column == tvReq.naColumns[fit.column]

\* What range(residue, combined_modulus, modulus) holds with the residue of the column.
Candidates(modulus, residue, period, rest) ==
  {c \in residue..(Lcm(modulus, period) - 1) :
     (c - residue) % modulus = 0 /\ c % period = rest}

\* _infer_tv_bar_index_offset_from_periodic_na: constraints are taken in the order of the
\* columns; one that contradicts those before it is dropped.
TakeColumn ==
  /\ tvStep = "columns" /\ fit.column <= Len(tvReq.naColumns)
  /\ fit' =
       IF \/ ~IsPeriodic(Column)
          \/ (Residue(Column) - fit.residue) % Gcd(fit.modulus, Period(Column)) # 0
       THEN [fit EXCEPT !.column = @ + 1]
       ELSE [column |-> fit.column + 1, used |-> fit.used \cup {fit.column},
             modulus |-> Lcm(fit.modulus, Period(Column)),
             residue |-> Min(Candidates(fit.modulus, fit.residue, Period(Column), Residue(Column)))]
  /\ UNCHANGED <<tvReq, tvStep, bars, shift>>

\* Its last lines: one constraint alone is no evidence.
UseColumns ==
  /\ tvStep = "columns" /\ fit.column > Len(tvReq.naColumns)
  /\ tvStep' = "done"
  /\ shift' = IF Cardinality(fit.used) < 2 \/ fit.modulus <= 1 THEN NoShift
              ELSE [offset |-> (fit.residue - (FirstVisible % fit.modulus)) % fit.modulus,
                    used |-> fit.used]
  /\ UNCHANGED <<tvReq, bars, fit>>

TvServed == tvStep \in {"done", "raised"} /\ UNCHANGED tvVars

TvNext == AuthoritativeBars \/ ProviderBars \/ InferOffset \/ TakeColumn \/ UseColumns \/ TvServed

TvSpec == TvInit /\ [][TvNext]_tvVars

-----------------------------------------------------------------------------
(* Properties.                                                             *)

\* What a run calculates on has one bar per time; the chart's own rows win over the corpus,
\* the corpus over the provider and a corpus chart over the ones listed after it; a strategy
\* sees provider bars only (load_calculation_bars).
CalculationBarsAreMerged ==
  tvStep = "done" =>
  /\ \A b, c \in bars : b.time = c.time => b = c
  /\ {b.time : b \in bars} =
       (IF tvReq.authoritative THEN {} ELSE tvReq.provider)
         \cup (IF tvReq.providerOnly /\ ~tvReq.authoritative THEN {} ELSE tvReq.chart)
  /\ \A b \in bars :
       /\ tvReq.kind = "strategy" => b.from = "provider"
       /\ b.from # "chart" => tvReq.providerOnly \/ b.time \notin tvReq.chart
       /\ b.from = "provider" => tvReq.providerOnly \/ Shows(b.time) = {}
       /\ b.from = "corpus" => \A i \in 1..(b.nth - 1) : b.time \notin tvReq.corpus[i]

\* With the inferred offset every na row of every column that was used falls on a bar
\* index divisible by the column's period, so Pine's bar_index % n == 0 is reproduced.
OffsetFitsChart ==
  tvStep = "done" =>
  \A i \in shift.used : \A row \in tvReq.naColumns[i] :
    (FirstVisible + row + shift.offset) % Period(tvReq.naColumns[i]) = 0

\* The corpus runner calculates on the chart's bars, once each, with an offset that
\* reproduces the chart's bar_index (load_calculation_bars, _infer_tv_bar_index_offset).
CorpusFitsChart == TvTypeOK /\ CalculationBarsAreMerged /\ OffsetFitsChart
=============================================================================
