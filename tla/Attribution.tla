----------------------------- MODULE Attribution -----------------------------
(***************************************************************************)
(* The attribution engine: compute_correlation (services/                  *)
(* attribution-engine/correlation.py), the Celery task that runs it        *)
(* (gateway/tasks/attribution.py), and the endpoints that trigger it and   *)
(* show its results (gateway/api/v1/attribution.py), for one business.     *)
(*                                                                         *)
(* A run is one execution of the task: one transaction that reads the      *)
(* signals of a period, computes, inserts a correlation and commits.  Runs *)
(* overlap; computed_at is now(), the time the transaction began.          *)
(* Signals are written by nothing in the repository: they come from        *)
(* outside, at any time, and may have occurred before others that came.    *)
(*                                                                         *)
(* Time is counted in units of which Day make a day; Lag is the lag        *)
(* window in these units.  A score is kept as the two counts it divides.   *)
(***************************************************************************)
EXTENDS Integers, FiniteSets

CONSTANTS
  Signal,               \* [id, type, at]: the signals there may be
  Period,               \* [start, end], as callers ask for, start after end included
  Run,
  Day,
  Lag                   \* _DEFAULT_LAG_WINDOW_DAYS

SignalType == {"whatsapp_click", "direction_request", "call", "other"}

ASSUME AttributionAssumption ==
  /\ Signal \subseteq [id : Nat, type : SignalType, at : Int]
  /\ IsFiniteSet(Signal)
  /\ Period \subseteq [start : Int, end : Int] /\ Period # {}
  /\ IsFiniteSet(Run)
  /\ Day \in Nat \ {0}
  /\ Lag \in Nat

VARIABLES
  signals,              \* attribution_signals, as committed
  run,                  \* the executions of the task, with the rows they wrote
  begun                 \* how many have begun: their order is that of computed_at

attributionVars == <<signals, run, begun>>

-----------------------------------------------------------------------------
(* compute_correlation: from a set of signals to the numbers of a period. *)

In(p, s) == p.start <= s.at /\ s.at < p.end

IsCampaign(s) == s.type = "whatsapp_click"

IsOutcome(s) == s.type \in {"direction_request", "call"}

DrivesNear(c, o) == o.at - Lag <= c.at /\ c.at <= o.at + Lag    \* variant: on either side

(* A campaign signal in [outcome_time - lag, outcome_time]. *)
Drives(c, o) == o.at - Lag <= c.at /\ c.at <= o.at

Outcomes(S) == {o \in S : IsOutcome(o)}

Attributed(S) == {o \in Outcomes(S) : \E c \in S : IsCampaign(c) /\ Drives(c, o)}

(* max((period_end - period_start).days, 1). *)
DaysIn(p) == IF p.end - p.start < Day THEN 1 ELSE (p.end - p.start) \div Day

DaysWithSignal(S) == Cardinality({s.at \div Day : s \in S})

CompletenessUncapped(p, S) == (100 * DaysWithSignal(S)) \div DaysIn(p) \* variant: no min()

Completeness(p, S) ==
  LET pct == (100 * DaysWithSignal(S)) \div DaysIn(p) IN IF pct > 100 THEN 100 ELSE pct

Correlation(p, all) ==
  LET S == {s \in all : In(p, s)}
  IN [attributed |-> Cardinality(Attributed(S)), outcomes |-> Cardinality(Outcomes(S)),
      completeness |-> Completeness(p, S)]

NoCorrelation == [attributed |-> 0, outcomes |-> 0, completeness |-> 0]

-----------------------------------------------------------------------------
AnyPeriod == CHOOSE p \in Period : TRUE

AttributionTypeOK ==
  /\ signals \subseteq Signal
  /\ run \in [Run -> [step : {"idle", "queued", "begun", "flushed", "done", "lost"},
                      period : Period, computed_at : 0..Cardinality(Run),
                      knew : SUBSET Signal, saw : SUBSET Signal,
                      result : [attributed : Nat, outcomes : Nat, completeness : 0..100]]]
  /\ \A x \in Run : run[x].result.attributed <= run[x].result.outcomes
  /\ begun \in 0..Cardinality(Run)

AttributionInit ==
  /\ signals = {}
  /\ run = [x \in Run |-> [step |-> "idle", period |-> AnyPeriod, computed_at |-> 0,
                           knew |-> {}, saw |-> {}, result |-> NoCorrelation]]
  /\ begun = 0

Arrive(s) ==
  /\ s \notin signals
  /\ signals' = signals \cup {s}
  /\ UNCHANGED <<run, begun>>

(* POST /attribution/compute-correlation: any period is queued. *)
Trigger(x, p) ==
  /\ run[x].step = "idle"
  /\ run' = [run EXCEPT ![x].step = "queued", ![x].period = p]
  /\ UNCHANGED <<signals, begun>>

(* The worker takes the task, and the first statement begins a transaction. *)
(* An empty period raises ValueError before that.                           *)
Begin(x) ==
  /\ run[x].step = "queued"
  /\ run[x].period.start < run[x].period.end
  /\ begun' = begun + 1
  /\ run' = [run EXCEPT ![x].step = "begun", ![x].computed_at = begun + 1,
                        ![x].knew = signals]
  /\ UNCHANGED signals

(* The signals are read, and the correlation is flushed. *)
Compute(x) ==
  /\ run[x].step = "begun"
  /\ run' = [run EXCEPT ![x].step = "flushed", ![x].saw = signals,
                        ![x].result = Correlation(run[x].period, signals)]
  /\ UNCHANGED <<signals, begun>>

CommitRun(x) ==
  /\ run[x].step = "flushed"
  /\ run' = [run EXCEPT ![x].step = "done"]
  /\ UNCHANGED <<signals, begun>>

(* ValueError, a statement that fails, or the worker dies: the task is not  *)
(* tried again, and nobody is told.                                         *)
LoseRun(x) ==
  /\ run[x].step \in {"queued", "begun", "flushed"}
  /\ run' = [run EXCEPT ![x] = [@ EXCEPT !.step = "lost", !.knew = {}, !.saw = {},
                                         !.result = NoCorrelation]]
  /\ UNCHANGED <<signals, begun>>

AttributionNext ==
  \/ \E s \in Signal : Arrive(s)
  \/ \E x \in Run :
       \/ Begin(x) \/ Compute(x) \/ CommitRun(x) \/ LoseRun(x)
       \/ \E p \in Period : Trigger(x, p)

AttributionSpec == AttributionInit /\ [][AttributionNext]_attributionVars

-----------------------------------------------------------------------------
Done == {x \in Run : run[x].step = "done"}

(* attribution_summary: ORDER BY computed_at DESC LIMIT 1. *)
LatestFirst(x, y) == run[x].computed_at >= run[y].computed_at

Shown(x) == x \in Done /\ \A y \in Done : LatestFirst(x, y)

(* "The fraction of outcome signals that followed a campaign signal within  *)
(* the lag window" (correlation.py:10), of all the signals there are.       *)
Followed(p, all) ==
  {o \in all : /\ In(p, o) /\ IsOutcome(o)
               /\ \E c \in all : IsCampaign(c) /\ 0 <= o.at - c.at /\ o.at - c.at <= Lag}

(* A campaign signal before the period, but within the lag of its start. *)
Early(p, all) ==
  \E c \in all : IsCampaign(c) /\ p.start - Lag <= c.at /\ c.at < p.start

(* The summary shows the fraction it says, unless a campaign signal came    *)
(* just before the period: such a one is not read, and the fraction is too  *)
(* low.  And it is as fresh as any: it was computed from all the signals    *)
(* that were there when the last of the completed runs began, although the  *)
(* runs overlap and end in any order.                                       *)
SummaryIsProxy ==
  \A x \in Run : Shown(x) =>
    LET p == run[x].period
        followed == Cardinality(Followed(p, run[x].saw))
    IN /\ run[x].result.attributed <= followed
       /\ ~Early(p, run[x].saw) => run[x].result.attributed = followed
       /\ \A y \in Done : run[y].knew \subseteq run[x].saw
=============================================================================
