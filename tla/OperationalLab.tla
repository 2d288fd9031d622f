---------------------------- MODULE OperationalLab -----------------------------
(***************************************************************************)
(* OperationalLab::run: a catalogue of synthetic events is gone through    *)
(* once, what was counted is multiplied by the number of runs, and a set   *)
(* of benign events is added to compare the false positives with.  All of  *)
(* it is counted in ints; a product that does not fit wraps around.        *)
(***************************************************************************)
EXTENDS MachineInt, ReportFile

\* scenarios(): the events of the catalogue, those a control detects and those recovered.
Catalogue == 9
Detectable == 1 .. Catalogue
Recoverable == 1 .. Catalogue

\* The catalogue is counted without wrapping: an int has at least 16 bits.
ASSUME CatalogueAssumption == Catalogue < IntMax

VARIABLES
  op_phase,     \* "idle", "count", "report" or "done"
  op_runs,      \* the number of runs, 0 before the call
  event,        \* the next event of the catalogue
  op_written,   \* report_written
  events_generated, detected_events, missed_events, recovery_attempts, recovered_events,
  benign_events, false_positive_events

counters == <<detected_events, missed_events, recovery_attempts, recovered_events>>
benign == <<benign_events, false_positive_events>>
operationalState == <<op_phase, op_runs, event, op_written, events_generated, counters, benign>>
operationalVars == <<report, operationalState>>

OperationalIdle ==
  /\ op_phase = "idle" /\ op_runs = 0 /\ event = 1 /\ op_written = FALSE
  /\ events_generated = 0 /\ detected_events = 0 /\ missed_events = 0
  /\ recovery_attempts = 0 /\ recovered_events = 0
  /\ benign_events = 0 /\ false_positive_events = 0

\* The call; it comes back at once when there is nothing to run or to write to.
StartOperational(runs, path) ==
  /\ op_phase = "idle"
  /\ op_runs' = runs
  /\ IF runs <= 0 \/ path = ""
       THEN op_phase' = "done" /\ UNCHANGED events_generated
       ELSE op_phase' = "count" /\ events_generated' = Wrap(Catalogue * runs)
  /\ UNCHANGED <<report, event, op_written, counters, benign>>

\* Mutant: the last event is both detected and missed.
CountTwice ==
  /\ op_phase = "count" /\ event <= Catalogue
  /\ detected_events' = detected_events + 1
  /\ missed_events' = missed_events + (IF event = Catalogue THEN 1 ELSE 0)
  /\ recovery_attempts' = recovery_attempts + 1 /\ recovered_events' = recovered_events + 1
  /\ event' = event + 1
  /\ UNCHANGED <<report, op_phase, op_runs, op_written, events_generated, benign>>

\* One event of the catalogue is either detected or missed; only what is detected and can
\* be recovered is tried, and then it is.
CountEvent ==
  /\ op_phase = "count" /\ event <= Catalogue
  /\ IF event \in Detectable
       THEN detected_events' = detected_events + 1 /\ UNCHANGED missed_events
       ELSE missed_events' = missed_events + 1 /\ UNCHANGED detected_events
  /\ IF event \in Detectable \intersect Recoverable
       THEN /\ recovery_attempts' = recovery_attempts + 1
            /\ recovered_events' = recovered_events + 1
       ELSE UNCHANGED <<recovery_attempts, recovered_events>>
  /\ event' = event + 1
  /\ UNCHANGED <<report, op_phase, op_runs, op_written, events_generated, benign>>

\* Mutant: the benign events are not kept in an int.
ScaleWider ==
  /\ op_phase = "count" /\ event > Catalogue
  /\ op_phase' = "report"
  /\ detected_events' = Wrap(detected_events * op_runs)
  /\ missed_events' = Wrap(missed_events * op_runs)
  /\ recovery_attempts' = Wrap(recovery_attempts * op_runs)
  /\ recovered_events' = Wrap(recovered_events * op_runs)
  /\ benign_events' = op_runs * 20
  /\ false_positive_events' = op_runs
  /\ UNCHANGED <<report, op_runs, event, op_written, events_generated>>

\* All counters are multiplied, and the benign events added.
ScaleCounters ==
  /\ op_phase = "count" /\ event > Catalogue
  /\ op_phase' = "report"
  /\ detected_events' = Wrap(detected_events * op_runs)
  /\ missed_events' = Wrap(missed_events * op_runs)
  /\ recovery_attempts' = Wrap(recovery_attempts * op_runs)
  /\ recovered_events' = Wrap(recovered_events * op_runs)
  /\ benign_events' = Wrap(op_runs * 20)
  /\ false_positive_events' = op_runs
  /\ UNCHANGED <<report, op_runs, event, op_written, events_generated>>

WriteOperationalReport(path) ==
  /\ op_phase = "report"
  /\ op_phase' = "done"
  /\ WriteReport(path, op_written')
  /\ UNCHANGED <<op_runs, event, events_generated, counters, benign>>

OperationalNext ==
  \/ \E runs \in Ints, path \in STRING : StartOperational(runs, path)
  \/ CountEvent
  \/ ScaleCounters
  \/ \E path \in STRING : WriteOperationalReport(path)

OperationalSpec == OperationalIdle /\ report = "none" /\ [][OperationalNext]_operationalVars

-------------------------------------------------------------------------------
(* Properties.                                                             *)

Counted == op_phase = "report" \/ (op_phase = "done" /\ false_positive_events # 0)

\* tests/operational_lab_test.cpp asserts the rates of two runs: 100% detected and
\* recovered, 5% false positives.  They are the same for every number of runs whose
\* products fit into an int: all events are either detected or missed, every attempt at a
\* recovery has its event, and there are twenty benign events to each false positive.
RatesExact ==
  Counted /\ 20 * op_runs <= IntMax =>
    /\ events_generated = Catalogue * op_runs
    /\ detected_events + missed_events = events_generated
    /\ recovery_attempts = recovered_events /\ recovered_events <= detected_events
    /\ benign_events = 20 * false_positive_events /\ false_positive_events > 0
===============================================================================
