------------------------------ MODULE DefensiveLab -----------------------------
(***************************************************************************)
(* SpectreV1::run_demo, SpectreV1::run_reliability_lab and the phase 5 lab *)
(* DefensiveLab::run that is built on the latter.  What a run reads of the *)
(* program's own array is up to the processor: any of the bytes may be the *)
(* right ones.  The module is about what the program makes of them, the    *)
(* counts and the report, and about what the array holds meanwhile.        *)
(***************************************************************************)
EXTENDS ReportFile, Integers, FiniteSets, Functions

CONSTANT SecretLength  \* sizeof(kSecret) - 1

ASSUME SecretAssumption == SecretLength \in Nat \ {0}

Secret == 1 .. SecretLength

VARIABLES
  lab_phase,     \* "idle", "runs", "events", "report", "done" or "thrown"
  phase5,        \* the runs are those of the phase 5 lab
  lab_runs, tries_per_byte,   \* the parameters of the call
  lab_run,                    \* the loop's variable
  array1,        \* "zero", as the program starts, or "secret", once kSecret was copied
  matched,       \* the demo's verdict, "none" before it
  exact_matches, correct_bytes, per_byte_correct_runs,
  alerts,        \* the alerts: all, those confirmed, and the false ones
  lab_written    \* report_written

call == <<phase5, lab_runs, tries_per_byte>>
recovery == <<exact_matches, correct_bytes, per_byte_correct_runs>>
labState == <<lab_phase, call, lab_run, array1, matched, recovery, alerts, lab_written>>
labVars == <<report, labState>>

NoAlerts == [all |-> 0, confirmed |-> 0, false_positives |-> 0]

LabIdle ==
  /\ lab_phase = "idle" /\ phase5 = FALSE /\ lab_runs = 0 /\ tries_per_byte = 0 /\ lab_run = 0
  /\ array1 = "zero" /\ matched = "none"
  /\ exact_matches = 0 /\ correct_bytes = 0
  /\ per_byte_correct_runs = [byte \in Secret |-> 0]
  /\ alerts = NoAlerts /\ lab_written = FALSE

\* run_demo: kSecret is copied behind the array's architectural part and read from there,
\* unless there is no room for the readings the threshold is calibrated by.
RunDemo(tries) ==
  /\ lab_phase = "idle"
  /\ tries_per_byte' = tries
  /\ \/ tries <= 0 /\ lab_phase' = "done" /\ UNCHANGED <<array1, matched>>
     \/ tries > 0 /\ lab_phase' = "done" /\ array1' = "secret" /\ matched' \in {"YES", "NO"}
     \/ tries > 0 /\ lab_phase' = "thrown" /\ array1' = "secret" /\ UNCHANGED matched
  /\ UNCHANGED <<report, phase5, lab_runs, lab_run, recovery, alerts, lab_written>>

\* run_reliability_lab, called by main or by DefensiveLab::run.
StartLab(runs, tries, with_report) ==
  /\ lab_phase = "idle"
  /\ phase5' = with_report /\ lab_runs' = runs /\ tries_per_byte' = tries
  /\ lab_phase' = IF runs <= 0 \/ tries <= 0 THEN "done" ELSE "runs"
  /\ UNCHANGED <<report, lab_run, array1, matched, recovery, alerts, lab_written>>

\* Mutant: a run is exact when most of its bytes are right.
AlmostExact(right) == right # {}

\* memcmp of all of it.
Exact(right) == right = Secret

\* A run of the lab: the bytes it gets right are counted three times.
ReliabilityRun ==
  /\ lab_phase = "runs" /\ lab_run < lab_runs
  /\ \E right \in SUBSET Secret :
       /\ exact_matches' = exact_matches + (IF Exact(right) THEN 1 ELSE 0)
       /\ correct_bytes' = correct_bytes + Cardinality(right)
       /\ per_byte_correct_runs' = [byte \in Secret |->
            per_byte_correct_runs[byte] + (IF byte \in right THEN 1 ELSE 0)]
  /\ lab_run' = lab_run + 1
  /\ UNCHANGED <<report, lab_phase, call, array1, matched, alerts, lab_written>>

\* main prints what was counted; the phase 5 lab goes on with its events.
EndRuns ==
  /\ lab_phase = "runs" /\ lab_run = lab_runs
  /\ lab_phase' = IF phase5 THEN "events" ELSE "done"
  /\ UNCHANGED <<report, call, lab_run, array1, matched, recovery, alerts, lab_written>>

\* make_events: three alerts, all of them confirmed, and two events that were blocked.
LabEvents ==
  { [name |-> "spectre_reliability_fixture", alert |-> TRUE, confirmed |-> TRUE],
    [name |-> "simulated_local_collection", alert |-> TRUE, confirmed |-> TRUE],
    [name |-> "simulated_export", alert |-> TRUE, confirmed |-> TRUE],
    [name |-> "network_egress", alert |-> FALSE, confirmed |-> FALSE],
    [name |-> "persistence", alert |-> FALSE, confirmed |-> FALSE] }

CountAlerts ==
  /\ lab_phase = "events"
  /\ LET raised == {event \in LabEvents : event.alert}
         confirmed == {event \in raised : event.confirmed}
     IN  alerts' = [all |-> Cardinality(raised), confirmed |-> Cardinality(confirmed),
                    false_positives |-> Cardinality(raised \ confirmed)]
  /\ lab_phase' = "report"
  /\ UNCHANGED <<report, call, lab_run, array1, matched, recovery, lab_written>>

WriteLabReport(path) ==
  /\ lab_phase = "report"
  /\ lab_phase' = "done"
  /\ WriteReport(path, lab_written')
  /\ UNCHANGED <<call, lab_run, array1, matched, recovery, alerts>>

\* Readings are collected in vectors: one that cannot grow ends the lab.
ThrowLab ==
  /\ lab_phase \in {"runs", "events"}
  /\ lab_phase' = "thrown"
  /\ UNCHANGED <<report, call, lab_run, array1, matched, recovery, alerts, lab_written>>

LabNext ==
  \/ \E tries \in Int : RunDemo(tries)
  \/ \E runs, tries \in Int, with_report \in BOOLEAN : StartLab(runs, tries, with_report)
  \/ ReliabilityRun \/ EndRuns \/ CountAlerts \/ ThrowLab
  \/ \E path \in STRING : WriteLabReport(path)

LabSpec == LabIdle /\ report = "none" /\ [][LabNext]_labVars

-------------------------------------------------------------------------------
(* Properties.                                                             *)

\* The three counts of the reliability lab are of the same bytes: together the bytes'
\* counts are all the right ones, a byte is right in every exact run, and a run that is
\* not exact has a byte that is wrong in it.
CountsAgree ==
  /\ correct_bytes = FoldFunction(+, 0, per_byte_correct_runs)
  /\ \A byte \in Secret : exact_matches <= per_byte_correct_runs[byte]
  /\ \A byte \in Secret : per_byte_correct_runs[byte] <= lab_run
  /\ lab_run * SecretLength - correct_bytes >= lab_run - exact_matches

\* README.md says of the reliability lab that it "repeats the same in-process synthetic
\* target" as the demo: what is read is the secret it is compared with.
TargetInPlace == lab_phase = "runs" => array1 = "secret"
===============================================================================
