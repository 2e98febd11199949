---------------------------- MODULE RecoveryDrill ----------------------------
(***************************************************************************)
(* The disaster-recovery rehearsal of contracts/backup_restore.py, a script*)
(* that backs up production, restores into the schema dr_restore of the    *)
(* production database itself, and then checks "the restored database":    *)
(* through the URL of production, whose search path leads to its own       *)
(* tables.  Steps are the numbered sections of the script, split where an  *)
(* interruption leaves something behind.  The monitor it starts is         *)
(* external (run_monitor.py is not in the repository).                     *)
(***************************************************************************)

Gates ==   \* required_checks
  {"Backup created", "Backup is restorable", "Restore completed", "Production DB unchanged",
   "Blockchain consistency check", "Correct blockchain network", "Monitor restart triggered",
   "Monitor reached recovery target", "API restore profile activated",
   "API state matches restored DB", "Write/read/delete works on restored DB", "RTO measured",
   "RPO measured"}

VARIABLES
  step,
  passed,      \* the gates of report.results that passed
  errors,      \* whether report.errors has an entry
  leaving,     \* the script is on its way out with an exception or a signal
  unwinds,     \* where a handler's exit leads: out of section 11, the rehearsal or main
  said,        \* "Production DB was not modified by DR test" was printed
  saved,       \* the status in the report file
  verdict,
  schema,      \* dr_restore exists in the production database
  testAgent,   \* the test agent is among production's agents
  others,      \* production's agents differ from the baseline by someone else's doing
  baseline,    \* {testAgent} when the fingerprint was taken, {} before
  monitor,     \* the monitor process the script started is alive
  lost         \* history: how the script may have lost hold of its monitor

report == <<passed, errors>>
outcome == <<leaving, said, saved, verdict>>
process == <<monitor, lost>>
world == <<schema, testAgent, others, process>>
drillVars == <<step, report, outcome, unwinds, world, baseline>>

Body == {"validate", "baseline", "backup", "restore", "content", "chain", "monitor", "spawned",
         "watch", "stop", "insert", "delete", "api", "measure", "production"}
Running == Body \cup {"cleanup", "drop", "report", "judge"}

\* A killed rehearsal, or one whose drop failed, may have left its schema or its agent.
DrillInit ==
  /\ step = "validate"
  /\ passed = {} /\ errors = FALSE
  /\ leaving = FALSE /\ said = FALSE /\ saved = "none" /\ verdict = "none" /\ unwinds = "none"
  /\ schema \in BOOLEAN /\ testAgent \in BOOLEAN /\ others = FALSE
  /\ baseline = {} /\ monitor = FALSE /\ lost = "no"

-----------------------------------------------------------------------------
(* _run_rehearsal.  Checks that are no gates can only add an error. *)

Go(from, to) == step = from /\ step' = to

Reports(gates) == passed' = passed \cup gates /\ errors' \in {errors, TRUE}
Fails == errors' = TRUE /\ UNCHANGED passed

\* Gates that pass or fail one by one.
Checks(gates) == \E ok \in SUBSET gates : Reports(ok) /\ (ok # gates => errors' = TRUE)

Validate ==
  /\ \/ Go("validate", "baseline") /\ Reports({})
     \/ Go("validate", "cleanup") /\ Fails
  /\ UNCHANGED <<outcome, unwinds, world, baseline>>

\* Counts, critical agents and the fingerprint of production's agents.
Baseline ==
  /\ Go("baseline", "backup")
  /\ \/ Reports({}) /\ baseline' = {testAgent} /\ others' = FALSE
     \/ Fails /\ UNCHANGED <<baseline, others>>
  /\ UNCHANGED <<outcome, unwinds, schema, testAgent, process>>

Backup ==
  /\ Go("backup", "restore")
  /\ Checks({"Backup created", "Backup is restorable"})
  /\ UNCHANGED <<outcome, unwinds, world, baseline>>

\* psql ends well whatever its statements do: only its absence or a lost connection fails.
Restore ==
  /\ \/ Go("restore", "content") /\ Reports({"Restore completed"}) /\ schema' = TRUE
     \/ Go("restore", "cleanup") /\ Fails /\ schema' \in BOOLEAN
  /\ UNCHANGED <<outcome, unwinds, testAgent, others, baseline, process>>

\* Sections 6 to 9: production's counts, agents and foreign keys.
Content ==
  /\ Go("content", "chain") /\ Reports({})
  /\ UNCHANGED <<outcome, unwinds, world, baseline>>

Chain ==
  /\ \/ Go("chain", "monitor")
        /\ Checks({"Correct blockchain network", "Blockchain consistency check"})
     \/ Go("chain", "cleanup") /\ Fails
  /\ UNCHANGED <<outcome, unwinds, world, baseline>>

\* The monitor is given the URL of production.  A process that cannot be started is reported,
\* what raises before is the end of the section.
MonitorStart ==
  /\ \/ Go("monitor", "spawned") /\ monitor' = TRUE /\ UNCHANGED report
     \/ Go("monitor", "watch") /\ Fails /\ UNCHANGED monitor
     \/ Go("monitor", "insert") /\ Fails /\ UNCHANGED monitor
  /\ UNCHANGED <<outcome, unwinds, schema, testAgent, others, lost, baseline>>

\* Only now does the script have a name for the process.
MonitorBound ==
  /\ Go("spawned", "watch")
  /\ Reports({"Monitor restart triggered"})
  /\ UNCHANGED <<outcome, unwinds, world, baseline>>

Watch ==
  /\ Go("watch", "stop")
  /\ Checks({"Monitor reached recovery target"})
  /\ UNCHANGED <<outcome, unwinds, world, baseline>>

\* The finally of section 11, which gives up quietly when neither signal can be sent, and
\* section 12.
MonitorStop ==
  /\ \/ Go("stop", "insert") /\ ~leaving /\ Reports({})
     \/ Go("stop", "cleanup") /\ leaving /\ UNCHANGED report
  /\ \/ monitor' = FALSE /\ UNCHANGED lost
     \/ monitor /\ lost' = "stuck" /\ UNCHANGED monitor
  /\ UNCHANGED <<outcome, unwinds, schema, testAgent, others, baseline>>

\* Inserted and committed, the answer to the commit lost at times; or no user, or no insert.
Insert ==
  /\ \/ Go("insert", "delete") /\ ~testAgent /\ testAgent' = TRUE /\ UNCHANGED report
     \/ Go("insert", "api") /\ Fails /\ testAgent' \in {testAgent, TRUE}
     \/ Go("insert", "cleanup") /\ Fails /\ UNCHANGED testAgent
  /\ UNCHANGED <<outcome, unwinds, schema, others, baseline, process>>

Delete ==
  /\ Go("delete", "api")
  /\ \/ Checks({"Write/read/delete works on restored DB"}) /\ testAgent' = FALSE
     \/ Fails /\ testAgent' \in {testAgent, FALSE}
  /\ UNCHANGED <<outcome, unwinds, schema, others, baseline, process>>

\* With no agent to compare, the second gate is neither passed nor failed.
Api ==
  /\ Go("api", "measure")
  /\ \/ Checks({"API restore profile activated", "API state matches restored DB"})
     \/ Reports({"API restore profile activated"})
  /\ UNCHANGED <<outcome, unwinds, world, baseline>>

Measure ==
  /\ Go("measure", "production") /\ Checks({"RPO measured", "RTO measured"})
  /\ UNCHANGED <<outcome, unwinds, world, baseline>>

\* The fingerprint covers the agents table and nothing else.
Production ==
  /\ Go("production", "cleanup")
  /\ \/ baseline = {testAgent} /\ ~others /\ Reports({"Production DB unchanged"})
     \/ Fails
  /\ UNCHANGED <<outcome, unwinds, world, baseline>>

\* An exception outside the sections' own handlers.
Raises ==
  /\ step \in {"backup", "measure"}
  /\ step' = "cleanup" /\ leaving' = TRUE
  /\ UNCHANGED <<report, unwinds, said, saved, verdict, world, baseline>>

-----------------------------------------------------------------------------
(* main *)

\* The sentence comes first, whatever happened and whatever the drop will do.
Cleanup ==
  /\ Go("cleanup", "drop")
  /\ said' = TRUE
  /\ UNCHANGED <<report, leaving, unwinds, saved, verdict, world, baseline>>

\* The handler exits when it has cleaned up, and the finally clauses on its way end the monitor
\* and clean up again.
Drop ==
  /\ step = "drop"
  /\ \/ unwinds = "monitor" /\ step' = "stop"
     \/ unwinds = "rehearsal" /\ step' = "cleanup"
     \/ unwinds = "out" /\ step' = "gone"
     \/ unwinds = "none" /\ leaving /\ step' = "gone"
     \/ unwinds = "none" /\ ~leaving /\ step' = "report"
  /\ unwinds' = "none"
  /\ schema' \in {schema, FALSE}
  /\ UNCHANGED <<report, outcome, testAgent, others, process, baseline>>

\* The report is saved before the gates that are missing are added to its errors.
Save ==
  /\ Go("report", "judge")
  /\ saved' = IF errors THEN "FAIL" ELSE "PASS"
  /\ UNCHANGED <<report, leaving, unwinds, said, verdict, world, baseline>>

Judge ==
  /\ Go("judge", "gone")
  /\ errors' = (errors \/ ~(Gates \subseteq passed))
  /\ verdict' = IF errors' THEN "FAIL" ELSE "PASS"
  /\ UNCHANGED <<passed, leaving, unwinds, said, saved, world, baseline>>

\* Where the exit of a handler that was called at this step leads, when its cleanup is done: a
\* handler that interrupts another one's cleanup leads where that one did.
Unwinding ==
  IF unwinds # "none" THEN unwinds
  ELSE IF step = "watch" THEN "monitor"
  ELSE IF step \in Body THEN "rehearsal" ELSE "out"

\* The handler cleans up first, with the monitor alive.  What is not committed is rolled back.
\* A monitor without a name is nobody's, and one that was being ended may not have been.
Interrupt ==
  /\ step \in Running
  /\ step' = "cleanup" /\ leaving' = TRUE /\ unwinds' = Unwinding
  /\ \/ step = "spawned" /\ lost' = "unbound" /\ UNCHANGED monitor
     \/ step = "stop" /\ lost' = "cut" /\ monitor' \in {monitor, FALSE}
     \/ step \notin {"spawned", "stop"} /\ UNCHANGED process
  /\ UNCHANGED <<report, said, saved, verdict, schema, testAgent, others, baseline>>

Kill ==
  /\ step \in Running /\ step' = "killed"
  /\ UNCHANGED <<report, outcome, unwinds, world, baseline>>

\* Production is in use: agents are minted, sold and updated.
OthersChange ==
  /\ others' = ~others
  /\ UNCHANGED <<step, report, outcome, unwinds, schema, testAgent, process, baseline>>

MonitorExits ==
  /\ monitor /\ monitor' = FALSE
  /\ UNCHANGED <<step, report, outcome, unwinds, schema, testAgent, others, lost, baseline>>

DrillNext ==
  \/ Validate \/ Baseline \/ Backup \/ Restore \/ Content \/ Chain \/ MonitorStart
  \/ MonitorBound \/ Watch \/ MonitorStop \/ Insert \/ Delete \/ Api \/ Measure \/ Production
  \/ Raises \/ Cleanup \/ Drop \/ Save \/ Judge \/ Interrupt \/ Kill
  \/ OthersChange \/ MonitorExits

DrillSpec == DrillInit /\ [][DrillNext]_drillVars

-----------------------------------------------------------------------------
(* Properties *)

DrillTypeOK ==
  /\ step \in Running \cup {"gone", "killed"}
  /\ passed \subseteq Gates /\ errors \in BOOLEAN
  /\ leaving \in BOOLEAN /\ said \in BOOLEAN
  /\ saved \in {"none", "PASS", "FAIL"} /\ verdict \in {"none", "PASS", "FAIL"}
  /\ schema \in BOOLEAN /\ testAgent \in BOOLEAN /\ others \in BOOLEAN
  /\ baseline \subseteq BOOLEAN /\ monitor \in BOOLEAN
  /\ unwinds \in {"none", "monitor", "rehearsal", "out"}
  /\ lost \in {"no", "unbound", "cut", "stuck"}

(* What cleanup prints, "Production DB was not modified by DR test": when it is said,   *)
(* the test agent is in production as it was when the baseline was taken.               *)
ProductionUntouched == said => baseline = {} \/ testAgent \in baseline

(* A rehearsal that announces PASS was not interrupted, has passed every gate, and has  *)
(* left no agent in production, nor its monitor running but for one no signal reached.  *)
PassIsClean ==
  verdict = "PASS" =>
    /\ Gates \subseteq passed /\ ~leaving /\ ~testAgent
    /\ monitor => lost = "stuck"

(* Unless the script is killed its monitor ends with it, also when the script was       *)
(* interrupted while watching and whatever interrupted its clean-up, but in three cases:*)
(* interrupted before the process had a name, interrupted while ending it, no signal    *)
(* reached it.                                                                          *)
MonitorEndsWithScript ==
  step = "gone" /\ monitor => (leaving /\ lost \in {"unbound", "cut"}) \/ lost = "stuck"
=============================================================================
