--------------------------------- MODULE Cli ---------------------------------
(***************************************************************************)
(* The commands run-plan and call of ansysctl (interfaces/cli/main.py):    *)
(* what a script that starts them learns from the exit status.             *)
(***************************************************************************)
EXTENDS PlanRun

VARIABLES exit,   \* the exit status, or NoName while the process runs
          shown,  \* what was printed: "nothing", "result" or "error"
          ctrlC   \* a KeyboardInterrupt is on its way out

ASSUME ExitAssumption == NoName \notin {"0", "1", "2", "130"}

cliVars == <<vars, exit, shown, ctrlC>>

CliInit == Init /\ exit = NoName /\ shown = "nothing" /\ ctrlC = FALSE

Exit(status, text) == exit' = status /\ shown' = text

\* argparse refuses the command line.
Misused == /\ pc = "load"
           /\ Exit("2", "error")
           /\ UNCHANGED <<vars, ctrlC>>

\* --version is no number, an option is not KEY=VALUE or the plan cannot be read.
Unprepared == /\ pc = "load"
              /\ Exit("1", "error")
              /\ UNCHANGED <<vars, ctrlC>>

\* The executor goes on.  The error of a direct call's close takes the place of the
\* interrupt that is on its way.
Works == /\ Next
         /\ ctrlC' = IF Interrupt THEN TRUE ELSE ctrlC /\ ~(CloseFails /\ plan.direct)
         /\ UNCHANGED <<exit, shown>>

\* Mutant of Status: the last step decides.
StatusOfLast == IF plan.direct \/ results[Len(results)].ok THEN "0" ELSE "1"

\* What a command returns that was not ended by an exception.
Status == IF plan.direct \/ AllSucceeded THEN "0" ELSE "1"

\* main prints the summary or the result, and returns.
Answers == /\ pc = "over"
           /\ ~raised /\ ~ctrlC
           /\ Exit(Status, "result")
           /\ UNCHANGED <<vars, ctrlC>>

\* An exception is printed: the command's, or that of printing its result.
Errs == /\ pc = "over"
        /\ ~ctrlC
        /\ Exit("1", "error")
        /\ UNCHANGED <<vars, ctrlC>>

\* Nobody catches an interrupt; one that comes while main prints may come too late to
\* keep the text from being printed.
Printed == IF "over" \in interrupted THEN {"nothing", IF raised THEN "error" ELSE "result"}
           ELSE {"nothing"}
Breaks == /\ pc = "over"
          /\ ctrlC
          /\ \E text \in Printed : Exit("130", text)
          /\ UNCHANGED <<vars, ctrlC>>

CliNext == /\ exit = NoName
           /\ Misused \/ Unprepared \/ Works \/ Answers \/ Errs \/ Breaks

CliSpec == CliInit /\ [][CliNext]_cliVars

-----------------------------------------------------------------------------
\* The products did every step, once and in the plan's order, and nothing that was
\* opened runs on.
AllDone == /\ Len(done) = Len(plan.steps)
           /\ \A n \in DOMAIN done : done[n].step = n
           /\ \A h \in Handles : product[h] # "live"

\* Only the close of a direct call can put its error in the place of an interrupt.
Hidden == plan.direct /\ \E h \in Handles : product[h] = "stuck"

\* The exit status tells the truth, whatever failed, was skipped or was closed
\* on the way: 0 says that a plan was carried out as a whole, or a call and its
\* close, and that nothing runs on; 1 under a result says that the plan was not;
\* whoever interrupts, whenever it is, gets 130 and nobody else does, unless a
\* call's close failed after it, whose error is then shown.
ExitTellsTruth ==
  /\ exit = "0" => AllDone /\ plan.steps # <<>> /\ shown = "result"
  /\ exit = "0" /\ plan.direct => \A h \in Handles : product[h] # "stuck"
  /\ exit = "1" /\ shown = "result" => Len(done) < Len(plan.steps)
  /\ exit = "130" => interrupted # {}
  /\ exit \notin {NoName, "130"} /\ interrupted # {} =>
       exit = "1" /\ shown = "error" /\ Hidden
=============================================================================
