----------------------------- MODULE CrashWindow -----------------------------
(***************************************************************************)
(* The window that replaces the dashboard after a fatal error.  It shows   *)
(* the log with the error, and has two dialogs: one restores a backup, the *)
(* other sends a report about the error.  Both wait for the application.   *)
(***************************************************************************)
EXTENDS Integers, Sequences

CONSTANTS
  Backups, \* what GetBackups finds
  none,    \* no value
  Clicks,  \* bound on the requests of the user
  Entries  \* bound on the entries logged after the error

Calls == {"errors", "backups", "restore", "report"}

VARIABLES
  blank,    \* a render threw: the window is empty
  calls,    \* each call to the application: idle, asked or answered
  lastLogs, \* the levels of the application's last log entries
  events,   \* those of entries emitted that the window has not handled
  logs,     \* logs of the window, the newest first
  report,   \* ReportDialog: submitted, its code, and the error on show
  recovery, \* RecoveryDialog: open, backups, restored and restoreError
  restores, \* history: the restores that run, and whether the last one succeeded
  clicks, entries

dialogs == <<report, recovery, restores>>
log == <<lastLogs, events, logs, entries>>
crashVars == <<blank, calls, log, dialogs, clicks>>

Idle == [is |-> "idle", value |-> none]
Asked == [is |-> "asked", value |-> none]
Answer(v) == [is |-> "answered", value |-> v]

\* ErrorWindow mounts with the calls of its effects, after the entry of the
\* error was logged.
CrashInit ==
  /\ blank = FALSE
  /\ calls = [c \in Calls |-> IF c \in {"errors", "backups"} THEN Asked ELSE Idle]
  /\ lastLogs \in {<<"error">>, <<"info", "error">>} /\ events = <<>> /\ logs = <<>>
  /\ report = [submitted |-> FALSE, code |-> FALSE, error |-> FALSE]
  /\ recovery =
       [open |-> FALSE, backups |-> {}, restored |-> "idle", error |-> FALSE]
  /\ restores = [running |-> 0, ok |-> FALSE] /\ clicks = 0 /\ entries = 0

Click == clicks < Clicks /\ clicks' = clicks + 1

-----------------------------------------------------------------------------
(* The application.                                                        *)

\* The call c is answered with a value of vs.
Answers(c, vs) ==
  /\ calls[c].is = "asked"
  /\ \E v \in vs : calls' = [calls EXCEPT ![c] = Answer(v)]

\* GetLastLogs; GetBackups, null if the directory cannot be read;
\* SendCrashReport.
AnswersWindow ==
  /\ \/ Answers("errors", {lastLogs})
     \/ Answers("backups", {Backups, none})
     \/ Answers("report", BOOLEAN)
  /\ UNCHANGED <<blank, log, dialogs, clicks>>

\* RestoreBackup returns.
RestoreReturns ==
  /\ \E ok \in BOOLEAN :
       Answers("restore", {ok}) /\ restores' = [running |-> 0, ok |-> ok]
  /\ UNCHANGED <<blank, log, report, recovery, clicks>>

\* Bound: Entries of them.
LogEvent ==
  /\ entries < Entries /\ entries' = entries + 1
  /\ \E level \in {"info", "error"} :
       /\ lastLogs' = Append(lastLogs, level) /\ events' = Append(events, level)
  /\ UNCHANGED <<blank, calls, logs, dialogs, clicks>>

-----------------------------------------------------------------------------
(* ErrorWindow.                                                            *)

Asks(c) == calls' = [calls EXCEPT ![c] = Asked]
Gets(c) ==
  /\ ~blank /\ calls[c].is = "answered" /\ calls' = [calls EXCEPT ![c] = Idle]

Reversed(s) == [i \in DOMAIN s |-> s[Len(s) + 1 - i]]

GotErrors ==
  /\ Gets("errors") /\ logs' = Reversed(calls["errors"].value)
  /\ UNCHANGED <<blank, lastLogs, events, entries, dialogs, clicks>>

\* The handler closes over the logs of the first render, which had none.
HearLog ==
  /\ ~blank /\ events # <<>> /\ events' = Tail(events)
  /\ logs' = <<Head(events)>>
  /\ UNCHANGED <<blank, calls, lastLogs, entries, dialogs, clicks>>

\* fatal: what the header shows and a report is about.
Fatal == \E i \in DOMAIN logs : logs[i] = "error"

-----------------------------------------------------------------------------
(* RecoveryDialog.                                                         *)

\* Sorting null throws in a render.
GotBackups ==
  /\ Gets("backups")
  /\ IF calls["backups"].value = none
     THEN blank' = TRUE /\ UNCHANGED recovery
     ELSE recovery' = [recovery EXCEPT !.backups = calls["backups"].value]
            /\ UNCHANGED blank
  /\ UNCHANGED <<log, report, restores, clicks>>

\* What there is of the dialog: the list, the alert of a failure before it,
\* or the alert of a success in the place of both.
Shows ==
  IF recovery.restored = "done" /\ ~recovery.error THEN "succeeded"
  ELSE IF recovery.error THEN "failed" ELSE "list"

\* A click in this dialog that only leaves it so.
Recovering(state) ==
  /\ ~blank /\ recovery' = state
  /\ UNCHANGED <<blank, calls, log, report, restores, clicks>>

OpenRecovery ==
  /\ ~recovery.open /\ Shows # "failed"
  /\ Recovering([recovery EXCEPT !.open = TRUE])

CloseRecovery ==
  /\ recovery.open /\ Shows = "list"
  /\ Recovering([recovery EXCEPT !.open = FALSE])

\* Confirmed: restore(filename).  The buttons are disabled while one runs.
Restore(backup) ==
  /\ ~blank /\ recovery.open /\ Shows = "list" /\ backup \in recovery.backups
  /\ recovery.restored # "in-progress" /\ Click
  /\ recovery' = [recovery EXCEPT !.restored = "in-progress"] /\ Asks("restore")
  /\ restores' = [restores EXCEPT !.running = @ + 1]
  /\ UNCHANGED <<blank, log, report>>

\* setRestoreError, then setRestored("done").
GotRestore ==
  /\ Gets("restore")
  /\ recovery' = [recovery EXCEPT !.restored = "done",
                                  !.error = ~calls["restore"].value]
  /\ UNCHANGED <<blank, log, report, restores, clicks>>

\* OK in the alert of a failure: setRestoreError(null), and nothing else.
DismissFailure ==
  Shows = "failed" /\ Recovering([recovery EXCEPT !.error = FALSE])

DismissSuccess ==
  /\ recovery.open /\ Shows = "succeeded"
  /\ Recovering([recovery EXCEPT !.open = FALSE, !.restored = "idle"])

-----------------------------------------------------------------------------
(* ReportDialog.  Once submitted it waits for a code, also after an error. *)

Waiting == report.submitted /\ ~report.code

SendReport ==
  /\ ~blank /\ ~Waiting /\ ~report.code /\ ~report.error /\ Click
  /\ report' = [report EXCEPT !.submitted = TRUE] /\ Asks("report")
  /\ UNCHANGED <<blank, log, recovery, restores>>

GotReport ==
  /\ Gets("report")
  /\ report' = IF calls["report"].value THEN [report EXCEPT !.code = TRUE]
               ELSE [report EXCEPT !.error = TRUE]
  /\ UNCHANGED <<blank, log, recovery, restores, clicks>>

\* OK in the alert of a failure.
DismissReportError ==
  /\ ~blank /\ report.error /\ report' = [report EXCEPT !.error = FALSE]
  /\ UNCHANGED <<blank, calls, log, recovery, restores, clicks>>

CrashNext ==
  \/ AnswersWindow \/ RestoreReturns \/ LogEvent
  \/ GotErrors \/ HearLog \/ GotBackups \/ GotRestore \/ GotReport
  \/ OpenRecovery \/ CloseRecovery \/ DismissFailure \/ DismissSuccess
  \/ \E backup \in Backups : Restore(backup)
  \/ SendReport \/ DismissReportError

CrashSpec == CrashInit /\ [][CrashNext]_crashVars

-----------------------------------------------------------------------------
\* "The database was restored from the chosen backup, please close and
\* re-open" is what the user reads only when it was.
RestoredIsRestored ==
  (recovery.open /\ Shows = "succeeded") => restores.ok
=============================================================================
