------------------------------ MODULE LogFiles ------------------------------
(***************************************************************************)
(* The two files through which a serial port tells the rest of the box how *)
(* it does (socket/utils.c 490-567): /tmp/ser2net<n>.status, written by    *)
(* log_socklk for AT+SOCKALK and AT+SOCKBLK, and /tmp/log_reset<n>, written *)
(* by log_resettimeout for the cron script user/reset_timeout.sh.  A file  *)
(* is truncated by open() and written by a later call.                     *)
(***************************************************************************)
EXTENDS Integers, Sequences

CONSTANTS Thread,      \* the socket threads of the process
          MaxFaults    \* bound: open() and malloc() that fail

ASSUME FaultAssumption == MaxFaults \in Nat

VARIABLES
  job,              \* what each thread is writing, and how far it is
  status,           \* the lines of the status file
  log_buffer,       \* log_socklk's static buffer
  resetfile,        \* "absent", "empty", "0" or "port"
  datarecved_last,  \* log_resettimeout's static cache
  missed,           \* the reset file does not hold what the cache says
  unwritten,        \* threads whose latest status could not be written
  mixed,            \* threads of which another thread wrote a line
  faults

fileVars == <<job, status, log_buffer, resetfile, datarecved_last, missed, unwritten, mixed,
              faults>>

Idle == [step |-> "idle", msg |-> <<>>]

StatusLine == Thread \X {"connect", "disconnect"}

Job == {Idle}
  \cup [step : {"s_open", "s_format", "s_write"}, msg : StatusLine]
  \cup [step : {"r_open", "r_write"}, msg : Thread \X {"0", "port"}]

FilesInit ==
  /\ job = [t \in Thread |-> Idle]
  /\ status = <<>> /\ log_buffer = <<>>
  /\ resetfile = "absent" /\ datarecved_last = "none"
  /\ missed = FALSE /\ unwritten = {} /\ mixed = {}

(* After a restart /tmp is empty. *)
FilesCleared ==
  /\ job' = [t \in Thread |-> Idle]
  /\ status' = <<>> /\ log_buffer' = <<>>
  /\ resetfile' = "absent" /\ datarecved_last' = "none"
  /\ missed' = FALSE /\ unwritten' = {} /\ mixed' = {}

Free(t) == job[t] = Idle

-----------------------------------------------------------------------------
(* The calls, as a handler makes them: the thread then has the file's      *)
(* steps to do before anything else.                                       *)
log_socklk(t, val) ==
  /\ job' = [job EXCEPT ![t] = [step |-> "s_open", msg |-> <<t, val>>]]
  /\ UNCHANGED datarecved_last

log_resettimeout(t, word) ==
  IF word = datarecved_last
  THEN UNCHANGED <<job, datarecved_last>>
  ELSE /\ datarecved_last' = word
       /\ job' = [job EXCEPT ![t] = [step |-> "r_open", msg |-> <<t, word>>]]

NoLog == UNCHANGED <<job, datarecved_last>>

-----------------------------------------------------------------------------
(* The steps of log_socklk: open and truncate, sprintf into the one static *)
(* buffer, write that buffer at the end of the file (O_APPEND).            *)
At(t, step) == job[t].step = step

GoOn(t, step) == job' = [job EXCEPT ![t].step = step]

Finish(t) == job' = [job EXCEPT ![t] = Idle]

StatusOpen(t) ==
  /\ At(t, "s_open")
  /\ \/ /\ status' = <<>> /\ mixed' = {}
        /\ GoOn(t, "s_format") /\ UNCHANGED <<unwritten, faults>>
     \/ /\ faults < MaxFaults /\ faults' = faults + 1
        /\ unwritten' = unwritten \cup {t}
        /\ Finish(t)
        /\ UNCHANGED <<status, mixed>>
  /\ UNCHANGED <<log_buffer, resetfile, datarecved_last, missed>>

StatusFormat(t) ==
  /\ At(t, "s_format")
  /\ log_buffer' = job[t].msg
  /\ GoOn(t, "s_write")
  /\ UNCHANGED <<status, resetfile, datarecved_last, missed, unwritten, mixed, faults>>

StatusWrite(t) ==
  /\ At(t, "s_write")
  /\ status' = Append(status, log_buffer)
  /\ mixed' = IF log_buffer[1] = t THEN mixed ELSE mixed \cup {log_buffer[1]}
  /\ unwritten' = unwritten \ {t}
  /\ Finish(t)
  /\ UNCHANGED <<log_buffer, resetfile, datarecved_last, missed, faults>>

(* The steps of log_wfile, whose result log_resettimeout does not look at. *)
ResetOpen(t) ==
  /\ At(t, "r_open")
  /\ \/ resetfile' = "empty" /\ GoOn(t, "r_write") /\ UNCHANGED <<missed, faults>>
     \/ /\ faults < MaxFaults /\ faults' = faults + 1
        /\ missed' = TRUE
        /\ Finish(t)
        /\ UNCHANGED resetfile
  /\ UNCHANGED <<status, log_buffer, datarecved_last, unwritten, mixed>>

ResetWrite(t) ==
  /\ At(t, "r_write")
  /\ resetfile' = job[t].msg[2]
  /\ missed' = FALSE
  /\ Finish(t)
  /\ UNCHANGED <<status, log_buffer, datarecved_last, unwritten, mixed, faults>>

LogStep(t) ==
  StatusOpen(t) \/ StatusFormat(t) \/ StatusWrite(t) \/ ResetOpen(t) \/ ResetWrite(t)

-----------------------------------------------------------------------------
(* The types of the variables (utils.c 490-567). *)
FilesTypeOK ==
  /\ job \in [Thread -> Job]
  /\ status \in Seq(StatusLine)
  /\ log_buffer \in StatusLine \cup {<<>>}
  /\ resetfile \in {"absent", "empty", "0", "port"}
  /\ datarecved_last \in {"none", "0", "port"}
  /\ missed \in BOOLEAN /\ unwritten \subseteq Thread /\ mixed \subseteq Thread
  /\ faults \in 0 .. MaxFaults
=============================================================================
