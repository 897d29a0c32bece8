--------------------------- MODULE ClientsProofs ---------------------------
(***************************************************************************)
(* Proofs about the reset watchdog (LogFiles.tla, Clients.tla): what the   *)
(* script that restarts the board finds in this port's file, for any work  *)
(* mode, any timeouts, and any number of failures.                         *)
(***************************************************************************)
EXTENDS MCClients, SequenceTheorems, TLAPS

USE ClientsAssumption

-----------------------------------------------------------------------------
(* What threads write, without the pairing of steps and words. *)
Entry ==
  [step : {"idle", "s_open", "s_format", "s_write", "r_open", "r_write"},
   msg : {<<>>} \cup (Thread \X {"connect", "disconnect", "0", "port"})]

Recording(t) == job[t].step \in {"r_open", "r_write"}

(* Only socket A records data and silence, and what it has yet to write is *)
(* what the cache says; the file disagrees with the cache only until it is *)
(* opened, or after an open that failed.                                   *)
RecordInv ==
  /\ job \in [Thread -> Entry]
  /\ \A t \in Thread : Recording(t) => t = A /\ job[t].msg = <<A, datarecved_last>>
  /\ datarecved_last = "port" => resetfile # "0" \/ missed \/ job[A].step = "r_open"

(* That data came is what the cache says, or the script knows better.      *)
SilenceInv ==
  /\ heard => datarecved_last = "port"
  /\ script \in {"mine", "all"} /\ heard => late

Inv == RecordInv /\ SilenceInv

watched == <<job, datarecved_last, resetfile, missed, heard, script, late>>

LEMMA FreeThread ==
  ASSUME NEW t \in Thread, Free(t)
  PROVE  job[t].step = "idle" /\ ~Recording(t)
  BY DEF Free, Idle, Recording

-----------------------------------------------------------------------------
(* The kinds of steps there are, as far as the watchdog goes. *)

LEMMA OtherStep == Inv /\ UNCHANGED watched => Inv'
  BY DEF Inv, RecordInv, SilenceInv, Recording, watched

LEMMA StatusStep ==
  ASSUME Inv, NEW t \in Thread, NEW val \in {"connect", "disconnect"},
         Free(t), log_socklk(t, val), UNCHANGED <<resetfile, missed, heard, script, late>>
  PROVE  Inv'
  <1>1. /\ job' = [job EXCEPT ![t] = [step |-> "s_open", msg |-> <<t, val>>]]
        /\ datarecved_last' = datarecved_last
    BY DEF log_socklk
  <1>2. [step |-> "s_open", msg |-> <<t, val>>] \in Entry
    BY DEF Entry
  <1>3. job' \in [Thread -> Entry] /\ job'[t].step = "s_open"
    BY <1>1, <1>2 DEF Inv, RecordInv
  <1>4. \A u \in Thread : Recording(u)' => Recording(u) /\ job'[u] = job[u]
    BY <1>1, <1>3 DEF Inv, RecordInv, Recording
  <1>5. job'[A].step = "r_open" \/ job[A].step # "r_open"
    BY <1>1, FreeThread DEF Inv, RecordInv, Recording
  <1>6. QED
    BY <1>1, <1>3, <1>4, <1>5 DEF Inv, RecordInv, SilenceInv

(* log_resettimeout by socket A, which is not writing. *)
LEMMA RecordStep ==
  ASSUME RecordInv, NEW word \in {"0", "port"}, Free(A), log_resettimeout(A, word),
         UNCHANGED <<resetfile, missed>>
  PROVE  RecordInv' /\ datarecved_last' = word
  <1>1. CASE word = datarecved_last
    BY <1>1 DEF log_resettimeout, RecordInv, Recording
  <1>2. CASE word # datarecved_last
    <2>1. /\ datarecved_last' = word
          /\ job' = [job EXCEPT ![A] = [step |-> "r_open", msg |-> <<A, word>>]]
      BY <1>2 DEF log_resettimeout
    <2>2. [step |-> "r_open", msg |-> <<A, word>>] \in Entry
      BY DEF Entry
    <2>3. job' \in [Thread -> Entry]
      BY <2>1, <2>2 DEF RecordInv
    <2>4. job'[A].step = "r_open" /\ job'[A].msg = <<A, word>>
      BY <2>1 DEF RecordInv
    <2>5. \A u \in Thread \ {A} : ~Recording(u)'
      BY <2>1 DEF RecordInv, Recording
    <2>6. QED
      BY <2>1, <2>3, <2>4, <2>5 DEF RecordInv
  <1>3. QED
    BY <1>1, <1>2

LEMMA SilentStep ==
  ASSUME Inv, NEW cnt, Free(A), DecideSilent(A, cnt), UNCHANGED <<resetfile, missed, script, late>>
  PROVE  Inv'
  <1>1. CASE Expired(cnt)
    <2>1. RecordInv'
      BY <1>1, RecordStep DEF Inv, DecideSilent
    <2>2. QED
      BY <1>1, <2>1 DEF Inv, SilenceInv, DecideSilent
  <1>2. CASE ~Expired(cnt)
    BY <1>2, OtherStep DEF DecideSilent, NoLog, watched
  <1>3. QED
    BY <1>1, <1>2

LEMMA HeardStep ==
  ASSUME Inv, Free(A), log_resettimeout(A, "port"), heard' = TRUE, late' = TRUE,
         UNCHANGED <<resetfile, missed, script>>
  PROVE  Inv'
  BY RecordStep DEF Inv, SilenceInv

-----------------------------------------------------------------------------
(* The steps on the files. *)
LEMMA LogsStep == ASSUME Inv, NEW t \in Thread, Logs(t) PROVE Inv'
  <1> DEFINE Moves(step) == job' = [job EXCEPT ![t].step = step]
             Ends == job' = [job EXCEPT ![t] = Idle]
  <1>1. UNCHANGED <<datarecved_last, heard, script, late>> /\ LogStep(t)
    BY DEF Logs, LogStep, StatusOpen, StatusFormat, StatusWrite, ResetOpen, ResetWrite, scriptVars
  <1>2. job[t] \in Entry /\ Idle \in Entry
    BY DEF Inv, RecordInv, Entry, Idle
  <1>3. ASSUME NEW step \in {"s_format", "s_write", "r_write"}, Moves(step)
        PROVE  /\ job' \in [Thread -> Entry]
               /\ job'[t].step = step /\ job'[t].msg = job[t].msg
               /\ \A u \in Thread \ {t} : job'[u] = job[u]
    BY <1>2, <1>3 DEF Inv, RecordInv, Entry
  <1>4. ASSUME Ends
        PROVE  /\ job' \in [Thread -> Entry]
               /\ job'[t].step = "idle"
               /\ \A u \in Thread \ {t} : job'[u] = job[u]
    BY <1>2, <1>4 DEF Inv, RecordInv, Idle
  <1>5. CASE StatusOpen(t) \/ StatusFormat(t) \/ StatusWrite(t)
    <2>1. /\ job[t].step \in {"s_open", "s_format", "s_write"}
          /\ UNCHANGED <<resetfile, missed>>
          /\ Moves("s_format") \/ Moves("s_write") \/ Ends
      BY <1>5 DEF StatusOpen, StatusFormat, StatusWrite, At, GoOn, Finish
    <2>2. /\ job' \in [Thread -> Entry]
          /\ job'[t].step \in {"idle", "s_format", "s_write"}
          /\ \A u \in Thread \ {t} : job'[u] = job[u]
      BY <2>1, <1>3, <1>4
    <2>3. QED
      BY <1>1, <2>1, <2>2 DEF Inv, RecordInv, SilenceInv, Recording
  <1>6. CASE ResetOpen(t)
    <2>1. t = A /\ job[A].msg = <<A, datarecved_last>> /\ job[A].step = "r_open"
      BY <1>6 DEF ResetOpen, At, Inv, RecordInv, Recording
    <2>2. CASE resetfile' = "empty" /\ Moves("r_write")
      BY <1>1, <1>3, <2>1, <2>2 DEF Inv, RecordInv, SilenceInv, Recording
    <2>3. CASE missed' = TRUE /\ Ends
      BY <1>1, <1>4, <2>1, <2>3 DEF Inv, RecordInv, SilenceInv, Recording
    <2>4. QED
      BY <1>6, <2>2, <2>3 DEF ResetOpen, GoOn, Finish
  <1>7. CASE ResetWrite(t)
    <2>1. t = A /\ job[A].msg = <<A, datarecved_last>>
      BY <1>7 DEF ResetWrite, At, Inv, RecordInv, Recording
    <2>2. Ends /\ resetfile' = datarecved_last
      BY <1>7, <2>1 DEF ResetWrite, Finish
    <2>3. QED
      BY <1>1, <1>4, <2>1, <2>2 DEF Inv, RecordInv, SilenceInv, Recording
  <1>8. QED
    BY <1>1, <1>5, <1>6, <1>7 DEF LogStep

-----------------------------------------------------------------------------
(* The steps of a thread. *)
LEMMA ThreadSteps == ASSUME Inv, NEW t \in Thread, ThreadStep(t) PROVE Inv'
  <1> USE DEF otherFiles, theFiles, scriptVars, watched, Ready, InUse, NoLog, CountsReset
  <1>1. CASE Logs(t)
    BY <1>1, LogsStep
  <1>2. CASE Start(t)
    <2>1. /\ Free(t) /\ UNCHANGED <<resetfile, missed, heard, script, late>>
          /\ log_socklk(t, "disconnect") \/ log_socklk(t, "connect") \/ NoLog
      BY <1>2 DEF Start
    <2>2. QED
      BY <2>1, StatusStep, OtherStep
  <1>3. CASE AttemptFails(t)
    <2>1. CASE t = A /\ DecideSilent(A, reset_cnt + LongSleep)
      BY <1>3, <2>1, SilentStep DEF AttemptFails
    <2>2. CASE NoLog /\ UNCHANGED heard
      BY <1>3, <2>2, OtherStep DEF AttemptFails
    <2>3. QED
      BY <1>3, <2>1, <2>2 DEF AttemptFails
  <1>4. CASE AttemptSucceeds(t)
    <2>1. /\ Free(t) /\ UNCHANGED <<resetfile, missed, heard, script, late>>
          /\ log_socklk(t, "connect") \/ NoLog
      BY <1>4 DEF AttemptSucceeds
    <2>2. QED
      BY <2>1, StatusStep, OtherStep
  <1>5. CASE Round(t)
    <2>1. CASE t = A /\ DecideSilent(A, reset_cnt)
      BY <1>5, <2>1, SilentStep DEF Round
    <2>2. CASE NoLog /\ UNCHANGED heard
      BY <1>5, <2>2, OtherStep DEF Round
    <2>3. QED
      BY <1>5, <2>1, <2>2 DEF Round
  <1>6. CASE Recv(t)
    <2>1. CASE t = A
      BY <1>6, <2>1, HeardStep DEF Recv, Hears
    <2>2. CASE t # A
      BY <1>6, <2>2, OtherStep DEF Recv
    <2>3. QED
      BY <2>1, <2>2
  <1>7. CASE Drop(t)
    <2>1. /\ Free(t) /\ UNCHANGED <<resetfile, missed, heard, script, late>>
          /\ log_socklk(t, "disconnect") \/ NoLog
      BY <1>7 DEF Drop
    <2>2. QED
      BY <2>1, StatusStep, OtherStep
  <1>8. CASE TcpSecond(t)
    <2>1. CASE t = A /\ DecideSilent(A, reset_cnt + 1)
      BY <1>8, <2>1, SilentStep DEF TcpSecond
    <2>2. CASE NoLog /\ UNCHANGED heard
      BY <1>8, <2>2, OtherStep DEF TcpSecond
    <2>3. QED
      BY <1>8, <2>1, <2>2 DEF TcpSecond
  <1>9. CASE IdleSecond(t)
    BY <1>9, SilentStep DEF IdleSecond
  <1>10. QED
    BY <1>1, <1>2, <1>3, <1>4, <1>5, <1>6, <1>7, <1>8, <1>9 DEF ThreadStep

(* The steps of the HTTP and the SSL client, which are socket A's. *)
LEMMA ClientSteps ==
  ASSUME Inv, HttpStep \/ HttpAttempts \/ SslStep \/ SslExchanges
  PROVE  Inv'
  <1> USE DEF otherFiles, theFiles, scriptVars, watched, Ready, Http, Ssl, NoLog
  <1>1. CASE HttpWaits
    BY <1>1, SilentStep DEF HttpWaits
  <1>2. CASE HttpCounts \/ HttpClears \/ HttpReads \/ HttpSecond \/ HttpAttempts
    BY <1>2, OtherStep DEF HttpCounts, HttpClears, HttpReads, HttpSecond, HttpAttempts
  <1>3. CASE SslStep
    BY <1>3, OtherStep DEF SslStep, SslWakes, SslReads
  <1>4. CASE SslExchanges
    <2>1. CASE log_resettimeout(A, "port") /\ heard' = TRUE /\ late' = TRUE
      BY <1>4, <2>1, HeardStep DEF SslExchanges
    <2>2. CASE NoLog /\ UNCHANGED <<heard, late>>
      BY <1>4, <2>2, OtherStep DEF SslExchanges
    <2>3. QED
      BY <1>4, <2>1, <2>2 DEF SslExchanges
  <1>5. QED
    BY <1>1, <1>2, <1>3, <1>4 DEF HttpStep

(* The script looks at the file: what it does not know of by then is in    *)
(* the cache only, because the record is not opened or could not be.       *)
LEMMA ScriptStep == ASSUME Inv, ScriptReadsMine PROVE Inv'
  <1>1. UNCHANGED <<job, datarecved_last, resetfile, missed, heard>> /\ resetfile = "0"
    BY DEF ScriptReadsMine, fileVars
  <1>2. heard => missed \/ (job[A].step = "r_open" /\ job[A].msg[2] = "port")
    BY <1>1 DEF Inv, RecordInv, SilenceInv, Recording
  <1>3. heard' => late'
    <2>1. late' = (missed \/ (At(A, "r_open") /\ job[A].msg[2] = "port"))
      BY DEF ScriptReadsMine
    <2>2. heard' = heard
      BY <1>1
    <2>3. QED
      BY <1>2, <2>1, <2>2, Zenon DEF At
  <1>4. QED
    BY <1>1, <1>3 DEF Inv, RecordInv, SilenceInv, Recording

LEMMA RebootStep == ASSUME Inv, Reboot PROVE Inv'
  <1>1. /\ job' = [t \in Thread |-> Idle] /\ datarecved_last' = "none"
        /\ heard' = FALSE
    BY DEF Reboot, FilesCleared
  <1>2. Idle \in Entry /\ Idle.step = "idle"
    BY DEF Idle, Entry
  <1>3. QED
    BY <1>1, <1>2 DEF Inv, RecordInv, SilenceInv, Recording

LEMMA StepInv == Inv /\ [Next]_vars => Inv'
  <1> SUFFICES ASSUME Inv, [Next]_vars PROVE Inv'
    OBVIOUS
  <1>1. CASE Serial \/ Alarm
    BY <1>1, OtherStep DEF Serial, Alarm, fileVars, scriptVars, watched
  <1>2. CASE ScriptReadsOthers
    <2>1. /\ UNCHANGED <<job, datarecved_last, resetfile, missed, heard, late>>
          /\ script = "mine"
      BY <1>2 DEF ScriptReadsOthers, fileVars
    <2>2. RecordInv'
      BY <2>1 DEF Inv, RecordInv, Recording
    <2>3. SilenceInv'
      BY <2>1 DEF Inv, SilenceInv
    <2>4. QED
      BY <2>2, <2>3 DEF Inv
  <1>3. CASE UNCHANGED vars
    BY <1>3, OtherStep DEF vars, fileVars, scriptVars, watched
  <1>4. QED
    BY <1>1, <1>2, <1>3, ThreadSteps, ClientSteps, ScriptStep, RebootStep DEF Next

LEMMA InitInv == Init => Inv
  <1> SUFFICES ASSUME Init PROVE Inv
    OBVIOUS
  <1>1. /\ job = [t \in Thread |-> Idle] /\ datarecved_last = "none"
        /\ heard = FALSE
    BY DEF Init, FilesInit
  <1>2. Idle \in Entry /\ Idle.step = "idle"
    BY DEF Idle, Entry
  <1>3. QED
    BY <1>1, <1>2 DEF Inv, RecordInv, SilenceInv, Recording

(* Whatever the work mode, the timeouts and the peers, and however threads,*)
(* files and script interleave: when the script restarts the board for     *)
(* silence and data had come, they came after it had looked, or their      *)
(* record was under way or had failed (utils.c 527, 551).                  *)
THEOREM RebootsOnlyIfSilent == Spec => []RebootOnlyIfSilent
  <1>1. Inv => RebootOnlyIfSilent
    BY DEF Inv, SilenceInv, RebootOnlyIfSilent
  <1>2. QED
    BY <1>1, InitInv, StepInv, PTL DEF Spec
-----------------------------------------------------------------------------
(* Serial bytes for the HTTP and the SSL client: what a trigger leaves     *)
(* behind was counted as swallowed, or has a trigger of its own.           *)
Places == {"start", "top", "retry", "loop", "wait", "clear", "read", "attempt", "exchange"}

WakeInv ==
  /\ ring \in Seq(Nat) /\ serial \in Nat /\ count \in Nat
  /\ pc \in [Thread -> Places]
  /\ valid \in BOOLEAN /\ timer \in BOOLEAN /\ swallowed \in BOOLEAN
  /\ NoLostWakeup

LEMMA InitWakeInv == Init => WakeInv
  <1> SUFFICES ASSUME Init PROVE WakeInv
    OBVIOUS
  <1>1. /\ ring = <<>> /\ serial = 0 /\ count = 0 /\ pc = [t \in Thread |-> "start"]
        /\ valid = FALSE /\ timer = FALSE /\ swallowed = FALSE
    BY DEF Init
  <1>2. pc \in [Thread -> Places]
    BY <1>1 DEF Places
  <1>3. NoLostWakeup
    BY <1>1 DEF NoLostWakeup
  <1>4. QED
    BY <1>1, <1>2, <1>3, EmptySeq DEF WakeInv

(* A step of a thread that has nothing to do with the ring, from a place   *)
(* where it is not read.                                                   *)
LEMMA WakeElsewhere ==
  ASSUME WakeInv, NEW t \in Thread, NEW where \in Places,
         pc[t] # "read", pc' \in {pc, [pc EXCEPT ![t] = where]}, count' \in Nat,
         t # A => count' = count,
         UNCHANGED <<portVars, ring, valid, timer, swallowed, serial>>
  PROVE  WakeInv'
  <1>1. pc' \in [Thread -> Places]
    BY DEF WakeInv
  <1>2. pc[A] = "read" => pc'[A] = "read" /\ count' = count
    BY DEF WakeInv
  <1>3. Runs(A)' = Runs(A)
    BY DEF portVars, Runs
  <1>4. QED
    BY <1>1, <1>2, <1>3 DEF WakeInv, NoLostWakeup

LEMMA WakeThreadSteps == ASSUME WakeInv, NEW t \in Thread, ThreadStep(t) PROVE WakeInv'
  <1> USE DEF Places, Goto, InUse, serialVars, wakeVars, httpVars
  <1>1. CASE Logs(t)
    BY <1>1 DEF Logs, portVars, WakeInv, NoLostWakeup, Runs
  <1>2. CASE Start(t)
    <2> DEFINE where == IF Runs(t) = "htpc" THEN "wait" ELSE "top"
    <2>1. where \in Places /\ pc[t] # "read" /\ pc' = [pc EXCEPT ![t] = where]
      BY <1>2 DEF Start
    <2> HIDE DEF where
    <2>2. QED
      BY <1>2, <2>1, WakeElsewhere DEF Start, WakeInv
  <1>3. CASE AttemptFails(t)
    BY <1>3, WakeElsewhere DEF AttemptFails, WakeInv
  <1>4. CASE Round(t)
    BY <1>4, WakeElsewhere DEF Round, WakeInv
  <1>5. CASE Recv(t)
    BY <1>5, WakeElsewhere DEF Recv, WakeInv
  <1>6. CASE Drop(t)
    BY <1>6, WakeElsewhere DEF Drop, WakeInv
  <1>7. CASE TcpSecond(t)
    BY <1>7, WakeElsewhere DEF TcpSecond, WakeInv
  <1>8. CASE IdleSecond(t)
    BY <1>8, WakeElsewhere DEF IdleSecond, WakeInv
  <1>9. CASE AttemptSucceeds(t)
    <2>1. CASE Runs(t) = "sslc" /\ ~commbuffer
      <3>1. t = A /\ pc[A] = "top" /\ pc' = [pc EXCEPT ![A] = "loop"]
        BY <1>9, <2>1 DEF AttemptSucceeds, Runs
      <3>2. /\ valid' = FALSE
            /\ swallowed' = (swallowed \/ (valid /\ ~timer /\ ring # <<>>))
            /\ UNCHANGED <<ring, timer, serial, count>>
        BY <1>9, <2>1 DEF AttemptSucceeds
      <3>3. ring # <<>> /\ ~swallowed' => timer'
        BY <3>1, <3>2 DEF WakeInv, NoLostWakeup
      <3>4. QED
        BY <3>1, <3>2, <3>3 DEF WakeInv, NoLostWakeup
    <2>2. CASE ~(Runs(t) = "sslc" /\ ~commbuffer)
      BY <1>9, <2>2, WakeElsewhere DEF AttemptSucceeds, WakeInv
    <2>3. QED
      BY <2>1, <2>2
  <1>10. QED
    BY <1>1, <1>2, <1>3, <1>4, <1>5, <1>6, <1>7, <1>8, <1>9 DEF ThreadStep

LEMMA WakeHttpSteps == ASSUME WakeInv, HttpStep \/ HttpAttempts PROVE WakeInv'
  <1> USE DEF Places, Goto, Http, serialVars, wakeVars, httpVars
  <1>1. CASE HttpWaits
    BY <1>1, WakeElsewhere DEF HttpWaits, WakeInv
  <1>2. CASE HttpCounts
    <2>1. /\ pc[A] # "read" /\ pc' = [pc EXCEPT ![A] = "clear"] /\ count' \in Nat
          /\ UNCHANGED <<portVars, ring, valid, timer, swallowed, serial>>
      BY <1>2 DEF HttpCounts, WakeInv
    <2>2. "clear" \in Places
      OBVIOUS
    <2>3. QED
      BY <2>1, <2>2, WakeElsewhere DEF WakeInv
  <1>3. CASE HttpClears
    <2>1. /\ valid' = FALSE /\ pc' = [pc EXCEPT ![A] = "read"]
          /\ swallowed' = (swallowed \/ (Len(ring) > count /\ ~timer))
          /\ UNCHANGED <<ring, timer, serial, count>>
      BY <1>3 DEF HttpClears
    <2>2. Len(ring) > count \/ Len(ring) <= count
      BY DEF WakeInv
    <2>3. ~swallowed' => Len(ring) <= count \/ timer
      BY <2>1, <2>2, Zenon
    <2>4. swallowed' \in BOOLEAN
      BY <2>1, Zenon DEF WakeInv
    <2>5. QED
      BY <2>1, <2>3, <2>4 DEF WakeInv, NoLostWakeup
  <1>4. CASE HttpReads
    <2>1. /\ pc[A] = "read" /\ pc' = [pc EXCEPT ![A] = "attempt"] /\ Runs(A) = "htpc"
          /\ UNCHANGED <<valid, timer, count, serial>>
      BY <1>4 DEF HttpReads
    <2>2. CASE ring' = SubSeq(ring, count + 1, Len(ring)) /\ swallowed' = swallowed
      <3>1. ring' \in Seq(Nat) /\ (ring' # <<>> => Len(ring) > count)
        <4>1. count + 1 \in Int /\ Len(ring) \in Nat /\ count + 1 >= 1
          BY DEF WakeInv
        <4>2. count + 1 <= Len(ring) \/ SubSeq(ring, count + 1, Len(ring)) = <<>>
          BY <4>1, SubSeqEmpty
        <4>3. \A i \in count + 1 .. Len(ring) : ring[i] \in Nat
          BY <4>1 DEF WakeInv
        <4>4. SubSeq(ring, count + 1, Len(ring)) \in Seq(Nat)
          BY <4>1, <4>3, SubSeqProperties
        <4>5. ring' \in Seq(Nat) /\ (count + 1 <= Len(ring) \/ ring' = <<>>)
          BY <2>2, <4>2, <4>4, Zenon
        <4>6. QED
          BY <4>1, <4>5 DEF WakeInv
      <3>2. Len(ring) > count => ring # <<>>
        BY DEF WakeInv
      <3>3. QED
        BY <2>1, <2>2, <3>1, <3>2 DEF WakeInv, NoLostWakeup
    <2>3. CASE ring' = ring /\ swallowed' = (swallowed \/ (ring # <<>> /\ ~valid /\ ~timer))
      <3>1. ring # <<>> /\ ~swallowed' => valid' \/ timer'
        BY <2>1, <2>3
      <3>2. QED
        BY <2>1, <2>3, <3>1 DEF WakeInv, NoLostWakeup
    <2>4. QED
      BY <1>4, <2>2, <2>3 DEF HttpReads
  <1>5. CASE HttpSecond
    BY <1>5, WakeElsewhere DEF HttpSecond, WakeInv
  <1>6. CASE HttpAttempts
    BY <1>6, WakeElsewhere DEF HttpAttempts, WakeInv
  <1>7. QED
    BY <1>1, <1>2, <1>3, <1>4, <1>5, <1>6 DEF HttpStep

LEMMA WakeSslSteps == ASSUME WakeInv, SslStep \/ SslExchanges PROVE WakeInv'
  <1> USE DEF Places, Goto, Ssl, serialVars, wakeVars, httpVars
  <1>1. CASE SslWakes
    <2>1. pc' = [pc EXCEPT ![A] = "read"] /\ Runs(A)' # "htpc"
      BY <1>1 DEF SslWakes, Runs, portVars
    <2>2. QED
      BY <1>1, <2>1 DEF SslWakes, WakeInv, NoLostWakeup
  <1>2. CASE SslReads
    <2>1. CASE ring' = <<>>
      BY <1>2, <2>1 DEF SslReads, WakeInv, NoLostWakeup
    <2>2. CASE /\ swallowed' = (swallowed \/ (ring # <<>> /\ ~valid /\ ~timer))
               /\ pc' = [pc EXCEPT ![A] = "loop"] /\ ring' = ring
      <3>1. ring # <<>> /\ ~swallowed' => valid' \/ timer'
        BY <1>2, <2>2 DEF SslReads
      <3>2. QED
        BY <1>2, <2>2, <3>1 DEF SslReads, WakeInv, NoLostWakeup
    <2>3. QED
      BY <1>2, <2>1, <2>2 DEF SslReads
  <1>3. CASE SslExchanges
    BY <1>3, WakeElsewhere DEF SslExchanges, WakeInv
  <1>4. QED
    BY <1>1, <1>2, <1>3 DEF SslStep

LEMMA StepWakeInv == WakeInv /\ [Next]_vars => WakeInv'
  <1> SUFFICES ASSUME WakeInv, [Next]_vars PROVE WakeInv'
    OBVIOUS
  <1> USE DEF Places, serialVars, wakeVars, httpVars
  <1>1. CASE Serial
    BY <1>1 DEF Serial, WakeInv, NoLostWakeup
  <1>2. CASE Alarm
    <2>1. ring' = ring /\ (ring # <<>> => valid')
      BY <1>2 DEF Alarm
    <2>2. QED
      BY <1>2, <2>1 DEF Alarm, WakeInv, NoLostWakeup
  <1>3. CASE ScriptReadsMine \/ ScriptReadsOthers
    BY <1>3 DEF ScriptReadsMine, ScriptReadsOthers, portVars, WakeInv, NoLostWakeup, Runs
  <1>4. CASE Reboot
    <2>1. /\ ring' = <<>> /\ serial' = serial /\ count' = 0
          /\ pc' = [t \in Thread |-> "start"]
          /\ valid' = FALSE /\ timer' = FALSE /\ swallowed' = FALSE
      BY <1>4 DEF Reboot
    <2>2. pc' \in [Thread -> Places]
      BY <2>1
    <2>3. NoLostWakeup'
      BY <2>1 DEF NoLostWakeup
    <2>4. QED
      BY <2>1, <2>2, <2>3, EmptySeq DEF WakeInv
  <1>5. CASE UNCHANGED vars
    BY <1>5 DEF vars, portVars, WakeInv, NoLostWakeup, Runs
  <1>6. QED
    BY <1>1, <1>2, <1>3, <1>4, <1>5, WakeThreadSteps, WakeHttpSteps, WakeSslSteps DEF Next

(* A serial byte never waits for the HTTP or the SSL client without a      *)
(* trigger that will send it, unless its wake-up was cleared after it came,*)
(* whatever the timing of the timer, the handler and the thread            *)
(* (httpdclient.c 200-202, sslc.c 155-169).                                *)
THEOREM WakeupKept == Spec => []NoLostWakeup
  <1>1. WakeInv => NoLostWakeup
    BY DEF WakeInv
  <1>2. QED
    BY <1>1, InitWakeInv, StepWakeInv, PTL DEF Spec
-----------------------------------------------------------------------------
(***************************************************************************)
(* What a status line of t says is so, or was not t's own word.            *)
(***************************************************************************)
Word(t, val) ==
  /\ val = "connect" => pc[t] = "loop" \/ silent[t]
  /\ val = "disconnect" => pc[t] # "loop"

StatusSteps == {"s_open", "s_format", "s_write"}

StatusTypes ==
  /\ job \in [Thread -> Entry] /\ status \in Seq(StatusLine)
  /\ pc \in [Thread -> Places] /\ silent \in [Thread -> BOOLEAN]
  /\ mixed \subseteq Thread /\ unwritten \subseteq Thread

(* A thread writes what it has to say, unless the one buffer holds what    *)
(* another has.                                                            *)
Writing(t) ==
  /\ job[t].step \in StatusSteps => job[t].msg \in StatusLine /\ job[t].msg[1] = t
  /\ job[t].step = "s_write" =>
       log_buffer \in StatusLine /\ (log_buffer[1] = t => log_buffer = job[t].msg)

(* What a TCP client has to say is so, and so are the lines of it in the   *)
(* file, of which there are none between its truncation and its line.      *)
Telling(t) ==
  Runs(t) = "tcpc" =>
    /\ job[t].step \in StatusSteps => Word(t, job[t].msg[2])
    /\ t \notin mixed => \A i \in DOMAIN status : status[i][1] = t =>
         /\ job[t].step \notin {"s_format", "s_write"}
         /\ t \notin unwritten /\ job[t].step # "s_open" => Word(t, status[i][2])

StatusInv == StatusTypes /\ \A t \in Thread : Writing(t) /\ Telling(t)

statusVars == <<job, status, log_buffer, mixed, unwritten, pc, silent, portVars>>

LEMMA InitStatus == Init => StatusInv
  <1> SUFFICES ASSUME Init PROVE StatusInv
    OBVIOUS
  <1>1. /\ job = [t \in Thread |-> Idle] /\ status = <<>> /\ pc = [t \in Thread |-> "start"]
        /\ silent = [t \in Thread |-> FALSE] /\ mixed = {} /\ unwritten = {}
    BY DEF Init, FilesInit
  <1>2. Idle \in Entry /\ Idle.step = "idle"
    BY DEF Idle, Entry
  <1>3. StatusTypes
    BY <1>1, <1>2, EmptySeq DEF StatusTypes, Places
  <1>4. QED
    BY <1>1, <1>2, <1>3 DEF StatusInv, Writing, Telling, StatusSteps

LEMMA StatusElsewhere == StatusInv /\ UNCHANGED statusVars => StatusInv'
  <1> SUFFICES ASSUME StatusInv, UNCHANGED statusVars PROVE StatusInv'
    OBVIOUS
  <1>1. UNCHANGED <<job, status, log_buffer, mixed, unwritten, pc, silent>>
    BY DEF statusVars
  <1>2. \A t : Runs(t)' = Runs(t)
    BY DEF statusVars, portVars, Runs
  <1>3. QED
    BY <1>1, <1>2 DEF StatusInv, StatusTypes, Writing, Telling, Word

(* What a step of t may do to the places and to what the threads write.    *)
Mute(t) ==
  \E step \in {"idle", "r_open"}, msg \in {<<>>} \cup (Thread \X {"0", "port"}) :
    job' = [job EXCEPT ![t] = [step |-> step, msg |-> msg]]
Goes(t) == \E where \in Places : pc' = [pc EXCEPT ![t] = where]
Closes(t) == \E b \in BOOLEAN : silent' = [silent EXCEPT ![t] = b]

LEMMA Mutes ==
  ASSUME StatusTypes, NEW t \in Thread, Free(t),
         \/ NoLog
         \/ \E word \in {"0", "port"} : log_resettimeout(t, word)
         \/ \E cnt : DecideSilent(t, cnt)
  PROVE  Mute(t)
  <1>1. CASE job' = job
    <2>1. job = [job EXCEPT ![t] = [step |-> "idle", msg |-> <<>>]]
      BY DEF StatusTypes, Free, Idle
    <2>2. QED
      BY <1>1, <2>1 DEF Mute
  <1>2. ASSUME NEW word \in {"0", "port"}, log_resettimeout(t, word)
        PROVE  job' = job \/ Mute(t)
    BY <1>2 DEF log_resettimeout, Mute
  <1>3. QED
    BY <1>1, <1>2 DEF DecideSilent, NoLog

LEMMA Stays ==
  ASSUME StatusTypes, NEW t \in Thread
  PROVE  (pc' = pc => Goes(t)) /\ (silent' = silent => Closes(t))
  BY DEF StatusTypes, Goes, Closes

(* A step of t that says nothing and after which what was so still is.     *)
LEMMA StatusKept ==
  ASSUME StatusInv, NEW t \in Thread, Free(t),
         Mute(t), Goes(t), Closes(t),
         UNCHANGED <<status, log_buffer, mixed, unwritten, portVars>>,
         Runs(t) = "tcpc" => \/ /\ pc'[t] = "loop" <=> pc[t] = "loop"
                                /\ silent'[t] = silent[t]
                             \/ pc'[t] # "loop" /\ silent'[t]
  PROVE  StatusInv'
  <1>1. \A u : Runs(u)' = Runs(u)
    BY DEF portVars, Runs
  <1>2. PICK step \in {"idle", "r_open"}, msg \in {<<>>} \cup (Thread \X {"0", "port"}) :
          job' = [job EXCEPT ![t] = [step |-> step, msg |-> msg]]
    BY DEF Mute
  <1>3. [step |-> step, msg |-> msg] \in Entry
    BY DEF Entry
  <1>4. /\ job' \in [Thread -> Entry] /\ job'[t].step \in {"idle", "r_open"}
        /\ \A u \in Thread \ {t} : job'[u] = job[u]
    BY <1>2, <1>3 DEF StatusInv, StatusTypes
  <1>5. /\ pc' \in [Thread -> Places] /\ silent' \in [Thread -> BOOLEAN]
        /\ \A u \in Thread \ {t} : pc'[u] = pc[u] /\ silent'[u] = silent[u]
    BY DEF StatusInv, StatusTypes, Goes, Closes
  <1>6. StatusTypes'
    BY <1>4, <1>5 DEF StatusInv, StatusTypes
  <1>7. Runs(t) = "tcpc" => \A val : Word(t, val) => Word(t, val)'
    BY DEF Word
  <1>8. job[t].step = "idle"
    BY FreeThread
  <1>9. Writing(t)' /\ Telling(t)'
    BY <1>1, <1>4, <1>7, <1>8 DEF StatusInv, Writing, Telling, StatusSteps
  <1>10. \A u \in Thread \ {t} : Writing(u)' /\ Telling(u)'
    BY <1>1, <1>4, <1>5 DEF StatusInv, Writing, Telling, Word
  <1>11. QED
    BY <1>6, <1>9, <1>10 DEF StatusInv

(* A step of t that says what is so.                                       *)
LEMMA StatusSaid ==
  ASSUME StatusInv, NEW t \in Thread, NEW val \in {"connect", "disconnect"},
         log_socklk(t, val),
         Goes(t), Closes(t),
         UNCHANGED <<status, log_buffer, mixed, unwritten, portVars>>,
         Runs(t) = "tcpc" => Word(t, val)'
  PROVE  StatusInv'
  <1>1. \A u : Runs(u)' = Runs(u)
    BY DEF portVars, Runs
  <1>2. job' = [job EXCEPT ![t] = [step |-> "s_open", msg |-> <<t, val>>]]
    BY DEF log_socklk
  <1>3. [step |-> "s_open", msg |-> <<t, val>>] \in Entry /\ <<t, val>> \in StatusLine
    BY DEF Entry, StatusLine
  <1>4. /\ job' \in [Thread -> Entry] /\ job'[t].step = "s_open" /\ job'[t].msg = <<t, val>>
        /\ \A u \in Thread \ {t} : job'[u] = job[u]
    BY <1>2, <1>3 DEF StatusInv, StatusTypes
  <1>5. /\ pc' \in [Thread -> Places] /\ silent' \in [Thread -> BOOLEAN]
        /\ \A u \in Thread \ {t} : pc'[u] = pc[u] /\ silent'[u] = silent[u]
    BY DEF StatusInv, StatusTypes, Goes, Closes
  <1>6. StatusTypes'
    BY <1>4, <1>5 DEF StatusInv, StatusTypes
  <1>7. job'[t].msg[1] = t /\ job'[t].msg[2] = val
    BY <1>4
  <1>8. Writing(t)'
    BY <1>3, <1>4, <1>7 DEF Writing
  <1>9. Telling(t)'
    BY <1>1, <1>4, <1>7 DEF Telling, Word
  <1>10. \A u \in Thread \ {t} : Writing(u)' /\ Telling(u)'
    BY <1>1, <1>4, <1>5 DEF StatusInv, Writing, Telling, Word
  <1>11. QED
    BY <1>6, <1>8, <1>9, <1>10 DEF StatusInv

LEMMA JobMoves ==
  ASSUME StatusTypes, NEW t \in Thread, NEW step \in {"s_format", "s_write", "r_write"},
         GoOn(t, step)
  PROVE  /\ job' \in [Thread -> Entry] /\ job'[t].step = step /\ job'[t].msg = job[t].msg
         /\ \A u \in Thread \ {t} : job'[u] = job[u]
  <1>1. job[t] \in Entry
    BY DEF StatusTypes
  <1>2. QED
    BY <1>1 DEF GoOn, StatusTypes, Entry

LEMMA JobEnds ==
  ASSUME StatusTypes, NEW t \in Thread, Finish(t)
  PROVE  /\ job' \in [Thread -> Entry] /\ job'[t].step = "idle"
         /\ \A u \in Thread \ {t} : job'[u] = job[u]
  <1>1. Idle \in Entry /\ Idle.step = "idle"
    BY DEF Idle, Entry
  <1>2. QED
    BY <1>1 DEF Finish, StatusTypes

(* The steps on the two files.                                             *)
LEMMA StatusLogs == ASSUME StatusInv, NEW t \in Thread, Logs(t) PROVE StatusInv'
  <1>1. /\ UNCHANGED <<pc, silent>> /\ LogStep(t) /\ \A u : Runs(u)' = Runs(u)
        /\ pc \in [Thread -> Places] /\ silent \in [Thread -> BOOLEAN]
    BY DEF Logs, portVars, Runs, StatusInv, StatusTypes
  <1>2. \A u, val : Word(u, val)' <=> Word(u, val)
    BY <1>1 DEF Word
  <1>3. CASE StatusOpen(t)
    <2>1. /\ job[t].step = "s_open" /\ log_buffer' = log_buffer
          /\ job[t].msg \in StatusLine /\ job[t].msg[1] = t
          /\ Runs(t) = "tcpc" => Word(t, job[t].msg[2])
      BY <1>3 DEF StatusOpen, At, StatusInv, Writing, Telling, StatusSteps
    <2>2. CASE /\ status' = <<>> /\ mixed' = {} /\ GoOn(t, "s_format") /\ unwritten' = unwritten
      <3>1. /\ job' \in [Thread -> Entry]
            /\ job'[t].step = "s_format" /\ job'[t].msg = job[t].msg
            /\ \A u \in Thread \ {t} : job'[u] = job[u]
        BY <2>2, JobMoves DEF StatusInv
      <3>2. StatusTypes'
        BY <1>1, <2>2, <3>1, EmptySeq DEF StatusInv, StatusTypes
      <3>3. Writing(t)' /\ Telling(t)'
        BY <1>1, <1>2, <2>1, <2>2, <3>1 DEF Writing, Telling
      <3>4. \A u \in Thread \ {t} : Writing(u)' /\ Telling(u)'
        BY <1>1, <1>2, <2>1, <2>2, <3>1 DEF StatusInv, Writing, Telling
      <3>5. QED
        BY <3>2, <3>3, <3>4 DEF StatusInv
    <2>3. CASE /\ unwritten' = unwritten \cup {t} /\ Finish(t) /\ UNCHANGED <<status, mixed>>
      <3>1. /\ job' \in [Thread -> Entry] /\ job'[t].step = "idle"
            /\ \A u \in Thread \ {t} : job'[u] = job[u]
        BY <2>3, JobEnds DEF StatusInv
      <3>2. StatusTypes'
        BY <1>1, <2>3, <3>1 DEF StatusInv, StatusTypes
      <3>3. Writing(t)' /\ Telling(t)'
        BY <1>1, <1>2, <2>3, <3>1 DEF Writing, Telling, StatusSteps
      <3>4. \A u \in Thread \ {t} : Writing(u)' /\ Telling(u)'
        BY <1>1, <1>2, <2>1, <2>3, <3>1 DEF StatusInv, Writing, Telling
      <3>5. QED
        BY <3>2, <3>3, <3>4 DEF StatusInv
    <2>4. QED
      BY <1>3, <2>2, <2>3 DEF StatusOpen
  <1>4. CASE StatusFormat(t)
    <2>1. /\ job[t].step = "s_format" /\ log_buffer' = job[t].msg /\ GoOn(t, "s_write")
          /\ job[t].msg \in StatusLine /\ job[t].msg[1] = t
          /\ UNCHANGED <<status, mixed, unwritten>>
      BY <1>4 DEF StatusFormat, At, StatusInv, Writing, StatusSteps
    <2>2. /\ job' \in [Thread -> Entry]
          /\ job'[t].step = "s_write" /\ job'[t].msg = job[t].msg
          /\ \A u \in Thread \ {t} : job'[u] = job[u]
      BY <2>1, JobMoves DEF StatusInv
    <2>3. StatusTypes'
      BY <1>1, <2>1, <2>2 DEF StatusInv, StatusTypes
    <2>4. Writing(t)'
      BY <2>1, <2>2 DEF Writing
    <2>5. Telling(t)'
      BY <1>1, <1>2, <2>1, <2>2 DEF StatusInv, Telling, StatusSteps
    <2>6. \A u \in Thread \ {t} : Writing(u)' /\ Telling(u)'
      BY <1>1, <1>2, <2>1, <2>2 DEF StatusInv, Writing, Telling
    <2>7. QED
      BY <2>3, <2>4, <2>5, <2>6 DEF StatusInv
  <1>5. CASE StatusWrite(t)
    <2>1. PICK line \in StatusLine : line = log_buffer
      BY <1>5 DEF StatusWrite, At, StatusInv, Writing
    <2>2. /\ job[t].step = "s_write" /\ (line[1] = t => line = job[t].msg)
          /\ status' = Append(status, line) /\ log_buffer' = log_buffer
          /\ mixed' = (IF line[1] = t THEN mixed ELSE mixed \cup {line[1]})
          /\ unwritten' = unwritten \ {t} /\ Finish(t)
      BY <1>5, <2>1 DEF StatusWrite, At, StatusInv, Writing
    <2>3. /\ job' \in [Thread -> Entry] /\ job'[t].step = "idle"
          /\ \A u \in Thread \ {t} : job'[u] = job[u]
      BY <2>2, JobEnds DEF StatusInv
    <2>4. line[1] \in Thread
      BY <2>1 DEF StatusLine
    <2>5. StatusTypes'
      BY <1>1, <2>1, <2>2, <2>3, <2>4 DEF StatusInv, StatusTypes
    <2>6. \A i \in DOMAIN status' : status'[i] = line \/ (i \in DOMAIN status /\ status'[i] = status[i])
      BY <2>2 DEF StatusInv, StatusTypes
    <2>7. Writing(t)' /\ \A u \in Thread \ {t} : Writing(u)'
      BY <2>2, <2>3 DEF StatusInv, Writing, StatusSteps
    <2>8. Telling(t)'
      <3> SUFFICES ASSUME Runs(t) = "tcpc", t \notin mixed', NEW i \in DOMAIN status',
                          status'[i][1] = t
                   PROVE  Word(t, status'[i][2])
        BY <1>1, <1>2, <2>3 DEF Telling, StatusSteps
      <3>1. t \notin mixed
        BY <2>2
      <3>2. CASE status'[i] = line
        BY <2>2, <3>2 DEF StatusInv, Telling, StatusSteps
      <3>3. CASE i \in DOMAIN status /\ status'[i] = status[i]
        BY <2>2, <3>1, <3>3 DEF StatusInv, Telling
      <3>4. QED
        BY <2>6, <3>2, <3>3
    <2>9. \A u \in Thread \ {t} : Telling(u)'
      <3> SUFFICES ASSUME NEW u \in Thread \ {t}, Runs(u) = "tcpc"
                   PROVE  /\ job[u].step \in StatusSteps => Word(u, job[u].msg[2])
                          /\ u \notin mixed' => \A i \in DOMAIN status' : status'[i][1] = u =>
                               /\ job[u].step \notin {"s_format", "s_write"}
                               /\ u \notin unwritten /\ job[u].step # "s_open"
                                    => Word(u, status'[i][2])
        BY <1>1, <1>2, <2>2, <2>3 DEF Telling
      <3>1. job[u].step \in StatusSteps => Word(u, job[u].msg[2])
        BY DEF StatusInv, Telling
      <3>2. ASSUME u \notin mixed', NEW i \in DOMAIN status', status'[i][1] = u
            PROVE  /\ job[u].step \notin {"s_format", "s_write"}
                   /\ u \notin unwritten /\ job[u].step # "s_open" => Word(u, status'[i][2])
        <4>1. u \notin mixed /\ line[1] # u
          BY <2>2, <3>2
        <4>2. i \in DOMAIN status /\ status'[i] = status[i]
          BY <2>6, <3>2, <4>1
        <4>3. QED
          BY <3>2, <4>1, <4>2 DEF StatusInv, Telling
      <3>3. QED
        BY <3>1, <3>2
    <2>10. QED
      BY <2>5, <2>7, <2>8, <2>9 DEF StatusInv
  <1>6. CASE ResetOpen(t) \/ ResetWrite(t)
    <2>1. /\ job[t].step \in {"r_open", "r_write"}
          /\ UNCHANGED <<status, log_buffer, mixed, unwritten>>
          /\ GoOn(t, "r_write") \/ Finish(t)
      BY <1>6 DEF ResetOpen, ResetWrite, At
    <2>2. /\ job' \in [Thread -> Entry] /\ job'[t].step \in {"idle", "r_write"}
          /\ \A u \in Thread \ {t} : job'[u] = job[u]
      BY <2>1, JobMoves, JobEnds DEF StatusInv
    <2>3. StatusTypes'
      BY <1>1, <2>1, <2>2 DEF StatusInv, StatusTypes
    <2>4. Writing(t)' /\ Telling(t)'
      BY <1>1, <1>2, <2>1, <2>2 DEF StatusInv, Writing, Telling, StatusSteps
    <2>5. \A u \in Thread \ {t} : Writing(u)' /\ Telling(u)'
      BY <1>1, <1>2, <2>1, <2>2 DEF StatusInv, Writing, Telling
    <2>6. QED
      BY <2>3, <2>4, <2>5 DEF StatusInv
  <1>7. QED
    BY <1>1, <1>3, <1>4, <1>5, <1>6 DEF LogStep

(* The steps of a thread: where it gets or loses a connection it says so,  *)
(* or is marked silent.                                                    *)
LEMMA StatusThreadSteps == ASSUME StatusInv, NEW t \in Thread, ThreadStep(t) PROVE StatusInv'
  <1> USE DEF otherFiles, theFiles, InUse, Ready, Goto
  <1>0. StatusTypes /\ pc \in [Thread -> Places] /\ silent \in [Thread -> BOOLEAN]
    BY DEF StatusInv, StatusTypes
  <1>1. CASE Logs(t)
    BY <1>1, StatusLogs
  <1>2. CASE Start(t)
    <2>1. /\ Free(t) /\ UNCHANGED <<status, log_buffer, mixed, unwritten, portVars, silent>>
          /\ pc' = [pc EXCEPT ![t] = IF Runs(t) = "htpc" THEN "wait" ELSE "top"]
          /\ pc[t] = "start"
      BY <1>2 DEF Start, fileVars
    <2> DEFINE where == IF Runs(t) = "htpc" THEN "wait" ELSE "top"
    <2>2. where \in Places /\ pc' = [pc EXCEPT ![t] = where] /\ pc'[t] = where /\ where # "loop"
      BY <1>0, <2>1 DEF Places
    <2> HIDE DEF where
    <2>3. Goes(t) /\ Closes(t)
      BY <1>0, <2>1, <2>2, Stays DEF Goes
    <2>4. CASE log_socklk(t, "disconnect")
      BY <2>1, <2>2, <2>3, <2>4, StatusSaid DEF Word
    <2>5. CASE log_socklk(t, "connect") /\ Runs(t) = "udp"
      <3>1. Runs(t)' = Runs(t)
        BY <2>1 DEF portVars, Runs
      <3>2. QED
        BY <2>1, <2>3, <2>5, <3>1, StatusSaid
    <2>6. CASE NoLog
      BY <1>0, <2>1, <2>2, <2>3, <2>6, Mutes, StatusKept
    <2>7. QED
      BY <1>2, <2>4, <2>5, <2>6 DEF Start
  <1>3. CASE AttemptFails(t)
    <2>1. /\ Free(t) /\ UNCHANGED <<status, log_buffer, mixed, unwritten, portVars, silent>>
          /\ pc' = [pc EXCEPT ![t] = "retry"] /\ pc[t] = "top"
          /\ NoLog \/ DecideSilent(t, reset_cnt + LongSleep)
      BY <1>3 DEF AttemptFails
    <2>2. Goes(t) /\ Closes(t) /\ Mute(t) /\ pc'[t] = "retry"
      BY <1>0, <2>1, Stays, Mutes DEF Goes, Places
    <2>3. QED
      BY <2>1, <2>2, StatusKept
  <1>4. CASE Round(t)
    <2>1. /\ Free(t) /\ UNCHANGED <<status, log_buffer, mixed, unwritten, portVars, silent>>
          /\ pc' = [pc EXCEPT ![t] = "top"] /\ pc[t] = "retry"
          /\ NoLog \/ DecideSilent(t, reset_cnt)
      BY <1>4 DEF Round
    <2>2. Goes(t) /\ Closes(t) /\ Mute(t) /\ pc'[t] = "top"
      BY <1>0, <2>1, Stays, Mutes DEF Goes, Places
    <2>3. QED
      BY <2>1, <2>2, StatusKept
  <1>5. CASE AttemptSucceeds(t)
    <2>1. /\ Free(t) /\ UNCHANGED <<status, log_buffer, mixed, unwritten, portVars>>
          /\ pc' = [pc EXCEPT ![t] = "loop"]
          /\ \/ Runs(t) = "tcpc" /\ log_socklk(t, "connect") /\ silent' = [silent EXCEPT ![t] = FALSE]
             \/ Runs(t) # "tcpc" /\ NoLog /\ UNCHANGED silent
      BY <1>5 DEF AttemptSucceeds
    <2>2. Goes(t) /\ Closes(t) /\ pc'[t] = "loop"
      BY <1>0, <2>1, Stays DEF Goes, Closes, Places
    <2>3. CASE log_socklk(t, "connect")
      BY <2>1, <2>2, <2>3, StatusSaid DEF Word
    <2>4. CASE Runs(t) # "tcpc" /\ NoLog
      BY <1>0, <2>1, <2>2, <2>4, Mutes, StatusKept
    <2>5. QED
      BY <2>1, <2>3, <2>4
  <1>6. CASE Recv(t)
    <2>1. /\ Free(t) /\ UNCHANGED <<status, log_buffer, mixed, unwritten, portVars, silent, pc>>
          /\ NoLog \/ log_resettimeout(t, "port")
      BY <1>6 DEF Recv, Hears, CountsReset
    <2>2. Goes(t) /\ Closes(t) /\ Mute(t)
      BY <1>0, <2>1, Stays, Mutes
    <2>3. QED
      BY <2>1, <2>2, StatusKept
  <1>7. CASE Drop(t)
    <2>1. /\ Free(t) /\ UNCHANGED <<status, log_buffer, mixed, unwritten, portVars>>
          /\ \E where \in {"wait", "retry"} : pc' = [pc EXCEPT ![t] = where]
          /\ \/ Runs(t) = "htpc" /\ NoLog /\ UNCHANGED silent
             \/ log_socklk(t, "disconnect") /\ UNCHANGED silent
             \/ NoLog /\ silent' = [silent EXCEPT ![t] = TRUE]
      BY <1>7 DEF Drop
    <2>2. Goes(t) /\ Closes(t) /\ pc'[t] # "loop"
      BY <1>0, <2>1, Stays DEF Goes, Closes, Places
    <2>3. CASE log_socklk(t, "disconnect")
      BY <2>1, <2>2, <2>3, StatusSaid DEF Word
    <2>4. CASE NoLog /\ (Runs(t) # "tcpc" \/ silent'[t])
      BY <1>0, <2>1, <2>2, <2>4, Mutes, StatusKept
    <2>5. QED
      BY <1>0, <2>1, <2>3, <2>4
  <1>8. CASE TcpSecond(t)
    <2>1. /\ Free(t) /\ UNCHANGED <<status, log_buffer, mixed, unwritten, portVars>>
          /\ \/ /\ pc' = [pc EXCEPT ![t] = "retry"] /\ silent' = [silent EXCEPT ![t] = TRUE]
                /\ NoLog
             \/ UNCHANGED <<pc, silent>> /\ (NoLog \/ DecideSilent(t, reset_cnt + 1))
      BY <1>8 DEF TcpSecond
    <2>2. Goes(t) /\ Closes(t) /\ Mute(t)
      BY <1>0, <2>1, Stays, Mutes DEF Goes, Closes, Places
    <2>3. (pc' = pc /\ silent' = silent) \/ (pc'[t] # "loop" /\ silent'[t])
      BY <1>0, <2>1
    <2>4. QED
      BY <2>1, <2>2, <2>3, StatusKept
  <1>9. CASE IdleSecond(t)
    <2>1. /\ Free(t) /\ UNCHANGED <<status, log_buffer, mixed, unwritten, portVars, silent, pc>>
          /\ DecideSilent(t, reset_cnt + 1)
      BY <1>9 DEF IdleSecond
    <2>2. Goes(t) /\ Closes(t) /\ Mute(t)
      BY <1>0, <2>1, Stays, Mutes
    <2>3. QED
      BY <2>1, <2>2, StatusKept
  <1>10. QED
    BY <1>1, <1>2, <1>3, <1>4, <1>5, <1>6, <1>7, <1>8, <1>9 DEF ThreadStep

(* The HTTP and the SSL client say nothing of their connections.           *)
LEMMA StatusClientSteps ==
  ASSUME StatusInv, HttpStep \/ HttpAttempts \/ SslStep \/ SslExchanges
  PROVE  StatusInv'
  <1> USE DEF otherFiles, theFiles, Http, Ssl, Ready, Goto
  <1>0. StatusTypes /\ pc \in [Thread -> Places] /\ silent \in [Thread -> BOOLEAN]
    BY DEF StatusInv, StatusTypes
  <1>1. /\ Free(A) /\ Runs(A) # "tcpc" /\ UNCHANGED <<status, log_buffer, mixed, unwritten, portVars, silent>>
        /\ NoLog \/ log_resettimeout(A, "port") \/ DecideSilent(A, reset_cnt + 1)
    BY DEF HttpStep, HttpWaits, HttpCounts, HttpClears, HttpReads, HttpSecond, HttpAttempts,
           SslStep, SslWakes, SslReads, SslExchanges
  <1>2. pc' = pc \/ \E where \in Places : pc' = [pc EXCEPT ![A] = where]
    BY DEF HttpStep, HttpWaits, HttpCounts, HttpClears, HttpReads, HttpSecond, HttpAttempts,
           SslStep, SslWakes, SslReads, SslExchanges, Places
  <1>3. Goes(A) /\ Closes(A) /\ Mute(A)
    BY <1>0, <1>1, <1>2, Stays, Mutes DEF Goes
  <1>4. QED
    BY <1>1, <1>3, StatusKept

LEMMA StatusStepInv == StatusInv /\ [Next]_vars => StatusInv'
  <1> SUFFICES ASSUME StatusInv, [Next]_vars PROVE StatusInv'
    OBVIOUS
  <1>1. CASE Serial \/ Alarm \/ ScriptReadsMine \/ ScriptReadsOthers \/ UNCHANGED vars
    BY <1>1, StatusElsewhere
       DEF Serial, Alarm, ScriptReadsMine, ScriptReadsOthers, vars, fileVars, statusVars
  <1>2. CASE Reboot
    <2>1. /\ job' = [t \in Thread |-> Idle] /\ status' = <<>> /\ pc' = [t \in Thread |-> "start"]
          /\ silent' = [t \in Thread |-> FALSE] /\ mixed' = {} /\ unwritten' = {}
      BY <1>2 DEF Reboot, FilesCleared
    <2>2. Idle \in Entry /\ Idle.step = "idle"
      BY DEF Idle, Entry
    <2>3. StatusTypes'
      BY <2>1, <2>2, EmptySeq DEF StatusTypes, Places
    <2>4. QED
      BY <2>1, <2>2, <2>3 DEF StatusInv, Writing, Telling, StatusSteps
  <1>3. QED
    BY <1>1, <1>2, StatusThreadSteps, StatusClientSteps DEF Next

(* What the status file says of a TCP client is so, for any number of      *)
(* threads that truncate it, format into the one buffer and append to it   *)
(* in any order, and any failures to open it: unless the thread closed its *)
(* connection without a word, or its latest word did not reach the file or *)
(* came there through another thread (utils.c 490-515).                    *)
THEOREM StatusIsTruthful == Spec => []StatusTruthful
  <1>1. StatusInv => StatusTruthful
    <2> SUFFICES ASSUME StatusInv, NEW t \in Thread, NEW val, Runs(t) = "tcpc", Free(t),
                        t \notin unwritten \cup mixed, Says(t, val)
                 PROVE  Word(t, val)
      BY DEF StatusTruthful, Word
    <2>1. PICK i \in DOMAIN status : status[i] = <<t, val>>
      BY DEF Says
    <2>2. job[t].step = "idle" /\ status[i][1] = t /\ status[i][2] = val
      BY <2>1, FreeThread
    <2>3. QED
      BY <2>2 DEF StatusInv, Telling
  <1>2. QED
    BY <1>1, InitStatus, StatusStepInv, PTL DEF Spec


-----------------------------------------------------------------------------
(* The way of the serial bytes of an HTTP or SSL client: sent, held in a   *)
(* request, in the ring.  The order of the three is kept piece by piece.   *)
Elems(s) == {s[i] : i \in DOMAIN s}

Below(s, t) == \A i \in DOMAIN s, k \in DOMAIN t : s[i] < t[k]

Ordered(a, b, c) ==
  /\ Increasing(a) /\ Increasing(b) /\ Increasing(c)
  /\ Below(a, b) /\ Below(a, c) /\ Below(b, c)

LEMMA ElemsOfSeq ==
  ASSUME NEW s \in Seq(Nat)
  PROVE  Elems(s) = {s[i] : i \in 1 .. Len(s)} /\ DOMAIN s = 1 .. Len(s) /\ Len(s) \in Nat
  <1>1. DOMAIN s = 1 .. Len(s) /\ Len(s) \in Nat
    OBVIOUS
  <1>2. QED
    BY <1>1, Zenon DEF Elems

(* The places of a joined sequence, without the sequences. *)
LEMMA JoinedPlaces ==
  ASSUME NEW p \in Nat, NEW q \in Nat, NEW s, NEW t, NEW u,
         \A i \in 1 .. p + q : u[i] = IF i <= p THEN s[i] ELSE t[i - p]
  PROVE  /\ \A i \in 1 .. p + q : \/ i \in 1 .. p /\ u[i] = s[i]
                                  \/ i \notin 1 .. p /\ i - p \in 1 .. q /\ u[i] = t[i - p]
         /\ \A i \in 1 .. p : i \in 1 .. p + q /\ u[i] = s[i]
         /\ \A k \in 1 .. q : p + k \in 1 .. p + q /\ u[p + k] = t[k]
         /\ \A i, k \in 1 .. p + q : i < k =>
              /\ k \in 1 .. p => i \in 1 .. p
              /\ i \notin 1 .. p => i - p < k - p
  <1>1. \A k \in 1 .. q : p + k \in 1 .. p + q /\ ~(p + k <= p) /\ (p + k) - p = k
    OBVIOUS
  <1>2. \A k \in 1 .. q : u[p + k] = t[k]
    <2>1. TAKE k \in 1 .. q
    <2>2. u[p + k] = t[(p + k) - p] /\ (p + k) - p = k
      BY <1>1
    <2>3. QED
      BY <2>2
  <1>3. \A i \in 1 .. p + q : i <= p => i \in 1 .. p
    OBVIOUS
  <1>4. \A i \in 1 .. p + q : ~(i <= p) => i \notin 1 .. p /\ i - p \in 1 .. q
    OBVIOUS
  <1>5. \A i \in 1 .. p : i \in 1 .. p + q /\ i <= p
    OBVIOUS
  <1>6. \A i, k \in 1 .. p + q : i < k =>
          /\ k \in 1 .. p => i \in 1 .. p
          /\ i \notin 1 .. p => i - p < k - p
    OBVIOUS
  <1>7. \A i \in 1 .. p + q : (i <= p => u[i] = s[i]) /\ (~(i <= p) => u[i] = t[i - p])
    OBVIOUS
  <1>8. \A i \in 1 .. p + q : \/ i \in 1 .. p /\ u[i] = s[i]
                              \/ i \notin 1 .. p /\ i - p \in 1 .. q /\ u[i] = t[i - p]
    <2> TAKE i \in 1 .. p + q
    <2>1. CASE i <= p
      BY <1>3, <1>7, <2>1, Zenon
    <2>2. CASE ~(i <= p)
      BY <1>4, <1>7, <2>2, Zenon
    <2>3. QED
      BY <2>1, <2>2, Zenon
  <1>9. \A i \in 1 .. p : i \in 1 .. p + q /\ u[i] = s[i]
    BY <1>5, <1>7, Zenon
  <1>10. \A k \in 1 .. q : p + k \in 1 .. p + q /\ u[p + k] = t[k]
    BY <1>1, <1>2, Zenon
  <1>11. QED
    BY <1>6, <1>8, <1>9, <1>10

LEMMA Joined ==
  ASSUME NEW s \in Seq(Nat), NEW t \in Seq(Nat)
  PROVE  /\ s \o t \in Seq(Nat)
         /\ Elems(s \o t) = Elems(s) \cup Elems(t)
         /\ DOMAIN (s \o t) = 1 .. Len(s) + Len(t)
         /\ \A i \in 1 .. Len(s) + Len(t) :
              (s \o t)[i] = IF i <= Len(s) THEN s[i] ELSE t[i - Len(s)]
  <1> DEFINE u == s \o t
             p == Len(s)
             q == Len(t)
  <1>1. /\ u \in Seq(Nat) /\ p \in Nat /\ q \in Nat
        /\ DOMAIN u = 1 .. p + q /\ Len(u) = p + q
        /\ \A i \in 1 .. p + q : u[i] = IF i <= p THEN s[i] ELSE t[i - p]
    BY ConcatProperties
  <1>2. /\ Elems(s) = {s[i] : i \in 1 .. p}
        /\ Elems(t) = {t[i] : i \in 1 .. q}
        /\ Elems(u) = {u[i] : i \in 1 .. p + q}
    BY <1>1, ElemsOfSeq
  <1> HIDE DEF u, p, q
  <1>3. /\ \A i \in 1 .. p + q : \/ i \in 1 .. p /\ u[i] = s[i]
                                 \/ i \notin 1 .. p /\ i - p \in 1 .. q /\ u[i] = t[i - p]
        /\ \A i \in 1 .. p : i \in 1 .. p + q /\ u[i] = s[i]
        /\ \A k \in 1 .. q : p + k \in 1 .. p + q /\ u[p + k] = t[k]
    BY <1>1, JoinedPlaces, SMTT(40)
  <1>4. Elems(u) = Elems(s) \cup Elems(t)
    BY <1>2, <1>3, Zenon
  <1>5. QED
    BY <1>1, <1>4 DEF u, p, q

(* A piece that moves behind the pieces before it. *)
LEMMA JoinedOrder ==
  ASSUME NEW s \in Seq(Nat), NEW t \in Seq(Nat), NEW u \in Seq(Nat),
         Ordered(s, t, u)
  PROVE  Increasing(s \o t) /\ Below(s \o t, u)
  <1> DEFINE w == s \o t
             p == Len(s)
             q == Len(t)
  <1>1. /\ p \in Nat /\ q \in Nat /\ DOMAIN s = 1 .. p /\ DOMAIN t = 1 .. q
        /\ DOMAIN w = 1 .. p + q
        /\ \A i \in 1 .. p + q : w[i] = IF i <= p THEN s[i] ELSE t[i - p]
    BY Joined
  <1> HIDE DEF w, p, q
  <1>2. /\ \A i \in 1 .. p + q : \/ i \in 1 .. p /\ w[i] = s[i]
                                 \/ i \notin 1 .. p /\ i - p \in 1 .. q /\ w[i] = t[i - p]
        /\ \A i, k \in 1 .. p + q : i < k =>
              /\ k \in 1 .. p => i \in 1 .. p
              /\ i \notin 1 .. p => i - p < k - p
    BY <1>1, JoinedPlaces, SMTT(40)
  <1>3. ASSUME NEW i \in 1 .. p + q, NEW k \in 1 .. p + q, i < k
        PROVE  w[i] < w[k]
    <2>1. CASE k \in 1 .. p
      <3>1. i \in 1 .. p /\ w[i] = s[i] /\ w[k] = s[k]
        BY <1>2, <1>3, <2>1, Zenon
      <3>2. QED
        BY <1>1, <1>3, <2>1, <3>1, Zenon DEF Ordered, Increasing
    <2>2. CASE i \in 1 .. p /\ k \notin 1 .. p
      <3>1. w[i] = s[i] /\ k - p \in 1 .. q /\ w[k] = t[k - p]
        BY <1>2, <2>2, Zenon
      <3>2. QED
        BY <1>1, <2>2, <3>1, Zenon DEF Ordered, Below
    <2>3. CASE i \notin 1 .. p /\ k \notin 1 .. p
      <3>1. /\ i - p \in 1 .. q /\ k - p \in 1 .. q /\ i - p < k - p
            /\ w[i] = t[i - p] /\ w[k] = t[k - p]
        BY <1>2, <1>3, <2>3, Zenon
      <3>2. QED
        BY <1>1, <3>1, Zenon DEF Ordered, Increasing
    <2>4. QED
      BY <1>2, <1>3, <2>1, <2>2, <2>3, Zenon
  <1>4. Below(w, u)
    BY <1>1, <1>2, Zenon DEF Ordered, Below
  <1>5. QED
    BY <1>1, <1>3, <1>4, Zenon DEF Increasing, w

LEMMA JoinedPath ==
  ASSUME NEW a \in Seq(Nat), NEW b \in Seq(Nat), NEW c \in Seq(Nat)
  PROVE  /\ Elems(a \o b \o c) = Elems(a) \cup Elems(b) \cup Elems(c)
         /\ Ordered(a, b, c) => Increasing(a \o b \o c)
  <1>1. a \o b \in Seq(Nat) /\ Elems(a \o b) = Elems(a) \cup Elems(b)
    BY Joined
  <1>2. Elems((a \o b) \o c) = Elems(a) \cup Elems(b) \cup Elems(c)
    BY <1>1, Joined
  <1>3. ASSUME Ordered(a, b, c) PROVE Increasing((a \o b) \o c)
    <2>1. Increasing(a \o b) /\ Below(a \o b, c) /\ Increasing(c)
      BY <1>3, JoinedOrder DEF Ordered
    <2>2. DOMAIN <<>> = {} /\ <<>> \in Seq(Nat)
      OBVIOUS
    <2>3. Ordered(a \o b, c, <<>>)
      BY <2>1, <2>2, Zenon DEF Ordered, Increasing, Below
    <2>4. QED
      BY <1>1, <2>2, <2>3, JoinedOrder
  <1>4. QED
    BY <1>2, <1>3

(* What a read takes from the front, and leaves. *)
LEMMA TakenPlaces ==
  ASSUME NEW s, NEW len \in Nat, \A i \in 1 .. len : s[i] \in Nat,
         NEW m \in Nat, NEW k \in Nat, m <= k, k <= len
  PROVE  /\ SubSeq(s, 1, m) \in Seq(Nat) /\ SubSeq(s, k + 1, len) \in Seq(Nat)
         /\ Len(SubSeq(s, 1, m)) = m /\ Len(SubSeq(s, k + 1, len)) = len - k
         /\ \A i \in 1 .. m : SubSeq(s, 1, m)[i] = s[i]
         /\ \A i \in 1 .. len - k : SubSeq(s, k + 1, len)[i] = s[k + i]
  <1>1. \A i \in 1 .. m : s[i] \in Nat
    OBVIOUS
  <1>2. \A i \in k + 1 .. len : s[i] \in Nat
    OBVIOUS
  <1>3. /\ SubSeq(s, 1, m) \in Seq(Nat)
        /\ Len(SubSeq(s, 1, m)) = IF 1 <= m THEN m - 1 + 1 ELSE 0
        /\ \A i \in 1 .. m - 1 + 1 : SubSeq(s, 1, m)[i] = s[1 + i - 1]
    BY <1>1, SubSeqProperties
  <1>4. /\ SubSeq(s, k + 1, len) \in Seq(Nat)
        /\ Len(SubSeq(s, k + 1, len)) = IF k + 1 <= len THEN len - (k + 1) + 1 ELSE 0
        /\ \A i \in 1 .. len - (k + 1) + 1 : SubSeq(s, k + 1, len)[i] = s[(k + 1) + i - 1]
    BY <1>2, SubSeqProperties
  <1>5. QED
    BY <1>3, <1>4

LEMMA Taken ==
  ASSUME NEW s \in Seq(Nat), NEW m \in Nat, NEW k \in Nat, m <= k, k <= Len(s)
  PROVE  LET front == SubSeq(s, 1, m)
             rest  == SubSeq(s, k + 1, Len(s))
         IN  /\ front \in Seq(Nat) /\ rest \in Seq(Nat)
             /\ Len(front) = m /\ Len(rest) = Len(s) - k
             /\ \A i \in 1 .. m : front[i] = s[i]
             /\ \A i \in 1 .. Len(s) - k : rest[i] = s[k + i]
  <1> DEFINE len == Len(s)
  <1>1. len \in Nat /\ (\A i \in 1 .. len : s[i] \in Nat) /\ k <= len
    BY ElementOfSeq
  <1> HIDE DEF len
  <1>2. /\ SubSeq(s, 1, m) \in Seq(Nat) /\ SubSeq(s, k + 1, len) \in Seq(Nat)
        /\ Len(SubSeq(s, 1, m)) = m /\ Len(SubSeq(s, k + 1, len)) = len - k
        /\ \A i \in 1 .. m : SubSeq(s, 1, m)[i] = s[i]
        /\ \A i \in 1 .. len - k : SubSeq(s, k + 1, len)[i] = s[k + i]
    BY <1>1, TakenPlaces
  <1>3. QED
    BY <1>2 DEF len

Holding == IF pc[A] \in {"attempt", "exchange"} THEN pkt ELSE <<>>

(* What is sent, held and in the ring, in this order, rises unless a       *)
(* request was repeated for want of memory; what is counted is there.      *)
SentInv ==
  /\ sent \in Seq(Nat) /\ pkt \in Seq(Nat)
  /\ ~oom => Ordered(sent, Holding, ring)
  /\ 1 .. serial = Elems(sent) \cup Elems(Holding) \cup Elems(ring) \cup lost
  /\ Elems(pkt) \subseteq 1 .. serial
  /\ Runs(A) = "htpc" /\ pc[A] \in {"clear", "read"} => count <= Len(ring)
  /\ pc[A] \in {"clear", "attempt"} => Runs(A) = "htpc"

NoElems == Elems(<<>>) = {} /\ \A s : Increasing(<<>>) /\ Below(<<>>, s) /\ Below(s, <<>>)

LEMMA Nothing == NoElems
  <1>1. DOMAIN <<>> = {}
    OBVIOUS
  <1>2. QED
    BY <1>1, Zenon DEF NoElems, Elems, Increasing, Below

LEMMA InitSent == Init => SentInv
  <1> SUFFICES ASSUME Init PROVE SentInv
    OBVIOUS
  <1>1. /\ ring = <<>> /\ sent = <<>> /\ pkt = <<>> /\ lost = {} /\ serial = 0
        /\ pc[A] = "start"
    BY DEF Init
  <1>2. Holding = <<>>
    BY <1>1 DEF Holding
  <1>3. 1 .. 0 = {} /\ <<>> \in Seq(Nat)
    OBVIOUS
  <1>4. Ordered(sent, Holding, ring) /\ Elems(<<>>) = {}
    BY <1>1, <1>2, Nothing DEF NoElems, Ordered
  <1>5. 1 .. serial = Elems(sent) \cup Elems(Holding) \cup Elems(ring) \cup lost
    BY <1>1, <1>2, <1>3, <1>4
  <1>6. QED
    BY <1>1, <1>3, <1>4, <1>5 DEF SentInv

bytes == <<sent, pkt, ring, lost, oom, serial>>

(* A step that moves no byte: the thread stays where it holds or reads, or *)
(* is not there before nor after.                                          *)
LEMMA SentElsewhere ==
  ASSUME SentInv, UNCHANGED <<bytes, portVars>>,
         \/ pc'[A] = pc[A] /\ count' = count
         \/ {pc[A], pc'[A]} \cap {"attempt", "exchange", "clear", "read"} = {}
  PROVE  SentInv'
  <1>1. /\ sent' = sent /\ pkt' = pkt /\ ring' = ring /\ lost' = lost /\ oom' = oom
        /\ serial' = serial /\ Runs(A)' = Runs(A)
    BY DEF bytes, portVars, Runs
  <1>2. Holding' = Holding
    BY <1>1 DEF Holding
  <1>3. /\ Ordered(sent, Holding, ring)' = Ordered(sent, Holding, ring)
        /\ Elems(sent)' = Elems(sent) /\ Elems(Holding)' = Elems(Holding)
        /\ Elems(ring)' = Elems(ring) /\ Elems(pkt)' = Elems(pkt)
    BY <1>1, <1>2 DEF Ordered, Increasing, Below, Elems
  <1>4. QED
    BY <1>1, <1>3 DEF SentInv

LEMMA SentThreadSteps == ASSUME WakeInv, SentInv, NEW t \in Thread, ThreadStep(t) PROVE SentInv'
  <1> USE DEF Goto, InUse, serialVars, httpVars, bytes
  <1>1. pc \in [Thread -> Places]
    BY DEF WakeInv
  <1>2. /\ UNCHANGED <<bytes, portVars, count>>
        /\ \/ pc' = pc
           \/ /\ pc[t] \in {"start", "top", "retry", "loop"}
              /\ \E where \in {"wait", "top", "retry", "loop"} : pc' = [pc EXCEPT ![t] = where]
    <2>1. CASE Logs(t) \/ Recv(t) \/ IdleSecond(t)
      BY <2>1 DEF Logs, Recv, IdleSecond
    <2>2. CASE Start(t)
      BY <2>2 DEF Start
    <2>3. CASE AttemptFails(t) \/ Round(t) \/ Drop(t)
      BY <2>3 DEF AttemptFails, Round, Drop
    <2>4. CASE AttemptSucceeds(t)
      BY <2>4 DEF AttemptSucceeds
    <2>5. CASE TcpSecond(t)
      BY <2>5 DEF TcpSecond
    <2>6. QED
      BY <2>1, <2>2, <2>3, <2>4, <2>5 DEF ThreadStep
  <1>3. CASE pc' = pc \/ t # A
    BY <1>1, <1>2, <1>3, SentElsewhere
  <1>4. CASE pc' # pc /\ t = A
    BY <1>1, <1>2, <1>4, SentElsewhere
  <1>5. QED
    BY <1>3, <1>4

LEMMA TakenOrder ==
  ASSUME NEW a \in Seq(Nat), NEW s \in Seq(Nat), NEW m \in Nat, NEW k \in Nat,
         m <= k, k <= Len(s)
  PROVE  LET front == SubSeq(s, 1, m)
             rest  == SubSeq(s, k + 1, Len(s))
         IN  /\ front \in Seq(Nat) /\ rest \in Seq(Nat)
             /\ Ordered(a, <<>>, s) => Ordered(a, front, rest)
             /\ Elems(s) = Elems(front) \cup Elems(rest) \cup {s[i] : i \in m + 1 .. k}
  <1> DEFINE front == SubSeq(s, 1, m)
             rest  == SubSeq(s, k + 1, Len(s))
             len   == Len(s)
  <1>1. /\ front \in Seq(Nat) /\ rest \in Seq(Nat) /\ len \in Nat
        /\ Len(front) = m /\ Len(rest) = len - k
        /\ \A i \in 1 .. m : front[i] = s[i]
        /\ \A i \in 1 .. len - k : rest[i] = s[k + i]
    <2>1. /\ front \in Seq(Nat) /\ rest \in Seq(Nat)
          /\ Len(front) = m /\ Len(rest) = Len(s) - k
      BY Taken
    <2>2. \A i \in 1 .. m : front[i] = s[i]
      BY Taken
    <2>3. \A i \in 1 .. Len(s) - k : rest[i] = s[k + i]
      BY Taken
    <2> HIDE DEF front, rest
    <2>4. QED
      BY <2>1, <2>2, <2>3
  <1>2. /\ DOMAIN s = 1 .. len /\ DOMAIN front = 1 .. m /\ DOMAIN rest = 1 .. len - k
    <2>1. /\ front \in Seq(Nat) /\ rest \in Seq(Nat)
          /\ Len(front) = m /\ Len(rest) = Len(s) - k
      BY <1>1
    <2> HIDE DEF front, rest
    <2>2. DOMAIN s = 1 .. Len(s) /\ DOMAIN front = 1 .. m /\ DOMAIN rest = 1 .. Len(s) - k
      BY <2>1
    <2>3. QED
      BY <2>2
  <1>3. k <= len
    OBVIOUS
  <1> HIDE DEF front, rest, len
  <1>4. /\ \A i \in 1 .. m : i \in 1 .. len
        /\ \A i \in 1 .. len - k : k + i \in 1 .. len
        /\ \A i, j \in 1 .. len - k : i < j => k + i < k + j
        /\ \A i \in 1 .. m, j \in 1 .. len - k : i < k + j
        /\ \A i \in m + 1 .. k : i \in 1 .. len
        /\ \A i \in 1 .. len : \/ i \in 1 .. m
                               \/ i \in m + 1 .. k
                               \/ i - k \in 1 .. len - k /\ k + (i - k) = i
    BY <1>1, <1>3, SMTT(40)
  <1>5. ASSUME Ordered(a, <<>>, s) PROVE Ordered(a, front, rest)
    <2>1. Increasing(a) /\ Increasing(s) /\ Below(a, s)
      BY <1>5 DEF Ordered
    <2>2. Increasing(front)
      BY <1>1, <1>2, <1>4, <2>1, Zenon DEF Increasing
    <2>3. Increasing(rest)
      <3>1. ASSUME NEW i \in 1 .. len - k, NEW j \in 1 .. len - k, i < j
            PROVE  rest[i] < rest[j]
        <4>1. /\ k + i \in DOMAIN s /\ k + j \in DOMAIN s /\ k + i < k + j
              /\ rest[i] = s[k + i] /\ rest[j] = s[k + j]
          BY <1>1, <1>2, <1>4, <3>1, Zenon
        <4>2. QED
          BY <2>1, <4>1, Zenon DEF Increasing
      <3>2. QED
        BY <1>2, <3>1, Zenon DEF Increasing
    <2>4. Below(front, rest)
      <3>1. ASSUME NEW i \in 1 .. m, NEW j \in 1 .. len - k
            PROVE  front[i] < rest[j]
        <4>1. /\ i \in DOMAIN s /\ k + j \in DOMAIN s /\ i < k + j
              /\ front[i] = s[i] /\ rest[j] = s[k + j]
          BY <1>1, <1>2, <1>4, Zenon
        <4>2. QED
          BY <2>1, <4>1, Zenon DEF Increasing
      <3>2. QED
        BY <1>2, <3>1, Zenon DEF Below
    <2>5. Below(a, front)
      BY <1>1, <1>2, <1>4, <2>1, Zenon DEF Below
    <2>6. Below(a, rest)
      BY <1>1, <1>2, <1>4, <2>1, Zenon DEF Below
    <2>7. QED
      BY <2>1, <2>2, <2>3, <2>4, <2>5, <2>6 DEF Ordered
  <1>6. Elems(s) = Elems(front) \cup Elems(rest) \cup {s[i] : i \in m + 1 .. k}
    <2>1. ASSUME NEW i \in DOMAIN s
          PROVE  s[i] \in Elems(front) \cup Elems(rest) \cup {s[j] : j \in m + 1 .. k}
      <3>1. CASE i \in 1 .. m
        BY <1>1, <1>2, <3>1, Zenon DEF Elems
      <3>2. CASE i \in m + 1 .. k
        BY <3>2
      <3>3. CASE i - k \in 1 .. len - k /\ k + (i - k) = i
        <4>1. rest[i - k] = s[i]
          BY <1>1, <3>3
        <4>2. QED
          BY <1>2, <3>3, <4>1, Zenon DEF Elems
      <3>4. QED
        BY <1>2, <1>4, <3>1, <3>2, <3>3, Zenon
    <2>2. ASSUME NEW i \in 1 .. m PROVE front[i] \in Elems(s)
      BY <1>1, <1>2, <1>4, Zenon DEF Elems
    <2>3. ASSUME NEW i \in 1 .. len - k PROVE rest[i] \in Elems(s)
      BY <1>1, <1>2, <1>4, Zenon DEF Elems
    <2>4. ASSUME NEW i \in m + 1 .. k PROVE s[i] \in Elems(s)
      BY <1>2, <1>4, Zenon DEF Elems
    <2>5. Elems(s) \subseteq Elems(front) \cup Elems(rest) \cup {s[j] : j \in m + 1 .. k}
      BY <2>1 DEF Elems
    <2>6. Elems(front) \cup Elems(rest) \cup {s[j] : j \in m + 1 .. k} \subseteq Elems(s)
      <3> DEFINE whole == Elems(s)
      <3> HIDE DEF whole
      <3>1. Elems(front) \subseteq whole
        BY <1>2, <2>2 DEF Elems, whole
      <3>2. Elems(rest) \subseteq whole
        BY <1>2, <2>3 DEF Elems, whole
      <3>3. {s[j] : j \in m + 1 .. k} \subseteq whole
        BY <2>4 DEF whole
      <3>4. QED
        BY <3>1, <3>2, <3>3 DEF whole
    <2>7. QED
      BY <2>5, <2>6, Zenon
  <1>7. QED
    BY <1>1, <1>5, <1>6, Zenon DEF front, rest

(* The held request is lost, or sent behind what was sent before. *)
LEMMA SentOrLost ==
  ASSUME WakeInv, SentInv, pc[A] \in {"attempt", "exchange"},
         \E where \in {"wait", "loop", "retry"} : pc' = [pc EXCEPT ![A] = where],
         pkt' \in {pkt, <<>>}, UNCHANGED <<ring, oom, serial>>,
         \/ sent' = sent \o pkt /\ lost' = lost
         \/ sent' = sent /\ lost' = lost \cup Held
  PROVE  SentInv'
  <1>1. /\ pc'[A] \in {"wait", "loop", "retry"} /\ ring \in Seq(Nat) /\ sent \in Seq(Nat)
        /\ pkt \in Seq(Nat)
    BY DEF WakeInv, SentInv
  <1>2. Holding = pkt /\ Holding' = <<>> /\ Held = Elems(pkt)
    BY <1>1 DEF Holding, Held, Elems
  <1>3. /\ sent' \in Seq(Nat)
        /\ Elems(sent') \cup lost' = Elems(sent) \cup Elems(pkt) \cup lost
        /\ Ordered(sent, pkt, ring) => Increasing(sent') /\ Below(sent', ring)
    <2>1. CASE sent' = sent \o pkt /\ lost' = lost
      <3>1. /\ sent \o pkt \in Seq(Nat)
            /\ Elems(sent \o pkt) = Elems(sent) \cup Elems(pkt)
        BY <1>1, Joined, Zenon
      <3>2. Ordered(sent, pkt, ring) => Increasing(sent \o pkt) /\ Below(sent \o pkt, ring)
        BY <1>1, JoinedOrder, Zenon
      <3>3. QED
        BY <2>1, <3>1, <3>2
    <2>2. CASE sent' = sent /\ lost' = lost \cup Held
      BY <1>1, <1>2, <2>2 DEF Ordered
    <2>3. QED
      BY <2>1, <2>2
  <1>4. ~oom' => Ordered(sent', Holding', ring')
    BY <1>2, <1>3, Nothing DEF SentInv, Ordered, NoElems
  <1>5. 1 .. serial' = Elems(sent') \cup Elems(Holding') \cup Elems(ring') \cup lost'
    <2>1. 1 .. serial = Elems(sent) \cup Elems(pkt) \cup Elems(ring) \cup lost
      BY <1>2 DEF SentInv
    <2>2. Elems(Holding') = {} /\ Elems(ring') = Elems(ring) /\ 1 .. serial' = 1 .. serial
      BY <1>2, Nothing DEF NoElems
    <2>3. QED
      BY <1>3, <2>1, <2>2
  <1>6. pkt' \in Seq(Nat) /\ Elems(pkt') \subseteq 1 .. serial'
    <2>1. Elems(pkt) \subseteq 1 .. serial /\ Elems(<<>>) = {} /\ <<>> \in Seq(Nat)
      BY Nothing DEF SentInv, NoElems
    <2>2. CASE pkt' = pkt
      BY <1>1, <2>1, <2>2
    <2>3. CASE pkt' = <<>>
      BY <2>1, <2>3
    <2>4. QED
      BY <2>2, <2>3
  <1>7. /\ Elems(sent)' = Elems(sent') /\ Elems(Holding)' = Elems(Holding')
        /\ Elems(ring)' = Elems(ring') /\ Elems(pkt)' = Elems(pkt')
        /\ Ordered(sent, Holding, ring)' = Ordered(sent', Holding', ring')
    BY DEF Elems, Ordered, Increasing, Below
  <1>8. (pc[A] \notin {"clear", "read", "attempt"})'
    BY <1>1
  <1>9. QED
    BY <1>3, <1>4, <1>5, <1>6, <1>7, <1>8, Zenon DEF SentInv

(* Bytes are read from the ring into a request that had none. *)
LEMMA ReadOrLost ==
  ASSUME WakeInv, SentInv, pc[A] = "read", NEW where \in {"attempt", "exchange"},
         pc' = [pc EXCEPT ![A] = where], where = "attempt" => Runs(A)' = "htpc",
         NEW m \in Nat, NEW k \in Nat, m <= k, k <= Len(ring),
         pkt' = SubSeq(ring, 1, m), ring' = SubSeq(ring, k + 1, Len(ring)),
         lost' = lost \cup {ring[i] : i \in m + 1 .. k}, UNCHANGED <<sent, oom, serial>>
  PROVE  SentInv'
  <1>1. /\ pc'[A] = where /\ ring \in Seq(Nat) /\ sent \in Seq(Nat)
        /\ where \notin {"clear", "read"}
    BY DEF WakeInv, SentInv
  <1>2. Holding = <<>> /\ Holding' = pkt'
    BY <1>1 DEF Holding
  <1>3. /\ pkt' \in Seq(Nat)
        /\ Ordered(sent, <<>>, ring) => Ordered(sent, pkt', ring')
        /\ Elems(ring) = Elems(pkt') \cup Elems(ring') \cup {ring[i] : i \in m + 1 .. k}
    BY <1>1, TakenOrder
  <1>4. ~oom' => Ordered(sent', Holding', ring')
    BY <1>2, <1>3 DEF SentInv
  <1>5. 1 .. serial' = Elems(sent') \cup Elems(Holding') \cup Elems(ring') \cup lost'
    <2>1. 1 .. serial = Elems(sent) \cup Elems(ring) \cup lost
      BY <1>2, Nothing DEF SentInv, NoElems
    <2>2. Elems(sent') = Elems(sent) /\ Elems(Holding') = Elems(pkt') /\ 1 .. serial' = 1 .. serial
      BY <1>2
    <2>3. QED
      BY <1>3, <2>1, <2>2
  <1>6. Elems(pkt') \subseteq 1 .. serial'
    BY <1>2, <1>5, Zenon
  <1>7. /\ Elems(sent)' = Elems(sent') /\ Elems(Holding)' = Elems(Holding')
        /\ Elems(ring)' = Elems(ring') /\ Elems(pkt)' = Elems(pkt')
        /\ Ordered(sent, Holding, ring)' = Ordered(sent', Holding', ring')
    BY DEF Elems, Ordered, Increasing, Below
  <1>8. QED
    BY <1>1, <1>3, <1>4, <1>5, <1>6, <1>7 DEF SentInv

LEMMA SentHttpSteps == ASSUME WakeInv, SentInv, HttpStep \/ HttpAttempts PROVE SentInv'
  <1> USE DEF Goto, Http, httpVars, bytes
  <1>0. /\ pc \in [Thread -> Places] /\ ring \in Seq(Nat) /\ Len(ring) \in Nat /\ count \in Nat
        /\ Runs(A) = "htpc"
    BY DEF WakeInv, HttpStep, HttpWaits, HttpCounts, HttpClears, HttpReads, HttpSecond, HttpAttempts
  <1>1. CASE HttpWaits \/ HttpSecond
    <2>1. /\ UNCHANGED <<bytes, portVars, count>>
          /\ \/ pc' = pc
             \/ pc[A] = "loop" /\ pc' = [pc EXCEPT ![A] = "wait"]
      BY <1>1 DEF HttpWaits, HttpSecond, serialVars
    <2>2. QED
      BY <1>0, <2>1, SentElsewhere
  <1>2. CASE HttpCounts
    <2>1. /\ pc[A] = "wait" /\ pc'[A] = "clear" /\ count' = Len(ring) /\ Runs(A)' = "htpc"
          /\ UNCHANGED <<sent, pkt, ring, lost, oom, serial>>
      BY <1>0, <1>2 DEF HttpCounts, portVars, Runs
    <2>2. Holding = <<>> /\ Holding' = <<>>
      BY <2>1 DEF Holding
    <2>3. /\ Ordered(sent, Holding, ring)' = Ordered(sent, Holding, ring)
          /\ Elems(sent)' = Elems(sent) /\ Elems(Holding)' = Elems(Holding)
          /\ Elems(ring)' = Elems(ring) /\ Elems(pkt)' = Elems(pkt)
      BY <2>1, <2>2 DEF Ordered, Increasing, Below, Elems
    <2>4. count' <= Len(ring')
      BY <1>0, <2>1
    <2>5. QED
      BY <2>1, <2>3, <2>4 DEF SentInv
  <1>3. CASE HttpClears
    <2>1. /\ pc[A] = "clear" /\ pc'[A] = "read" /\ count' = count /\ Runs(A)' = Runs(A)
          /\ UNCHANGED <<sent, pkt, ring, lost, oom, serial>>
      BY <1>0, <1>3 DEF HttpClears, portVars, Runs
    <2>2. Holding = <<>> /\ Holding' = <<>>
      BY <2>1 DEF Holding
    <2>3. /\ Ordered(sent, Holding, ring)' = Ordered(sent, Holding, ring)
          /\ Elems(sent)' = Elems(sent) /\ Elems(Holding)' = Elems(Holding)
          /\ Elems(ring)' = Elems(ring) /\ Elems(pkt)' = Elems(pkt)
      BY <2>1, <2>2 DEF Ordered, Increasing, Below, Elems
    <2>4. QED
      BY <2>1, <2>3 DEF SentInv
  <1>4. CASE HttpReads
    <2> DEFINE fits == IF count < Room THEN count ELSE Room
    <2>1. /\ pc[A] = "read" /\ pc' = [pc EXCEPT ![A] = "attempt"] /\ Runs(A)' = "htpc"
          /\ UNCHANGED <<sent, serial, count>> /\ count <= Len(ring)
      BY <1>0, <1>4 DEF HttpReads, SentInv, portVars, Runs
    <2>2. fits \in Nat /\ fits <= count
      BY <1>0
    <2>3. CASE /\ pkt' = SubSeq(ring, 1, fits) /\ ring' = SubSeq(ring, count + 1, Len(ring))
               /\ lost' = lost \cup {ring[i] : i \in fits + 1 .. count} /\ oom' = oom
      <3> HIDE DEF fits
      <3>1. QED
        BY <1>0, <2>1, <2>2, <2>3, ReadOrLost
    <2>4. CASE oom' = TRUE /\ pkt' = pkt /\ ring' = ring /\ lost' = lost
      <3>1. Holding = <<>> /\ Holding' = pkt /\ pc'[A] = "attempt"
        BY <1>0, <2>1, <2>4 DEF Holding
      <3>2. /\ Elems(sent)' = Elems(sent) /\ Elems(Holding)' = Elems(pkt)
            /\ Elems(ring)' = Elems(ring) /\ Elems(pkt)' = Elems(pkt)
        BY <2>1, <2>4, <3>1 DEF Elems
      <3>3. 1 .. serial = Elems(sent) \cup Elems(ring) \cup lost /\ Elems(pkt) \subseteq 1 .. serial
        BY <3>1, Nothing DEF SentInv, NoElems
      <3>4. QED
        BY <2>1, <2>4, <3>1, <3>2, <3>3 DEF SentInv
    <2>5. QED
      BY <1>4, <2>3, <2>4 DEF HttpReads
  <1>5. CASE HttpAttempts
    BY <1>5, SentOrLost DEF HttpAttempts
  <1>6. QED
    BY <1>1, <1>2, <1>3, <1>4, <1>5 DEF HttpStep

LEMMA SentSslSteps == ASSUME WakeInv, SentInv, SslStep \/ SslExchanges PROVE SentInv'
  <1> USE DEF Goto, Ssl, httpVars
  <1>0. /\ pc \in [Thread -> Places] /\ ring \in Seq(Nat) /\ Len(ring) \in Nat
        /\ Runs(A) = "sslc" /\ Runs(A)' = "sslc"
    BY DEF WakeInv, SslStep, SslWakes, SslReads, SslExchanges, portVars, Runs
  <1>1. CASE SslWakes \/ (SslReads /\ pc' = [pc EXCEPT ![A] = "loop"])
    <2>1. /\ sent' = sent /\ pkt' = pkt /\ ring' = ring /\ lost' = lost /\ oom' = oom
          /\ serial' = serial /\ pc'[A] \in {"read", "loop"} /\ pc[A] \in {"read", "loop"}
      BY <1>0, <1>1 DEF SslWakes, SslReads
    <2>2. Holding = <<>> /\ Holding' = <<>>
      BY <2>1 DEF Holding
    <2>3. /\ Ordered(sent, Holding, ring)' = Ordered(sent, Holding, ring)
          /\ Elems(sent)' = Elems(sent) /\ Elems(Holding)' = Elems(Holding)
          /\ Elems(ring)' = Elems(ring) /\ Elems(pkt)' = Elems(pkt)
      BY <2>1, <2>2 DEF Ordered, Increasing, Below, Elems
    <2>4. QED
      BY <1>0, <2>1, <2>3 DEF SentInv
  <1>2. CASE SslReads /\ pc' # [pc EXCEPT ![A] = "loop"]
    <2> DEFINE len == Len(ring)
    <2>1. /\ pc[A] = "read" /\ pc' = [pc EXCEPT ![A] = "exchange"]
          /\ pkt' = ring /\ ring' = <<>> /\ UNCHANGED <<sent, lost, oom, serial>>
      BY <1>2 DEF SslReads
    <2>2. pkt' = SubSeq(ring, 1, len)
      BY <1>0, <2>1, SubSeqFull
    <2>3. ring' = SubSeq(ring, len + 1, Len(ring))
      BY <1>0, <2>1, SubSeqEmpty
    <2>4. len + 1 .. len = {} /\ len <= len
      BY <1>0
    <2>5. lost' = lost \cup {ring[i] : i \in len + 1 .. len}
      <3> HIDE DEF len
      <3>1. QED
        BY <2>1, <2>4
    <2>6. QED
      <3> HIDE DEF len
      <3>1. len \in Nat /\ len <= Len(ring)
        BY <1>0 DEF len
      <3>2. QED
        BY <2>1, <2>2, <2>3, <2>4, <2>5, <3>1, ReadOrLost
  <1>3. CASE SslExchanges
    BY <1>3, SentOrLost DEF SslExchanges
  <1>4. QED
    BY <1>1, <1>2, <1>3 DEF SslStep

LEMMA OneMore ==
  ASSUME NEW m \in Nat
  PROVE  /\ 1 .. m + 1 = 1 .. m \cup {m + 1}
         /\ \A i \in 1 .. m : i < m + 1
         /\ \A i, k \in 1 .. m + 1 : i < k => i \in 1 .. m
  <1>1. \A i \in Int : i \in 1 .. m + 1 <=> i \in 1 .. m \/ i = m + 1
    OBVIOUS
  <1>2. 1 .. m + 1 \subseteq Int /\ 1 .. m \subseteq Int /\ m + 1 \in Int
    OBVIOUS
  <1>3. 1 .. m + 1 = 1 .. m \cup {m + 1}
    BY <1>1, <1>2
  <1>4. QED
    BY <1>3

LEMMA Appended ==
  ASSUME NEW s \in Seq(Nat), NEW b \in Nat
  PROVE  /\ Append(s, b) \in Seq(Nat) /\ Len(Append(s, b)) = Len(s) + 1
         /\ DOMAIN Append(s, b) = 1 .. Len(s) + 1
         /\ \A i \in 1 .. Len(s) : Append(s, b)[i] = s[i]
         /\ Append(s, b)[Len(s) + 1] = b
  BY AppendProperties

(* The next byte of the serial line is the greatest. *)
LEMMA SentSerial == ASSUME WakeInv, SentInv, Serial PROVE SentInv'
  <1> DEFINE len == Len(ring)
  <1>1. /\ ring \in Seq(Nat) /\ serial \in Nat /\ len \in Nat /\ serial' = serial + 1
        /\ ring' = Append(ring, serial + 1)
        /\ UNCHANGED <<sent, pkt, lost, oom, count, pc>> /\ Runs(A)' = Runs(A)
    BY DEF Serial, WakeInv, httpVars, portVars, Runs
  <1>2. /\ DOMAIN ring = 1 .. len /\ DOMAIN ring' = 1 .. len + 1 /\ Len(ring') = len + 1
        /\ \A i \in 1 .. len : ring'[i] = ring[i]
        /\ ring'[len + 1] = serial + 1
    <2> DEFINE b == serial + 1
    <2>1. b \in Nat /\ ring' = Append(ring, b) /\ DOMAIN ring = 1 .. len
      BY <1>1
    <2> HIDE DEF b
    <2>2. /\ DOMAIN ring' = 1 .. len + 1 /\ Len(ring') = len + 1
          /\ \A i \in 1 .. len : ring'[i] = ring[i]
          /\ ring'[len + 1] = b
      BY <1>1, <2>1, Appended
    <2>3. QED
      BY <2>1, <2>2 DEF b
  <1>3. Holding' = Holding
    BY <1>1 DEF Holding
  <1>4. /\ 1 .. serial' = 1 .. serial \cup {serial + 1}
        /\ \A i \in 1 .. serial : i < serial + 1
    BY <1>1, OneMore
  <1> HIDE DEF len
  <1>5. /\ 1 .. len + 1 = 1 .. len \cup {len + 1}
        /\ \A i, k \in 1 .. len + 1 : i < k => i \in 1 .. len
    BY <1>1, OneMore
  <1>6. Elems(ring') = Elems(ring) \cup {serial + 1}
    <2>1. \A i \in 1 .. len + 1 : i \in 1 .. len \/ i = len + 1
      BY <1>5
    <2>2. \A i \in 1 .. len : i \in 1 .. len + 1
      BY <1>5
    <2>3. len + 1 \in 1 .. len + 1
      BY <1>5
    <2>4. Elems(ring') = {ring'[i] : i \in 1 .. len + 1} /\ Elems(ring) = {ring[i] : i \in 1 .. len}
      BY <1>2, Zenon DEF Elems
    <2>5. QED
      BY <1>2, <2>1, <2>2, <2>3, <2>4
  <1>7. Elems(sent) \cup Elems(Holding) \cup Elems(ring) \subseteq 1 .. serial
    BY DEF SentInv
  <1>8. ASSUME Ordered(sent, Holding, ring) PROVE Ordered(sent, Holding, ring')
    <2>1. \A i \in 1 .. len + 1 : (i \in 1 .. len /\ ring'[i] = ring[i])
                                  \/ (i = len + 1 /\ ring'[i] = serial + 1)
      BY <1>2, <1>5
    <2>2. \A i \in DOMAIN sent : sent[i] < serial + 1
      BY <1>4, <1>7 DEF Elems
    <2>3. \A i \in DOMAIN Holding : Holding[i] < serial + 1
      BY <1>4, <1>7 DEF Elems
    <2>4. \A i \in 1 .. len : ring[i] < serial + 1
      BY <1>2, <1>4, <1>7 DEF Elems
    <2>5. Below(sent, ring')
      BY <1>2, <1>8, <2>1, <2>2, Zenon DEF Ordered, Below
    <2>6. Below(Holding, ring')
      BY <1>2, <1>8, <2>1, <2>3, Zenon DEF Ordered, Below
    <2>7. Increasing(ring')
      <3>1. ASSUME NEW i \in 1 .. len + 1, NEW k \in 1 .. len + 1, i < k
            PROVE  ring'[i] < ring'[k]
        <4>1. i \in 1 .. len /\ ring'[i] = ring[i]
          BY <1>2, <1>5, <3>1, Zenon
        <4>2. CASE k \in 1 .. len
          BY <1>2, <1>8, <3>1, <4>1, <4>2, Zenon DEF Ordered, Increasing
        <4>3. CASE k = len + 1
          BY <1>2, <2>4, <4>1, <4>3, Zenon
        <4>4. QED
          BY <1>5, <4>2, <4>3
      <3>2. QED
        BY <1>2, <3>1, Zenon DEF Increasing
    <2>8. QED
      BY <1>8, <2>5, <2>6, <2>7 DEF Ordered
  <1>9. ~oom' => Ordered(sent', Holding', ring')
    BY <1>1, <1>3, <1>8 DEF SentInv
  <1>10. 1 .. serial' = Elems(sent') \cup Elems(Holding') \cup Elems(ring') \cup lost'
    <2>1. /\ 1 .. serial = Elems(sent) \cup Elems(Holding) \cup Elems(ring) \cup lost
          /\ sent' = sent /\ lost' = lost
      BY <1>1 DEF SentInv
    <2>2. QED
      BY <1>3, <1>4, <1>6, <2>1
  <1>11. /\ sent' \in Seq(Nat) /\ pkt' \in Seq(Nat) /\ Elems(pkt') \subseteq 1 .. serial'
    <2>1. sent' = sent /\ pkt' = pkt /\ Elems(pkt) \subseteq 1 .. serial
      BY <1>1 DEF SentInv
    <2>2. QED
      BY <1>4, <2>1 DEF SentInv
  <1>12. (Runs(A) = "htpc" /\ pc[A] \in {"clear", "read"} => count <= Len(ring))'
    <2>1. Runs(A) = "htpc" /\ pc[A] \in {"clear", "read"} => count <= len
      BY DEF SentInv, len
    <2>2. count \in Nat /\ len \in Nat => (count <= len => count <= len + 1)
      OBVIOUS
    <2>3. QED
      BY <1>1, <1>2, <2>1, <2>2 DEF WakeInv
  <1>13. /\ Elems(sent)' = Elems(sent') /\ Elems(Holding)' = Elems(Holding')
         /\ Elems(ring)' = Elems(ring') /\ Elems(pkt)' = Elems(pkt')
         /\ Ordered(sent, Holding, ring)' = Ordered(sent', Holding', ring')
    BY DEF Elems, Ordered, Increasing, Below
  <1>14. (pc[A] \in {"clear", "attempt"} => Runs(A) = "htpc")'
    BY <1>1 DEF SentInv
  <1>15. QED
    BY <1>9, <1>10, <1>11, <1>12, <1>13, <1>14, Zenon DEF SentInv

(* The box restarts: everything that was not sent is lost, and what was    *)
(* sent is on record no more.                                              *)
LEMMA SentReboot == ASSUME WakeInv, SentInv, Reboot PROVE SentInv'
  <1>1. /\ pc' = [t \in Thread |-> "start"] /\ ring' = <<>> /\ pkt' = <<>> /\ sent' = <<>>
        /\ lost' = 1 .. serial /\ serial' = serial
    BY DEF Reboot
  <1>2. Holding' = <<>> /\ pc'[A] = "start"
    BY <1>1 DEF Holding
  <1>3. /\ Elems(sent)' = {} /\ Elems(Holding)' = {} /\ Elems(ring)' = {} /\ Elems(pkt)' = {}
        /\ Ordered(sent, Holding, ring)'
    <2>1. Elems(<<>>) = {} /\ Ordered(<<>>, <<>>, <<>>)
      BY Nothing DEF NoElems, Ordered
    <2>2. QED
      BY <1>1, <1>2, <2>1 DEF Elems, Ordered, Increasing, Below
  <1>4. QED
    BY <1>1, <1>2, <1>3 DEF SentInv

LEMMA StepSent == WakeInv /\ SentInv /\ [Next]_vars => SentInv'
  <1> SUFFICES ASSUME WakeInv, SentInv, [Next]_vars PROVE SentInv'
    OBVIOUS
  <1>1. CASE Alarm \/ ScriptReadsMine \/ ScriptReadsOthers \/ UNCHANGED vars
    <2>1. UNCHANGED <<bytes, portVars, count, pc>>
      BY <1>1 DEF Alarm, ScriptReadsMine, ScriptReadsOthers, vars, serialVars, httpVars, bytes
    <2>2. QED
      BY <2>1, SentElsewhere
  <1>2. QED
    BY <1>1, SentThreadSteps, SentHttpSteps, SentSslSteps, SentSerial, SentReboot DEF Next

(* Whatever requests fail, whatever has no room or no memory, and however  *)
(* the serial line and the client interleave: each serial byte is sent,    *)
(* held, in the ring or counted as lost, and the bytes are sent once and   *)
(* in order unless a request was repeated for want of memory               *)
(* (httpdclient.c 203, 253; sslc.c 169).                                   *)
THEOREM BytesSentOnce == Spec => []SentOnce
  <1>1. WakeInv /\ SentInv => SentOnce
    <2> SUFFICES ASSUME WakeInv, SentInv PROVE SentOnce
      OBVIOUS
    <2>1. sent \in Seq(Nat) /\ Holding \in Seq(Nat) /\ ring \in Seq(Nat)
      BY EmptySeq DEF WakeInv, SentInv, Holding
    <2>2. /\ Elems(sent \o Holding \o ring) = Elems(sent) \cup Elems(Holding) \cup Elems(ring)
          /\ Ordered(sent, Holding, ring) => Increasing(sent \o Holding \o ring)
      BY <2>1, JoinedPath, Zenon
    <2>3. /\ ~oom => Increasing(sent \o Holding \o ring)
          /\ 1 .. serial = Elems(sent \o Holding \o ring) \cup lost
      BY <2>2 DEF SentInv
    <2>4. QED
      BY <2>3, Zenon DEF SentOnce, Holding, Elems
  <1>2. QED
    BY <1>1, InitWakeInv, StepWakeInv, InitSent, StepSent, PTL DEF Spec

-----------------------------------------------------------------------------
(* What the threads send of their own (Logins.tla).                        *)
Threads == L!BothThreads

LoginTypes ==
  /\ at \in [Threads -> {"off", "down", "fill", "key", "encrypt", "send", "up"}]
  /\ n \in [Threads -> Nat]
  /\ overlap \in [Threads -> BOOLEAN] /\ opened \in [Threads -> BOOLEAN]
  /\ udp_src_ip \in [Threads -> {"remote", "stranger"}] /\ spoke \in [Threads -> BOOLEAN]
  /\ sec_cnt \in [Threads -> 0 .. HeartTime - 1] /\ since \in [Threads -> Nat]
  /\ skipped \in [Threads -> BOOLEAN]
  /\ DOMAIN last = Threads

(* The seconds without a heartbeat are behind the phase, which goes on     *)
(* from one connection to the next, unless one was left out.               *)
Beats(t) == L!Client(t) /\ ~skipped[t] => since[t] <= sec_cnt[t]

(* The login so far: the first bytes encrypted, each under the plain ones  *)
(* before it, the others not yet.                                          *)
PlainTo(k) == [j \in 1 .. k |-> L!Plain(j)]
Partly(k) == [i \in 1 .. CloudLen |-> IF i <= k THEN <<i, PlainTo(i - 1)>> ELSE L!Plain(i)]

(* A thread that had the cipher for itself so far still has it.            *)
Enciphers(t) ==
  L!Registering(t) /\ ~overlap[t] =>
    /\ \A v \in Threads \ {t} : ~L!Registering(v)
    /\ cloud_data = Partly(n[t])
    /\ at[t] = "key" => n[t] = 0
    /\ at[t] = "encrypt" => n[t] < CloudLen
    /\ at[t] = "send" => n[t] = CloudLen
    /\ at[t] # "key" => absorbed = PlainTo(n[t])

Proper(t) ==
  /\ at[t] \in {"fill", "key", "encrypt", "send"} => L!Cloud(t)
  /\ at[t] = "up" => (L!Opens(t) \/ L!Cloud(t) => opened[t])
  /\ udp_src_ip[t] = "stranger" => spoke[t] /\ L!Udp(t)
  /\ last[t].kind = "data" => last[t].login = (IF L!Leads(t) THEN L!loginen ELSE "none")
  /\ at[t] = "up" => last[t].whole \/ overlap[t]
  /\ last[t].to = "stranger" =>
       spoke[t] /\ (L!Client(t) => last[t].kind = "heart" /\ L!Udp(t) /\ t = L!B)

LoginInv == LoginTypes /\ \A t \in Threads : Beats(t) /\ Enciphers(t) /\ Proper(t)

LEMMA TwoThreads ==
  \A t \in Threads : L!Other(t) \in Threads /\ L!Other(t) # t /\ (\A u \in Threads : u = t \/ u = L!Other(t))
  <1>1. Threads = {"socketa", "socketb"} /\ "socketa" # "socketb"
    BY DEF Threads, L!BothThreads, L!A, L!B
  <1>2. ASSUME NEW t \in Threads PROVE L!Other(t) \in Threads /\ L!Other(t) # t
    <2>1. \E u \in Threads : u # t
      BY <1>1
    <2>2. QED
      BY <2>1 DEF L!Other, Threads
  <1>3. QED
    BY <1>1, <1>2

LEMMA SameConfig ==
  ASSUME config' = config, NEW t
  PROVE  /\ L!Mode(t)' = L!Mode(t) /\ L!loginen' = L!loginen /\ L!Udp(t)' = L!Udp(t)
         /\ L!Client(t)' = L!Client(t) /\ L!Leads(t)' = L!Leads(t)
         /\ L!Opens(t)' = L!Opens(t) /\ L!Cloud(t)' = L!Cloud(t)
  BY DEF L!Mode, L!loginen, L!Udp, L!Client, L!When, L!Leads, L!Opens, L!Cloud

LEMMA InitLogins == L!Init => LoginInv
  <1> SUFFICES ASSUME L!Init PROVE LoginInv
    OBVIOUS
  <1>1. HeartTime \in Nat \ {0}
    BY LoginsSizes DEF L!LoginsAssumption
  <1>2. 0 \in 0 .. HeartTime - 1
    BY <1>1
  <1>3. LoginTypes
    BY <1>2 DEF L!Init, LoginTypes, Threads
  <1>4. ASSUME NEW t \in Threads PROVE Beats(t) /\ Enciphers(t) /\ Proper(t)
    <2>1. /\ at[t] \in {"off", "down"} /\ since[t] = 0 /\ sec_cnt[t] = 0
          /\ udp_src_ip[t] = "remote" /\ last[t] = L!Nothing
      BY <1>4 DEF L!Init, Threads
    <2>2. last[t].kind = "none" /\ last[t].to = "remote"
      BY <2>1 DEF L!Nothing
    <2>3. QED
      BY <2>1, <2>2 DEF Beats, Enciphers, Proper, L!Registering
  <1>5. QED
    BY <1>3, <1>4 DEF LoginInv

(* The phase and the seconds. *)
LEMMA BeatsKept ==
  ASSUME LoginInv, config' = config, UNCHANGED <<sec_cnt, since, skipped>>, NEW u \in Threads
  PROVE  Beats(u)'
  BY SameConfig DEF LoginInv, Beats

LEMMA BeatsSecond ==
  ASSUME LoginInv, NEW t \in Threads, L!Second(t), NEW u \in Threads
  PROVE  /\ Beats(u)' /\ sec_cnt' \in [Threads -> 0 .. HeartTime - 1]
         /\ since' \in [Threads -> Nat] /\ skipped' \in [Threads -> BOOLEAN]
  <1>1. /\ HeartTime \in Nat \ {0} /\ config' = config
        /\ sec_cnt[t] \in 0 .. HeartTime - 1 /\ since[t] \in Nat
    BY LoginsSizes DEF L!LoginsAssumption, L!Second, LoginInv, LoginTypes
  <1> DEFINE second == (sec_cnt[t] + 1) % HeartTime
             due == L!Client(t) /\ second = 0
  <1>2. second = IF sec_cnt[t] + 1 = HeartTime THEN 0 ELSE sec_cnt[t] + 1
    <2>1. ASSUME NEW h \in Nat \ {0}, NEW s \in 0 .. h - 1
          PROVE  (s + 1) % h = IF s + 1 = h THEN 0 ELSE s + 1
      <3>1. CASE s + 1 = h
        BY <3>1
      <3>2. CASE s + 1 # h
        <4>1. s + 1 \in 0 .. h - 1
          BY <3>2
        <4>2. QED
          BY <4>1, <3>2
      <3>3. QED
        BY <3>1, <3>2
    <2>2. QED
      BY <1>1, <2>1
  <1>3. /\ sec_cnt' = [sec_cnt EXCEPT ![t] = second]
        /\ \/ /\ since' = [since EXCEPT ![t] = 0]
              /\ skipped' = [skipped EXCEPT ![t] = FALSE]
           \/ /\ since' = [since EXCEPT ![t] = IF @ < HeartTime THEN @ + 1 ELSE @]
              /\ skipped' = [skipped EXCEPT ![t] = @ \/ due]
    BY DEF L!Second
  <1> HIDE DEF second
  <1>4. second \in 0 .. HeartTime - 1
    BY <1>1, <1>2
  <1>5. /\ sec_cnt' \in [Threads -> 0 .. HeartTime - 1] /\ since' \in [Threads -> Nat]
        /\ sec_cnt'[t] = second
        /\ u # t => sec_cnt'[u] = sec_cnt[u] /\ since'[u] = since[u]
    BY <1>1, <1>3, <1>4 DEF LoginInv, LoginTypes
  <1>6. /\ skipped' \in [Threads -> BOOLEAN]
        /\ u # t => skipped'[u] = skipped[u]
    BY <1>3 DEF LoginInv, LoginTypes
  <1>7. Beats(u)'
    <2>1. CASE u # t
      BY <1>1, <1>5, <1>6, <2>1, SameConfig DEF LoginInv, Beats
    <2>2. CASE u = t
      <3>1. CASE since' = [since EXCEPT ![t] = 0]
        <4>1. since'[t] = 0 /\ sec_cnt'[t] >= 0
          BY <1>4, <1>5, <3>1 DEF LoginInv, LoginTypes
        <4>2. QED
          BY <2>2, <4>1 DEF Beats
      <3>2. CASE /\ since' = [since EXCEPT ![t] = IF @ < HeartTime THEN @ + 1 ELSE @]
                 /\ skipped' = [skipped EXCEPT ![t] = @ \/ due]
        <4>1. since'[t] <= since[t] + 1
          BY <1>1, <3>2 DEF LoginInv, LoginTypes
        <4>2. skipped'[t] = (skipped[t] \/ due)
          BY <3>2 DEF LoginInv, LoginTypes
        <4>3. ASSUME L!Client(t), ~skipped'[t] PROVE since'[t] <= sec_cnt'[t]
          <5>1. ~skipped[t] /\ second # 0
            BY <4>2, <4>3
          <5>2. since[t] <= sec_cnt[t] /\ second = sec_cnt[t] + 1
            BY <1>1, <1>2, <4>3, <5>1 DEF LoginInv, Beats
          <5>3. since'[t] \in Nat
            BY <1>5
          <5>4. QED
            BY <1>1, <1>5, <4>1, <5>2, <5>3
        <4>4. QED
          BY <1>1, <2>2, <4>3, SameConfig DEF Beats
      <3>3. QED
        BY <1>3, <3>1, <3>2
    <2>3. QED
      BY <2>1, <2>2
  <1>8. QED
    BY <1>5, <1>6, <1>7

(* The cipher, at a step that does not use it. *)
LEMMA CipherElsewhere ==
  ASSUME LoginInv, UNCHANGED <<n, cloud_data, absorbed>>,
         \A v \in Threads : L!Registering(v)' => at'[v] = at[v] /\ overlap'[v] = overlap[v],
         NEW u \in Threads
  PROVE  Enciphers(u)'
  <1>1. ASSUME L!Registering(u)', ~overlap'[u]
        PROVE  /\ \A v \in Threads \ {u} : ~L!Registering(v)'
               /\ cloud_data' = Partly(n'[u])
               /\ at'[u] = "key" => n'[u] = 0
               /\ at'[u] = "encrypt" => n'[u] < CloudLen
               /\ at'[u] = "send" => n'[u] = CloudLen
               /\ at'[u] # "key" => absorbed' = PlainTo(n'[u])
    <2>1. L!Registering(u) /\ ~overlap[u] /\ at'[u] = at[u]
      BY <1>1 DEF L!Registering
    <2>2. /\ \A v \in Threads \ {u} : ~L!Registering(v)
          /\ cloud_data = Partly(n[u])
          /\ at[u] = "key" => n[u] = 0
          /\ at[u] = "encrypt" => n[u] < CloudLen
          /\ at[u] = "send" => n[u] = CloudLen
          /\ at[u] # "key" => absorbed = PlainTo(n[u])
      BY <2>1, Zenon DEF LoginInv, Enciphers
    <2>3. \A v \in Threads \ {u} : ~L!Registering(v)'
      BY <2>2 DEF L!Registering
    <2>4. QED
      BY <2>1, <2>2, <2>3
  <1>2. PlainTo(n[u])' = PlainTo(n'[u]) /\ Partly(n[u])' = Partly(n'[u])
    BY DEF PlainTo, Partly, L!Plain
  <1>3. QED
    BY <1>1, <1>2 DEF Enciphers

LEMMA PlainSeq ==
  ASSUME NEW k \in Nat
  PROVE  Append(PlainTo(k), L!Plain(k + 1)) = PlainTo(k + 1)
  <1> DEFINE S == {L!Plain(i) : i \in Nat}
             p == PlainTo(k)
             q == PlainTo(k + 1)
             r == Append(p, L!Plain(k + 1))
  <1>1. \A i \in 1 .. k : L!Plain(i) \in S
    OBVIOUS
  <1>2. \A i \in 1 .. k + 1 : L!Plain(i) \in S
    OBVIOUS
  <1>3. p \in Seq(S) /\ q \in Seq(S)
    <2> HIDE DEF S
    <2>1. p \in Seq(S)
      BY <1>1, IsASeq DEF PlainTo
    <2>2. k + 1 \in Nat
      OBVIOUS
    <2>3. q \in Seq(S)
      BY <1>2, <2>2, IsASeq DEF PlainTo
    <2>4. QED
      BY <2>1, <2>3
  <1>4. Len(p) = k /\ Len(q) = k + 1
    BY DEF PlainTo
  <1>5. L!Plain(k + 1) \in S
    BY <1>2
  <1>6. /\ \A i \in 1 .. k : p[i] = L!Plain(i)
        /\ \A i \in 1 .. k + 1 : q[i] = L!Plain(i)
    BY DEF PlainTo
  <1> HIDE DEF S, p, q
  <1>7. /\ r \in Seq(S) /\ Len(r) = k + 1
        /\ \A i \in 1 .. k : r[i] = p[i]
        /\ r[k + 1] = L!Plain(k + 1)
    BY <1>3, <1>4, <1>5, AppendProperties
  <1> HIDE DEF r
  <1>8. \A i \in 1 .. k + 1 : r[i] = q[i]
    <2>1. \A i \in 1 .. k + 1 : i \in 1 .. k \/ i = k + 1
      OBVIOUS
    <2>2. QED
      BY <1>6, <1>7, <2>1, Zenon
  <1>9. r = q
    BY <1>3, <1>4, <1>7, <1>8, SeqEqual
  <1>10. QED
    BY <1>9 DEF p, q, r

(* The next byte is encrypted under the plain ones before it. *)
LEMMA PartlyNext ==
  ASSUME NEW k \in Nat, k < CloudLen
  PROVE  /\ Partly(k)[k + 1] = L!Plain(k + 1)
         /\ [Partly(k) EXCEPT ![k + 1] = <<@[1], PlainTo(k)>>] = Partly(k + 1)
  <1>1. CloudLen \in Nat \ {0}
    BY LoginsSizes DEF L!LoginsAssumption
  <1>2. /\ k + 1 \in 1 .. CloudLen /\ ~(k + 1 <= k) /\ k + 1 <= k + 1 /\ (k + 1) - 1 = k
        /\ \A i \in 1 .. CloudLen : i # k + 1 => (i <= k <=> i <= k + 1)
    BY <1>1
  <1>3. Partly(k)[k + 1] = L!Plain(k + 1)
    BY <1>2 DEF Partly
  <1>4. Partly(k)[k + 1][1] = k + 1
    BY <1>3 DEF L!Plain
  <1>5. [Partly(k) EXCEPT ![k + 1] = <<@[1], PlainTo(k)>>]
          = [i \in 1 .. CloudLen |-> IF i = k + 1 THEN <<k + 1, PlainTo(k)>> ELSE Partly(k)[i]]
    BY <1>4, Zenon DEF Partly
  <1>6. \A i \in 1 .. CloudLen :
          (IF i = k + 1 THEN <<k + 1, PlainTo(k)>> ELSE Partly(k)[i])
            = (IF i <= k + 1 THEN <<i, PlainTo(i - 1)>> ELSE L!Plain(i))
    <2> TAKE i \in 1 .. CloudLen
    <2>1. Partly(k)[i] = IF i <= k THEN <<i, PlainTo(i - 1)>> ELSE L!Plain(i)
      BY DEF Partly
    <2>2. QED
      BY <1>2, <2>1
  <1>7. QED
    BY <1>3, <1>5, <1>6, Zenon DEF Partly

LEMMA CipherFill ==
  ASSUME LoginInv, NEW t \in Threads, L!CloudFill(t), NEW u \in Threads
  PROVE  Enciphers(u)' /\ overlap' \in [Threads -> BOOLEAN] /\ n' \in [Threads -> Nat]
  <1>1. PICK o \in Threads : o = L!Other(t)
    BY TwoThreads
  <1>2. o # t /\ (\A v \in Threads : v = t \/ v = o)
    BY <1>1, TwoThreads
  <1>3. /\ at' = [at EXCEPT ![t] = "key"] /\ n' = [n EXCEPT ![t] = 0]
        /\ cloud_data' = [i \in 1 .. CloudLen |-> L!Plain(i)]
        /\ overlap' = [v \in Threads |-> IF v = t THEN L!Registering(o)
                                         ELSE overlap[v] \/ L!Registering(v)]
    BY <1>1 DEF L!CloudFill, L!Goto, Threads
  <1>4. /\ at'[t] = "key" /\ at'[o] = at[o] /\ n'[t] = 0
        /\ overlap'[t] = L!Registering(o)
        /\ overlap'[o] = (overlap[o] \/ L!Registering(o))
    BY <1>2, <1>3 DEF LoginInv, LoginTypes
  <1>5. L!Registering(o)' = L!Registering(o)
    BY <1>4 DEF L!Registering
  <1>6. ASSUME u = o PROVE Enciphers(u)'
    BY <1>4, <1>5, <1>6 DEF Enciphers
  <1>7. ASSUME u = t PROVE Enciphers(u)'
    <2>1. cloud_data' = Partly(0)
      <3>1. CloudLen \in Nat \ {0}
        BY LoginsSizes DEF L!LoginsAssumption
      <3>2. \A i \in 1 .. CloudLen : ~(i <= 0)
        BY <3>1
      <3>3. QED
        BY <1>3, <3>2 DEF Partly
    <2>2. overlap'[t] \/ \A v \in Threads \ {t} : ~L!Registering(v)'
      BY <1>2, <1>4, <1>5
    <2>3. Partly(n[t])' = Partly(n'[t])
      BY DEF Partly, PlainTo, L!Plain
    <2>4. QED
      BY <1>4, <1>7, <2>1, <2>2, <2>3 DEF Enciphers
  <1>8. overlap' \in [Threads -> BOOLEAN] /\ n' \in [Threads -> Nat]
    <2>1. \A v : L!Registering(v) \in BOOLEAN
      BY DEF L!Registering
    <2>2. QED
      BY <1>3, <2>1 DEF LoginInv, LoginTypes
  <1>9. QED
    BY <1>2, <1>6, <1>7, <1>8

(* The two steps on the cipher itself: of a thread that shares it, nothing *)
(* is said; of one that has it for itself, the other is not affected.      *)
LEMMA CipherSteps ==
  ASSUME LoginInv, NEW t \in Threads, L!DecryptInit(t) \/ L!EncryptByte(t), NEW u \in Threads
  PROVE  Enciphers(u)' /\ n' \in [Threads -> Nat]
  <1>1. /\ L!Registering(t) /\ overlap' = overlap
        /\ at' = [at EXCEPT ![t] = "encrypt"] \/ at' = [at EXCEPT ![t] = "send"]
        /\ n' = n \/ n' = [n EXCEPT ![t] = n[t] + 1]
    <2>1. CASE L!DecryptInit(t)
      BY <2>1 DEF L!DecryptInit, L!Goto, L!Registering
    <2>2. CASE L!EncryptByte(t)
      <3>1. \E p \in {"send", "encrypt"} : at' = [at EXCEPT ![t] = p]
        BY <2>2 DEF L!EncryptByte, L!Goto
      <3>2. QED
        BY <2>2, <3>1 DEF L!EncryptByte, L!Registering
    <2>3. QED
      BY <2>1, <2>2
  <1>2. n[t] \in Nat
    BY DEF LoginInv, LoginTypes
  <1>3. /\ n' \in [Threads -> Nat] /\ at'[t] \in {"encrypt", "send"}
        /\ \A v \in Threads \ {t} : at'[v] = at[v]
    BY <1>1, <1>2 DEF LoginInv, LoginTypes
  <1>4. \A v \in Threads \ {t} : L!Registering(v)' = L!Registering(v)
    BY <1>3 DEF L!Registering
  <1>5. ASSUME u # t PROVE Enciphers(u)'
    <2>1. L!Registering(u) => overlap[u]
      BY <1>1, <1>5 DEF LoginInv, Enciphers
    <2>2. QED
      BY <1>1, <1>4, <1>5, <2>1 DEF Enciphers
  <1>6. ASSUME u = t PROVE Enciphers(u)'
    <2>1. CASE overlap[t]
      BY <1>1, <1>6, <2>1 DEF Enciphers
    <2>2. CASE ~overlap[t]
      <3>1. /\ \A v \in Threads \ {t} : ~L!Registering(v)
            /\ cloud_data = Partly(n[t])
            /\ at[t] = "key" => n[t] = 0
            /\ at[t] = "encrypt" => n[t] < CloudLen
            /\ at[t] # "key" => absorbed = PlainTo(n[t])
        BY <1>1, <2>2, Zenon DEF LoginInv, Enciphers
      <3>2. CloudLen \in Nat \ {0}
        BY LoginsSizes DEF L!LoginsAssumption
      <3>3. /\ cloud_data' = Partly(n'[t]) /\ absorbed' = PlainTo(n'[t])
            /\ at'[t] = "encrypt" => n'[t] < CloudLen
            /\ at'[t] = "send" => n'[t] = CloudLen
        <4>1. CASE L!DecryptInit(t)
          <5>1. /\ at[t] = "key" /\ at'[t] = "encrypt" /\ absorbed' = <<>>
                /\ cloud_data' = cloud_data /\ n' = n
            BY <4>1 DEF L!DecryptInit, L!Goto, LoginInv, LoginTypes
          <5>2. 1 .. 0 = {}
            OBVIOUS
          <5>3. PlainTo(0) = <<>>
            BY <5>2 DEF PlainTo
          <5>4. n'[t] = 0 /\ 0 < CloudLen
            BY <3>1, <3>2, <5>1
          <5>5. QED
            BY <3>1, <5>1, <5>3, <5>4
        <4>2. CASE L!EncryptByte(t)
          <5> DEFINE k == n[t]
          <5>1. n' = [n EXCEPT ![t] = k + 1] /\ at[t] = "encrypt"
            BY <4>2 DEF L!EncryptByte
          <5>2. n'[t] = k + 1 /\ k \in Nat /\ k < CloudLen
            BY <1>2, <3>1, <5>1 DEF LoginInv, LoginTypes
          <5>3. cloud_data = Partly(k) /\ absorbed = PlainTo(k)
            BY <3>1, <5>1
          <5> HIDE DEF k
          <5>4. /\ cloud_data' = [cloud_data EXCEPT ![k + 1] = <<@[1], absorbed>>]
                /\ absorbed' = Append(absorbed, cloud_data[k + 1])
                /\ at' = [at EXCEPT ![t] = IF k + 1 = CloudLen THEN "send" ELSE "encrypt"]
            BY <4>2, <5>2 DEF L!EncryptByte, L!Goto
          <5>5. cloud_data' = Partly(k + 1)
            BY <5>2, <5>3, <5>4, PartlyNext
          <5>6. absorbed' = PlainTo(k + 1)
            <6>1. cloud_data[k + 1] = L!Plain(k + 1)
              BY <5>2, <5>3, PartlyNext
            <6>2. QED
              BY <5>2, <5>3, <5>4, <6>1, PlainSeq
          <5>7. /\ at'[t] = "encrypt" => k + 1 < CloudLen
                /\ at'[t] = "send" => k + 1 = CloudLen
            <6>1. at'[t] = IF k + 1 = CloudLen THEN "send" ELSE "encrypt"
              BY <5>4 DEF LoginInv, LoginTypes
            <6>2. QED
              BY <3>2, <5>2, <6>1
          <5>8. QED
            BY <5>2, <5>5, <5>6, <5>7
        <4>3. QED
          BY <4>1, <4>2
      <3>4. PlainTo(n[t])' = PlainTo(n'[t]) /\ Partly(n[t])' = Partly(n'[t])
        BY DEF PlainTo, Partly, L!Plain
      <3>5. at'[t] # "key"
        BY <1>3
      <3>6. QED
        BY <1>4, <1>6, <3>1, <3>3, <3>4, <3>5 DEF Enciphers
    <2>3. QED
      BY <2>1, <2>2
  <1>7. QED
    BY <1>3, <1>5, <1>6

(* What comes out of a cipher that the thread had for itself. *)
LEMMA WholeLogin ==
  ASSUME LoginInv, NEW t \in Threads, at[t] = "send", ~overlap[t]
  PROVE  L!Encrypted(cloud_data)
  <1>1. cloud_data = Partly(CloudLen)
    BY DEF LoginInv, Enciphers, L!Registering
  <1>2. CloudLen \in Nat \ {0}
    BY LoginsSizes DEF L!LoginsAssumption
  <1>3. \A i \in 1 .. CloudLen : Partly(CloudLen)[i] = <<i, PlainTo(i - 1)>>
    BY <1>2 DEF Partly
  <1>4. QED
    BY <1>1, <1>3 DEF L!Encrypted, PlainTo

LEMMA ProperKept ==
  ASSUME NEW u \in Threads, Proper(u), config' = config, at'[u] = at[u], opened'[u] = opened[u],
         udp_src_ip'[u] = udp_src_ip[u], spoke'[u] = spoke[u], last'[u] = last[u],
         overlap[u] => overlap'[u]
  PROVE  Proper(u)'
  <1>1. L!Mode(u)' = L!Mode(u) /\ L!loginen' = L!loginen /\ L!Udp(u)' = L!Udp(u)
    BY SameConfig
  <1>2. /\ L!Client(u)' = L!Client(u) /\ L!Leads(u)' = L!Leads(u)
        /\ L!Opens(u)' = L!Opens(u) /\ L!Cloud(u)' = L!Cloud(u)
    BY SameConfig
  <1>3. /\ at'[u] \in {"fill", "key", "encrypt", "send"} => L!Cloud(u)
        /\ at'[u] = "up" => (L!Opens(u) \/ L!Cloud(u) => opened'[u])
        /\ udp_src_ip'[u] = "stranger" => spoke'[u] /\ L!Udp(u)
        /\ last'[u].kind = "data" => last'[u].login = (IF L!Leads(u) THEN L!loginen ELSE "none")
        /\ at'[u] = "up" => last'[u].whole \/ overlap'[u]
        /\ last'[u].to = "stranger" =>
             spoke'[u] /\ (L!Client(u) => last'[u].kind = "heart" /\ L!Udp(u) /\ u = L!B)
    BY DEF Proper
  <1>4. QED
    BY <1>1, <1>2, <1>3 DEF Proper, L!B

(* A connection, or a socket, and its first packet. *)
LEMMA LoginConnect == ASSUME LoginInv, NEW t \in Threads, L!Connect(t) PROVE LoginInv'
  <1>1. /\ config' = config /\ at[t] = "down"
        /\ at' = [at EXCEPT ![t] = IF L!Cloud(t) THEN "fill" ELSE "up"]
        /\ udp_src_ip' = [udp_src_ip EXCEPT ![t] = "remote"]
        /\ since' = [since EXCEPT ![t] = 0]
        /\ skipped' = [skipped EXCEPT ![t] = FALSE]
        /\ overlap' = [overlap EXCEPT ![t] = FALSE]
        /\ opened' = [opened EXCEPT ![t] = L!Opens(t)]
        /\ last' = [last EXCEPT ![t] = IF L!Opens(t) THEN L!Packet("login", "remote", L!loginen)
                                       ELSE L!Nothing]
        /\ UNCHANGED <<n, cloud_data, absorbed, spoke, sec_cnt>>
    BY DEF L!Connect, L!Goto, L!Send
  <1>2. LoginTypes
    BY DEF LoginInv
  <1>3. L!Opens(t) \in BOOLEAN /\ L!Cloud(t) \in BOOLEAN
    BY DEF L!Opens, L!Cloud, L!Client, L!When
  <1>4. /\ at' \in [Threads -> {"off", "down", "fill", "key", "encrypt", "send", "up"}]
        /\ at'[t] = (IF L!Cloud(t) THEN "fill" ELSE "up")
        /\ \A u \in Threads \ {t} : at'[u] = at[u]
    BY <1>1, <1>2 DEF LoginTypes
  <1>5. /\ opened' \in [Threads -> BOOLEAN] /\ opened'[t] = L!Opens(t)
        /\ overlap' \in [Threads -> BOOLEAN] /\ overlap'[t] = FALSE
        /\ skipped' \in [Threads -> BOOLEAN] /\ skipped'[t] = FALSE
        /\ \A u \in Threads \ {t} : /\ opened'[u] = opened[u] /\ overlap'[u] = overlap[u]
                                    /\ skipped'[u] = skipped[u]
    BY <1>1, <1>2, <1>3 DEF LoginTypes
  <1>6. /\ udp_src_ip' \in [Threads -> {"remote", "stranger"}] /\ udp_src_ip'[t] = "remote"
        /\ since' \in [Threads -> Nat] /\ since'[t] = 0 /\ DOMAIN last' = Threads
        /\ last'[t] = IF L!Opens(t) THEN L!Packet("login", "remote", L!loginen) ELSE L!Nothing
        /\ \A u \in Threads \ {t} : /\ udp_src_ip'[u] = udp_src_ip[u] /\ since'[u] = since[u]
                                    /\ last'[u] = last[u]
    BY <1>1, <1>2 DEF LoginTypes
  <1>7. LoginTypes'
    BY <1>1, <1>2, <1>4, <1>5, <1>6 DEF LoginTypes
  <1>8. ASSUME NEW u \in Threads PROVE Enciphers(u)'
    <2>1. \A v \in Threads : L!Registering(v)' => v # t
      BY <1>4 DEF L!Registering
    <2>2. QED
      BY <1>1, <1>4, <1>5, <2>1, CipherElsewhere
  <1>9. ASSUME NEW u \in Threads PROVE Beats(u)'
    <2>1. CASE u = t
      <3>1. sec_cnt[t] >= 0
        BY <1>2, LoginsSizes DEF LoginTypes, L!LoginsAssumption
      <3>2. QED
        BY <1>1, <1>6, <2>1, <3>1 DEF Beats
    <2>2. CASE u # t
      BY <1>1, <1>5, <1>6, <2>2, SameConfig DEF LoginInv, Beats
    <2>3. QED
      BY <2>1, <2>2
  <1>10. Proper(t)'
    <2>1. last'[t].kind # "data" /\ last'[t].to = "remote" /\ last'[t].whole
      BY <1>6 DEF L!Packet, L!Nothing
    <2>2. L!Cloud(t)' = L!Cloud(t) /\ L!Opens(t)' = L!Opens(t)
      BY <1>1, SameConfig
    <2>3. QED
      BY <1>3, <1>4, <1>5, <1>6, <2>1, <2>2 DEF Proper
  <1>11. ASSUME NEW u \in Threads \ {t} PROVE Proper(u)'
    BY <1>1, <1>4, <1>5, <1>6, <1>11, ProperKept DEF LoginInv
  <1>12. QED
    BY <1>7, <1>8, <1>9, <1>10, <1>11 DEF LoginInv

LEMMA LoginLose == ASSUME LoginInv, NEW t \in Threads, L!Lose(t) PROVE LoginInv'
  <1>1. /\ config' = config /\ at' = [at EXCEPT ![t] = "down"]
        /\ UNCHANGED <<n, cloud_data, absorbed, overlap, udp_src_ip, spoke, sec_cnt, since,
                       skipped, opened, last>>
    BY DEF L!Lose, L!Goto, L!cloudVars, L!peerVars, L!heartVars
  <1>2. /\ at' \in [Threads -> {"off", "down", "fill", "key", "encrypt", "send", "up"}]
        /\ at'[t] = "down" /\ \A u \in Threads \ {t} : at'[u] = at[u]
    BY <1>1 DEF LoginInv, LoginTypes
  <1>3. LoginTypes'
    BY <1>1, <1>2 DEF LoginInv, LoginTypes
  <1>4. ASSUME NEW u \in Threads PROVE Beats(u)'
    BY <1>1, BeatsKept
  <1>5. ASSUME NEW u \in Threads PROVE Enciphers(u)'
    <2>1. \A v \in Threads : L!Registering(v)' => v # t
      BY <1>2 DEF L!Registering
    <2>2. QED
      BY <1>1, <1>2, <2>1, CipherElsewhere
  <1>6. Proper(t)'
    <2>1. Proper(t)
      BY DEF LoginInv
    <2>2. /\ L!Udp(t)' = L!Udp(t) /\ L!Client(t)' = L!Client(t) /\ L!Leads(t)' = L!Leads(t)
          /\ L!loginen' = L!loginen
      BY <1>1, SameConfig
    <2>3. QED
      BY <1>1, <1>2, <2>1, <2>2 DEF Proper, L!B
  <1>7. ASSUME NEW u \in Threads \ {t} PROVE Proper(u)'
    BY <1>1, <1>2, <1>7, ProperKept DEF LoginInv
  <1>8. QED
    BY <1>3, <1>4, <1>5, <1>6, <1>7 DEF LoginInv

LEMMA LoginCloud == ASSUME LoginInv, NEW t \in Threads, L!CloudLogin(t) PROVE LoginInv'
  <1> DEFINE States == {"off", "down", "fill", "key", "encrypt", "send", "up"}
  <1>0. LoginTypes /\ Proper(t)
    BY DEF LoginInv
  <1>1. CASE ~L!CloudSend(t)
    <2>1. /\ UNCHANGED <<config, udp_src_ip, spoke, sec_cnt, since, skipped, opened, last>>
          /\ at[t] \in {"fill", "key", "encrypt"}
          /\ \E p \in {"key", "encrypt", "send"} : at' = [at EXCEPT ![t] = p]
      <3>1. CASE L!CloudFill(t)
        BY <3>1 DEF L!CloudFill, L!Goto, L!peerVars, L!heartVars
      <3>2. CASE L!DecryptInit(t)
        BY <3>2 DEF L!DecryptInit, L!Goto, L!peerVars, L!heartVars
      <3>3. CASE L!EncryptByte(t)
        BY <3>3 DEF L!EncryptByte, L!Goto, L!peerVars, L!heartVars
      <3>4. QED
        BY <1>1, <3>1, <3>2, <3>3 DEF L!CloudLogin
    <2>2. /\ at' \in [Threads -> States]
          /\ at'[t] \in {"key", "encrypt", "send"} /\ \A u \in Threads \ {t} : at'[u] = at[u]
      BY <1>0, <2>1 DEF LoginTypes
    <2>3. /\ \A u \in Threads : Enciphers(u)'
          /\ overlap' \in [Threads -> BOOLEAN] /\ n' \in [Threads -> Nat]
      <3>1. CASE L!CloudFill(t)
        BY <3>1, CipherFill, TwoThreads
      <3>2. CASE L!DecryptInit(t) \/ L!EncryptByte(t)
        <4>1. overlap' = overlap
          BY <3>2 DEF L!DecryptInit, L!EncryptByte
        <4>2. QED
          BY <1>0, <3>2, <4>1, CipherSteps, TwoThreads DEF LoginTypes
      <3>3. QED
        BY <1>1, <3>1, <3>2 DEF L!CloudLogin
    <2>4. \A u \in Threads \ {t} : overlap[u] => overlap'[u]
      BY DEF L!CloudLogin, L!CloudFill, L!DecryptInit, L!EncryptByte, L!CloudSend, L!cloudVars,
             Threads
    <2>5. LoginTypes'
      BY <1>0, <2>1, <2>2, <2>3 DEF LoginTypes
    <2>6. Proper(t)'
      <3>1. /\ L!Udp(t)' = L!Udp(t) /\ L!Client(t)' = L!Client(t) /\ L!Leads(t)' = L!Leads(t)
            /\ L!loginen' = L!loginen /\ L!Cloud(t)' = L!Cloud(t)
        BY <2>1, SameConfig
      <3>2. QED
        BY <1>0, <2>1, <2>2, <3>1 DEF Proper, L!B
    <2>7. ASSUME NEW u \in Threads \ {t} PROVE Proper(u)'
      BY <2>1, <2>2, <2>4, <2>7, ProperKept DEF LoginInv
    <2>8. \A u \in Threads : Beats(u)'
      BY <2>1, BeatsKept
    <2>9. QED
      BY <2>3, <2>5, <2>6, <2>7, <2>8 DEF LoginInv
  <1>2. CASE L!CloudSend(t)
    <2>1. /\ UNCHANGED <<config, n, cloud_data, absorbed, overlap, udp_src_ip, spoke, sec_cnt, since, skipped>>
          /\ at[t] = "send" /\ at' = [at EXCEPT ![t] = "up"]
          /\ opened' = [opened EXCEPT ![t] = TRUE]
      BY <1>2 DEF L!CloudSend, L!Goto, L!cloudVars, L!peerVars, L!heartVars
    <2>2. /\ at' \in [Threads -> States]
          /\ at'[t] = "up" /\ \A u \in Threads \ {t} : at'[u] = at[u]
          /\ opened' \in [Threads -> BOOLEAN] /\ opened'[t]
          /\ \A u \in Threads \ {t} : opened'[u] = opened[u]
      BY <1>0, <2>1 DEF LoginTypes
    <2>3. PICK whole \in BOOLEAN : /\ whole <=> L!Encrypted(cloud_data)
                                   /\ last' = [last EXCEPT ![t] = [L!Packet("login", "remote", "cloud")
                                                                     EXCEPT !.whole = whole]]
      BY <1>2 DEF L!CloudSend, L!Send, L!Encrypted
    <2>4. /\ DOMAIN last' = Threads /\ \A u \in Threads \ {t} : last'[u] = last[u]
          /\ last'[t] = [L!Packet("login", "remote", "cloud") EXCEPT !.whole = whole]
      BY <1>0, <2>3 DEF LoginTypes
    <2>5. last'[t].kind = "login" /\ last'[t].to = "remote" /\ last'[t].whole = whole
      BY <2>4 DEF L!Packet
    <2>6. whole \/ overlap[t]
      BY <2>1, <2>3, WholeLogin
    <2>7. LoginTypes'
      BY <1>0, <2>1, <2>2, <2>4 DEF LoginTypes
    <2>8. Proper(t)'
      <3>1. udp_src_ip[t] = "stranger" => spoke[t] /\ L!Udp(t)
        BY <1>0 DEF Proper
      <3>2. L!Udp(t)' = L!Udp(t)
        BY <2>1, SameConfig
      <3>3. QED
        BY <2>1, <2>2, <2>5, <2>6, <3>1, <3>2 DEF Proper
    <2>9. ASSUME NEW u \in Threads \ {t} PROVE Proper(u)'
      BY <2>1, <2>2, <2>4, <2>9, ProperKept DEF LoginInv
    <2>10. \A u \in Threads : Beats(u)'
      BY <2>1, BeatsKept
    <2>11. ASSUME NEW u \in Threads PROVE Enciphers(u)'
      <3>1. \A v \in Threads : L!Registering(v)' => v # t
        BY <2>2 DEF L!Registering
      <3>2. QED
        BY <2>1, <2>2, <3>1, CipherElsewhere
    <2>12. QED
      BY <2>7, <2>8, <2>9, <2>10, <2>11 DEF LoginInv
  <1>3. QED
    BY <1>1, <1>2

(* Steps of a connection in use leave the cipher alone. *)
LEMMA LoginData == ASSUME LoginInv, NEW t \in Threads, L!SendData(t) PROVE LoginInv'
  <1>1. /\ UNCHANGED <<config, at, n, cloud_data, absorbed, overlap, udp_src_ip, spoke, sec_cnt,
                       since, skipped, opened>>
        /\ last' = [last EXCEPT ![t] =
                      IF L!Client(t)
                      THEN L!Packet("data", "remote", IF L!Leads(t) THEN L!loginen ELSE "none")
                      ELSE L!Packet("data", udp_src_ip[t], "none")]
    BY DEF L!SendData, L!Send, L!cloudVars, L!peerVars, L!heartVars
  <1>2. LoginTypes /\ Proper(t)
    BY DEF LoginInv
  <1>3. /\ DOMAIN last' = Threads /\ \A u \in Threads \ {t} : last'[u] = last[u]
        /\ last'[t] = IF L!Client(t)
                      THEN L!Packet("data", "remote", IF L!Leads(t) THEN L!loginen ELSE "none")
                      ELSE L!Packet("data", udp_src_ip[t], "none")
    BY <1>1, <1>2 DEF LoginTypes
  <1>4. /\ last'[t].kind = "data" /\ last'[t].whole
        /\ last'[t].login = (IF L!Leads(t) THEN L!loginen ELSE "none")
        /\ last'[t].to = "stranger" => ~L!Client(t) /\ udp_src_ip[t] = "stranger"
    BY <1>3 DEF L!Packet, L!Leads
  <1>5. LoginTypes'
    BY <1>1, <1>2, <1>3 DEF LoginTypes
  <1>6. Proper(t)'
    <2>1. /\ L!Client(t)' = L!Client(t) /\ L!Leads(t)' = L!Leads(t) /\ L!loginen' = L!loginen
          /\ L!Cloud(t)' = L!Cloud(t) /\ L!Opens(t)' = L!Opens(t) /\ L!Udp(t)' = L!Udp(t)
      BY <1>1, SameConfig
    <2>2. QED
      BY <1>1, <1>2, <1>4, <2>1 DEF Proper, L!B
  <1>7. ASSUME NEW u \in Threads \ {t} PROVE Proper(u)'
    BY <1>1, <1>3, <1>7, ProperKept DEF LoginInv
  <1>8. ASSUME NEW u \in Threads PROVE Beats(u)' /\ Enciphers(u)'
    BY <1>1, BeatsKept, CipherElsewhere
  <1>9. QED
    BY <1>5, <1>6, <1>7, <1>8 DEF LoginInv

LEMMA LoginRecv == ASSUME LoginInv, NEW t \in Threads, L!Recv(t) PROVE LoginInv'
  <1>1. /\ UNCHANGED <<config, at, n, cloud_data, absorbed, overlap, opened, last>>
    BY DEF L!Recv, L!cloudVars
  <1>2. PICK from \in {"remote", "stranger"}, empty \in BOOLEAN :
          /\ from = "stranger" => L!Udp(t)
          /\ udp_src_ip' = [udp_src_ip EXCEPT ![t] = from]
          /\ spoke' = [spoke EXCEPT ![t] = @ \/ from = "stranger"]
          /\ IF t = L!A /\ ~empty
             THEN /\ sec_cnt' = [sec_cnt EXCEPT ![t] = 0]
                  /\ since' = [since EXCEPT ![t] = 0]
                  /\ skipped' = [skipped EXCEPT ![t] = FALSE]
             ELSE UNCHANGED <<sec_cnt, since, skipped>>
    BY DEF L!Recv, L!heartVars
  <1>3. LoginTypes /\ Proper(t) /\ 0 \in 0 .. HeartTime - 1
    BY LoginsSizes DEF LoginInv, L!LoginsAssumption
  <1>4. /\ udp_src_ip' \in [Threads -> {"remote", "stranger"}] /\ udp_src_ip'[t] = from
        /\ spoke' \in [Threads -> BOOLEAN] /\ spoke'[t] = (spoke[t] \/ from = "stranger")
        /\ \A u \in Threads \ {t} : udp_src_ip'[u] = udp_src_ip[u] /\ spoke'[u] = spoke[u]
    BY <1>2, <1>3 DEF LoginTypes
  <1>5. /\ sec_cnt' \in [Threads -> 0 .. HeartTime - 1] /\ since' \in [Threads -> Nat]
        /\ skipped' \in [Threads -> BOOLEAN]
        /\ \A u \in Threads : \/ /\ sec_cnt'[u] = sec_cnt[u] /\ since'[u] = since[u]
                                 /\ skipped'[u] = skipped[u]
                              \/ sec_cnt'[u] = 0 /\ since'[u] = 0
    <2>1. CASE t = L!A /\ ~empty
      <3>1. /\ sec_cnt' = [sec_cnt EXCEPT ![t] = 0] /\ since' = [since EXCEPT ![t] = 0]
            /\ skipped' = [skipped EXCEPT ![t] = FALSE]
        BY <1>2, <2>1
      <3>2. /\ sec_cnt' \in [Threads -> 0 .. HeartTime - 1] /\ since' \in [Threads -> Nat]
            /\ skipped' \in [Threads -> BOOLEAN]
        BY <1>3, <3>1 DEF LoginTypes
      <3>3. /\ sec_cnt'[t] = 0 /\ since'[t] = 0
            /\ \A u \in Threads \ {t} : /\ sec_cnt'[u] = sec_cnt[u] /\ since'[u] = since[u]
                                        /\ skipped'[u] = skipped[u]
        BY <1>3, <3>1 DEF LoginTypes
      <3>4. QED
        BY <3>2, <3>3
    <2>2. CASE ~(t = L!A /\ ~empty)
      BY <1>2, <1>3, <2>2 DEF LoginTypes
    <2>3. QED
      BY <2>1, <2>2
  <1>6. LoginTypes'
    BY <1>1, <1>3, <1>4, <1>5 DEF LoginTypes
  <1>7. ASSUME NEW u \in Threads PROVE Beats(u)'
    <2>1. L!Client(u)' = L!Client(u) /\ Beats(u)
      BY <1>1, SameConfig DEF LoginInv
    <2>2. QED
      BY <1>5, <2>1 DEF Beats
  <1>8. Proper(t)'
    <2>1. /\ L!Client(t)' = L!Client(t) /\ L!Leads(t)' = L!Leads(t) /\ L!loginen' = L!loginen
          /\ L!Cloud(t)' = L!Cloud(t) /\ L!Opens(t)' = L!Opens(t) /\ L!Udp(t)' = L!Udp(t)
      BY <1>1, SameConfig
    <2>2. QED
      BY <1>1, <1>2, <1>3, <1>4, <2>1 DEF Proper, L!B
  <1>9. ASSUME NEW u \in Threads \ {t} PROVE Proper(u)'
    BY <1>1, <1>4, <1>9, ProperKept DEF LoginInv
  <1>10. ASSUME NEW u \in Threads PROVE Enciphers(u)'
    BY <1>1, CipherElsewhere
  <1>11. QED
    BY <1>6, <1>7, <1>8, <1>9, <1>10 DEF LoginInv

LEMMA LoginSecond == ASSUME LoginInv, NEW t \in Threads, L!Second(t) PROVE LoginInv'
  <1>1. /\ UNCHANGED <<config, at, n, cloud_data, absorbed, overlap, udp_src_ip, spoke, opened>>
        /\ \/ last' = last
           \/ last' = [last EXCEPT ![t] =
                         L!Packet("heart", IF t = L!B /\ L!Udp(t) THEN udp_src_ip[t] ELSE "remote",
                                  "none")]
    BY DEF L!Second, L!Send, L!cloudVars, L!peerVars
  <1>2. LoginTypes /\ Proper(t)
    BY DEF LoginInv
  <1>3. /\ DOMAIN last' = Threads /\ \A u \in Threads \ {t} : last'[u] = last[u]
        /\ \/ last'[t] = last[t]
           \/ last'[t] = L!Packet("heart",
                                  IF t = L!B /\ L!Udp(t) THEN udp_src_ip[t] ELSE "remote", "none")
    BY <1>1, <1>2 DEF LoginTypes
  <1>4. \/ last'[t] = last[t]
        \/ /\ last'[t].kind = "heart" /\ last'[t].whole
           /\ last'[t].to = "stranger" => t = L!B /\ L!Udp(t) /\ udp_src_ip[t] = "stranger"
    BY <1>3 DEF L!Packet
  <1>5. LoginTypes' /\ \A u \in Threads : Beats(u)'
    <2>1. /\ \A u \in Threads : Beats(u)'
          /\ sec_cnt' \in [Threads -> 0 .. HeartTime - 1]
          /\ since' \in [Threads -> Nat] /\ skipped' \in [Threads -> BOOLEAN]
      BY BeatsSecond
    <2>2. QED
      BY <1>1, <1>2, <1>3, <2>1 DEF LoginTypes
  <1>6. Proper(t)'
    <2>1. /\ L!Client(t)' = L!Client(t) /\ L!Leads(t)' = L!Leads(t) /\ L!loginen' = L!loginen
          /\ L!Cloud(t)' = L!Cloud(t) /\ L!Opens(t)' = L!Opens(t) /\ L!Udp(t)' = L!Udp(t)
      BY <1>1, SameConfig
    <2>2. QED
      BY <1>1, <1>2, <1>4, <2>1 DEF Proper, L!B
  <1>7. ASSUME NEW u \in Threads \ {t} PROVE Proper(u)'
    BY <1>1, <1>3, <1>7, ProperKept DEF LoginInv
  <1>8. ASSUME NEW u \in Threads PROVE Enciphers(u)'
    BY <1>1, CipherElsewhere
  <1>9. QED
    BY <1>5, <1>6, <1>7, <1>8 DEF LoginInv

LEMMA StepLogins == LoginInv /\ [L!Next]_L!vars => LoginInv'
  <1> SUFFICES ASSUME LoginInv, [L!Next]_L!vars PROVE LoginInv'
    OBVIOUS
  <1>1. CASE L!AtMode \/ UNCHANGED L!vars
    <2>1. UNCHANGED <<config, at, n, cloud_data, absorbed, overlap, udp_src_ip, spoke, sec_cnt,
                      since, skipped, opened, last>>
      BY <1>1 DEF L!AtMode, L!vars, L!cloudVars, L!peerVars, L!heartVars
    <2>2. LoginTypes'
      BY <2>1 DEF LoginInv, LoginTypes
    <2>3. ASSUME NEW u \in Threads PROVE Beats(u)' /\ Enciphers(u)' /\ Proper(u)'
      BY <2>1, BeatsKept, CipherElsewhere, ProperKept DEF LoginInv
    <2>4. QED
      BY <2>2, <2>3 DEF LoginInv
  <1>2. QED
    BY <1>1, LoginConnect, LoginLose, LoginCloud, LoginData, LoginRecv, LoginSecond
       DEF L!Next, Threads

(* For any two work modes, kinds of login, heartbeat period and length of  *)
(* the cloud login, and however the two threads take turns in the one      *)
(* cipher: every packet is led by the login it is configured for, whole    *)
(* unless the other thread used the cipher meanwhile, and sent where it    *)
(* belongs; and heartbeats come in time (tcpc.c 112-241, udp.c 96-176,     *)
(* utils.c 464-472).                                                       *)
THEOREM PacketsAreOwn == L!Spec => []OwnPackets
  <1>1. LoginInv => OwnPackets
    <2> SUFFICES ASSUME LoginInv PROVE OwnPackets
      OBVIOUS
    <2>1. L!RightPackets
      <3>1. ASSUME NEW t \in Threads, at[t] = "up"
            PROVE  /\ L!Opens(t) \/ L!Cloud(t) => opened[t]
                   /\ last[t].kind = "data" => last[t].login = (IF L!Leads(t) THEN L!loginen ELSE "none")
                   /\ last[t].whole \/ overlap[t]
                   /\ last[t].to = "stranger" =>
                        spoke[t] /\ (L!Client(t) => last[t].kind = "heart" /\ L!Udp(t) /\ t = L!B)
        BY <3>1 DEF LoginInv, Proper
      <3>2. QED
        BY <3>1 DEF L!RightPackets, Threads
    <2>2. L!HeartInTime
      <3>1. ASSUME NEW t \in Threads, L!Client(t), ~skipped[t]
            PROVE  since[t] < HeartTime
        <4>1. /\ since[t] <= sec_cnt[t] /\ since[t] \in Nat
              /\ sec_cnt[t] \in 0 .. HeartTime - 1 /\ HeartTime \in Nat
          BY <3>1, LoginsSizes DEF LoginInv, LoginTypes, Beats, L!LoginsAssumption
        <4>2. QED
          BY <4>1
      <3>2. QED
        BY <3>1 DEF L!HeartInTime, Threads
    <2>3. QED
      BY <2>1, <2>2 DEF OwnPackets, L!OwnPackets
  <1>2. QED
    BY <1>1, InitLogins, StepLogins, PTL DEF L!Spec

(* What is checked side by side is either system, with the other one       *)
(* standing still: the results above hold of the run.                      *)
THEOREM SideBySide == MCSpec => Spec /\ L!Spec
  <1>1. MCInit => Init /\ L!Init
    BY DEF MCInit
  <1>2. [MCNext]_<<vars, loginVars>> => [Next]_vars
    BY DEF MCNext, ClientsNext, LoginsNext
  <1>3. [MCNext]_<<vars, loginVars>> => [L!Next]_L!vars
    BY DEF MCNext, ClientsNext, LoginsNext, loginVars, L!vars
  <1>4. QED
    BY <1>1, <1>2, <1>3, PTL DEF MCSpec, Spec, L!Spec

=============================================================================
