------------------------------ MODULE LogQueue ------------------------------
(***************************************************************************)
(* The log queue of log4z (depends/log4z/log4z.cpp): any thread pushes,    *)
(* one log thread pops, filters and writes; Start and Stop are called by   *)
(* one thread of the process.                                              *)
(*                                                                         *)
(* m_bRuning, _enable and _level are plain variables read without the      *)
(* lock: every read is a step of its own.  m_lock protects push_back and   *)
(* pop_front, which are one step each.  A message is its sender, a number, *)
(* a logger and a level; formatting, the day and the size limit that make  *)
(* a logger take a new file are a free choice.  The status counters are    *)
(* left out.                                                               *)
(***************************************************************************)
EXTENDS Integers, FiniteSets, Sequences, SequencesExt

CONSTANTS Writers,        \* threads that log
          LogThread,      \* the thread of Run, which logs too
          Main, Others,   \* names of loggers: LOG4Z_MAIN_LOGGER_NAME, others
          LoggerMax,      \* LOG4Z_LOGGER_MAX
          Levels, Alarm,  \* ENUM_LOG_LEVEL, the level of Run's own messages
          LogsPerWriter   \* bound: calls of LOG_STREAM of a writer

ASSUME LogQueueAssumption ==
    /\ LogThread \notin Writers /\ Main \notin Others
    /\ LoggerMax \in Nat \ {0}
    /\ Levels \subseteq Nat /\ 0 \in Levels /\ Alarm \in Levels
    /\ LogsPerWriter \in Nat

VARIABLES
    m_bRuning,
    m_semaphore,
    m_ids,       \* the id of each logger created
    m_loggers,   \* per id: _enable, _level, _handle and its FILE buffer
    m_logs,      \* the queue
    writer,      \* per writer: place in LOG_STREAM, message, calls made
    thread,      \* the log thread: place in Run, message, messages to push
    starter,     \* how far the caller of Start and Stop is
    disk,        \* per id: what the files of the logger hold
    unflushed,   \* history: loggers whose last fflush failed, nothing written since
    accepted,    \* history: messages for which PushLog returned true
    dropped,     \* history: messages filtered, or lost with a file
    inTime       \* history: accepted when Stop cleared m_bRuning

queueVars == <<m_logs, accepted>>
fileVars == <<m_loggers, disk, unflushed, dropped>>
vars == <<m_bRuning, m_semaphore, m_ids, fileVars, queueVars, writer, thread,
          starter, inTime>>

LoggerId == 0 .. LoggerMax - 1
Log == [by : Writers \cup {LogThread}, n : Nat, id : LoggerId, level : Levels]

Init ==
    /\ m_bRuning = FALSE /\ m_semaphore = 0
    /\ m_ids = [name \in {Main} |-> 0]
    /\ m_loggers = [id \in LoggerId |->
                      [enable |-> FALSE, level |-> 0, open |-> FALSE,
                       buffer |-> <<>>, needFlush |-> FALSE]]
    /\ m_logs = <<>>
    /\ writer = [w \in Writers |-> [at |-> "idle", log |-> <<>>, calls |-> 0]]
    /\ thread = [at |-> "none", log |-> <<>>, n |-> 0, todo |-> 0]
    /\ starter = "configuring"
    /\ disk = [id \in LoggerId |-> <<>>] /\ unflushed = {}
    /\ accepted = {} /\ dropped = {} /\ inTime = {}

-----------------------------------------------------------------------------
\* The caller of Start and Stop.

\* Config and CreateLogger are called before Start.
CreateLogger(name, level) ==
    LET id == IF name \in DOMAIN m_ids THEN m_ids[name]
              ELSE Cardinality(DOMAIN m_ids)   \* m_lastId + 1
    IN  /\ starter = "configuring"
        /\ id < LoggerMax
        /\ m_ids' = [n \in DOMAIN m_ids \cup {name} |->
                        IF n = name THEN id ELSE m_ids[n]]
        /\ m_loggers' = [m_loggers EXCEPT ![id].enable = TRUE,
                                          ![id].level = level]
        /\ UNCHANGED <<m_bRuning, m_semaphore, disk, unflushed, dropped,
                       queueVars, writer, thread, starter, inTime>>

\* Start creates the semaphore and the thread.
Start(created) ==
    /\ starter = "configuring" /\ ~m_bRuning
    /\ m_semaphore' = 0
    /\ IF created
       THEN /\ thread' = [thread EXCEPT !.at = "created"]
            /\ starter' = "starting"
       ELSE /\ starter' = "failed"
            /\ UNCHANGED thread
    /\ UNCHANGED <<m_bRuning, m_ids, fileVars, queueVars, writer, inTime>>

\* m_semaphore.Wait(3000): it is posted, or time is up.
StartReturns ==
    /\ starter = "starting"
    /\ \/ /\ m_semaphore > 0
          /\ m_semaphore' = m_semaphore - 1
          /\ starter' = "started"
       \/ /\ m_semaphore = 0
          /\ starter' = "failed"
          /\ UNCHANGED m_semaphore
    /\ UNCHANGED <<m_bRuning, m_ids, fileVars, queueVars, writer, thread,
                   inTime>>

\* Faulty variant: the thread is awaited before it is told to stop.
StopWaitsFirst ==
    /\ starter \in {"configuring", "started", "failed"}
    /\ starter' = IF m_bRuning THEN "joining" ELSE "refused"
    /\ inTime' = IF m_bRuning THEN accepted ELSE inTime
    /\ UNCHANGED <<m_bRuning, m_semaphore, m_ids, fileVars, queueVars, writer,
                   thread>>

\* Stop, which the destructor calls too.
Stop ==
    /\ starter \in {"configuring", "started", "failed"}
    /\ IF m_bRuning
       THEN /\ m_bRuning' = FALSE
            /\ starter' = "joining"
            /\ inTime' = accepted
       ELSE /\ starter' = "refused"
            /\ UNCHANGED <<m_bRuning, inTime>>
    /\ UNCHANGED <<m_semaphore, m_ids, fileVars, queueVars, writer, thread>>

\* Wait() joins the thread.
StopReturns ==
    /\ starter = "joining" /\ thread.at = "gone"
    /\ starter' = "stopped"
    /\ UNCHANGED <<m_bRuning, m_semaphore, m_ids, fileVars, queueVars, writer,
                   thread, inTime>>

-----------------------------------------------------------------------------
\* Any thread.

\* The filter of PrePushLog and PushLog.
Passes(id, level) ==
    /\ id \in LoggerId
    /\ m_bRuning /\ m_loggers[id].enable
    /\ level >= m_loggers[id].level

\* The locked part of PushLog; the call returns true.
Enqueue(log) ==
    /\ m_logs' = Append(m_logs, log)
    /\ accepted' = accepted \cup {log}

\* A call that is over, with either result.
Over(w) == writer' = [writer EXCEPT ![w].at = "idle", ![w].log = <<>>,
                                    ![w].calls = @ + 1]

\* LOG_STREAM asks PrePushLog before it formats the message.
PrePushLog(w, id, level) ==
    /\ writer[w].at = "idle" /\ writer[w].calls < LogsPerWriter
    /\ IF Passes(id, level)
       THEN writer' = [writer EXCEPT
              ![w].at = "formatted",
              ![w].log = [by |-> w, n |-> writer[w].calls,
                          id |-> id, level |-> level]]
       ELSE Over(w)
    /\ UNCHANGED <<m_bRuning, m_semaphore, m_ids, fileVars, queueVars, thread,
                   starter, inTime>>

\* PushLog looks at the filter again, without the lock.
PushLog(w) ==
    /\ writer[w].at = "formatted"
    /\ IF Passes(writer[w].log.id, writer[w].log.level)
       THEN writer' = [writer EXCEPT ![w].at = "checked"]
       ELSE Over(w)
    /\ UNCHANGED <<m_bRuning, m_semaphore, m_ids, fileVars, queueVars, thread,
                   starter, inTime>>

PushLogLocked(w) ==
    /\ writer[w].at = "checked"
    /\ Enqueue(writer[w].log)
    /\ Over(w)
    /\ UNCHANGED <<m_bRuning, m_semaphore, m_ids, fileVars, thread, starter,
                   inTime>>

\* SetLoggerLevel, also as UpdateConfig calls it.
SetLoggerLevel(id, level) ==
    /\ level # m_loggers[id].level
    /\ m_loggers' = [m_loggers EXCEPT ![id].level = level]
    /\ UNCHANGED <<m_bRuning, m_semaphore, m_ids, disk, unflushed, dropped,
                   queueVars, writer, thread, starter, inTime>>

-----------------------------------------------------------------------------
\* The log thread.

\* Run tells of itself and of every logger that is enabled.
RunBegins ==
    /\ thread.at = "created"
    /\ m_bRuning' = TRUE
    /\ m_loggers' = [m_loggers EXCEPT ![0].enable = TRUE]
    /\ LET enabled == {id \in LoggerId : id = 0 \/ m_loggers[id].enable}
       IN  thread' = [thread EXCEPT !.at = "telling",
                                    !.todo = 1 + Cardinality(enabled)]
    /\ UNCHANGED <<m_semaphore, m_ids, disk, unflushed, dropped, queueVars,
                   writer, starter, inTime>>

\* PushLog of the log thread.
RunTells ==
    /\ \/ /\ thread.at = "telling" /\ thread.todo > 0
          /\ IF Passes(0, Alarm)
             THEN thread' = [thread EXCEPT !.at = "checked"]
             ELSE thread' = [thread EXCEPT !.todo = @ - 1]
          /\ UNCHANGED queueVars
       \/ /\ thread.at = "checked"
          /\ Enqueue([by |-> LogThread, n |-> thread.n, id |-> 0,
                      level |-> Alarm])
          /\ thread' = [thread EXCEPT !.at = "telling", !.todo = @ - 1,
                                      !.n = @ + 1]
    /\ UNCHANGED <<m_bRuning, m_semaphore, m_ids, fileVars, writer, starter,
                   inTime>>

\* Start may return.
RunPosts ==
    /\ thread.at = "telling" /\ thread.todo = 0
    /\ m_semaphore' = m_semaphore + 1
    /\ thread' = [thread EXCEPT !.at = "loop"]
    /\ UNCHANGED <<m_bRuning, m_ids, fileVars, queueVars, writer, starter,
                   inTime>>

\* Faulty variant: the newest message is removed instead of the one read.
PopLogPopsBack ==
    /\ thread.at = "loop"
    /\ IF m_logs = <<>>
       THEN /\ thread' = [thread EXCEPT !.at = "flush"]
            /\ UNCHANGED m_logs
       ELSE /\ thread' = [thread EXCEPT !.at = "popped", !.log = Head(m_logs)]
            /\ m_logs' = Front(m_logs)
    /\ UNCHANGED <<m_bRuning, m_semaphore, m_ids, fileVars, accepted, writer,
                   starter, inTime>>

PopLog ==
    /\ thread.at = "loop"
    /\ IF m_logs = <<>>
       THEN /\ thread' = [thread EXCEPT !.at = "flush"]
            /\ UNCHANGED m_logs
       ELSE /\ thread' = [thread EXCEPT !.at = "popped", !.log = Head(m_logs)]
            /\ m_logs' = Tail(m_logs)
    /\ UNCHANGED <<m_bRuning, m_semaphore, m_ids, fileVars, accepted, writer,
                   starter, inTime>>

Handled ==
    /\ thread' = [thread EXCEPT !.at = "loop", !.log = <<>>]
    /\ UNCHANGED <<m_bRuning, m_semaphore, m_ids, queueVars, writer, starter,
                   inTime>>

\* A message of a logger disabled since, or of a level filtered since.
Filtered(logger) == ~logger.enable \/ thread.log.level < logger.level

DiscardLog ==
    /\ thread.at = "popped" /\ Filtered(m_loggers[thread.log.id])
    /\ dropped' = dropped \cup {thread.log}
    /\ Handled
    /\ UNCHANGED <<m_loggers, disk, unflushed>>

\* Where the FILE buffer of a logger goes when fclose or fflush succeeds.
Flushed(id) == disk[id] \o m_loggers[id].buffer

\* The files of ids are closed, if they are open, and the messages of lost are
\* lost.  fclose writes what is buffered, of those in saved, or it fails and that
\* is lost too: nothing looks at its result.
CloseFiles(ids, saved, lost) ==
    /\ disk' = [id \in LoggerId |-> IF id \in saved THEN Flushed(id) ELSE disk[id]]
    /\ dropped' = dropped \cup lost
                   \cup UNION {ToSet(m_loggers[id].buffer) : id \in ids \ saved}
    /\ unflushed' = unflushed \ ids

\* Faulty variant: a failed open does not close the old file first.
OpenFailsLate ==
    LET id == thread.log.id
    IN  /\ thread.at = "popped" /\ ~Filtered(m_loggers[id])
        /\ m_loggers' = [m_loggers EXCEPT ![id].enable = FALSE]
        /\ dropped' = dropped \cup {thread.log}
        /\ Handled
        /\ UNCHANGED <<disk, unflushed>>

\* OpenLogger closes the file there is, cannot open the next one, and the
\* logger is disabled.
OpenFails ==
    LET id == thread.log.id
    IN  /\ thread.at = "popped" /\ ~Filtered(m_loggers[id])
        /\ m_loggers' = [m_loggers EXCEPT ![id].open = FALSE,
                                          ![id].buffer = <<>>,
                                          ![id].enable = FALSE]
        /\ \E saved \in SUBSET {id} : CloseFiles({id}, saved, {thread.log})
        /\ Handled

\* The message is written to the open file, or to a new one.
WriteLog(rolls) ==
    LET id == thread.log.id
        opens == rolls \/ ~m_loggers[id].open
    IN  /\ thread.at = "popped" /\ ~Filtered(m_loggers[id])
        /\ m_loggers' = [m_loggers EXCEPT
             ![id].open = TRUE, ![id].needFlush = TRUE,
             ![id].buffer = IF opens THEN <<thread.log>>
                            ELSE Append(@, thread.log)]
        /\ IF opens
           THEN \E saved \in SUBSET {id} : CloseFiles({id}, saved, {})
           ELSE /\ unflushed' = unflushed \ {id}
                /\ UNCHANGED <<disk, dropped>>
        /\ Handled

\* fwrite falls short: Write closes the file.
WriteFails ==
    LET id == thread.log.id
    IN  /\ thread.at = "popped" /\ ~Filtered(m_loggers[id])
        /\ m_loggers' = [m_loggers EXCEPT ![id].open = FALSE,
                                          ![id].buffer = <<>>,
                                          ![id].needFlush = TRUE]
        /\ \E saved \in SUBSET {id} : CloseFiles({id}, saved, {thread.log})
        /\ Handled

HandleLog == DiscardLog \/ OpenFails \/ WriteFails
             \/ \E rolls \in BOOLEAN : WriteLog(rolls)

\* Enabled loggers with something written are flushed; then the thread sleeps.
\* Nothing looks at the result of fflush: where it fails the messages stay in the
\* buffer and needFlush is cleared all the same.
FlushLoggers ==
    LET due == {id \in LoggerId : m_loggers[id].enable
                                  /\ m_loggers[id].needFlush}
    IN  /\ thread.at = "flush"
        /\ \E failed \in SUBSET {id \in due : m_loggers[id].buffer # <<>>} :
            /\ disk' = [id \in LoggerId |-> IF id \in due \ failed THEN Flushed(id)
                                            ELSE disk[id]]
            /\ m_loggers' = [id \in LoggerId |->
                 IF id \in due
                 THEN [m_loggers[id] EXCEPT
                         !.buffer = IF id \in failed THEN @ ELSE <<>>,
                         !.needFlush = FALSE]
                 ELSE m_loggers[id]]
            /\ unflushed' = (unflushed \ due) \cup failed
        /\ thread' = [thread EXCEPT !.at = "quit?"]
        /\ UNCHANGED <<m_bRuning, m_semaphore, m_ids, dropped, queueVars,
                       writer, starter, inTime>>

\* Faulty variant: the queue is looked at before m_bRuning.
QuitTestSwapped ==
    /\ \/ /\ thread.at = "quit?"
          /\ thread' = [thread EXCEPT !.at = IF m_logs = <<>> THEN "empty?"
                                             ELSE "loop"]
       \/ /\ thread.at = "empty?"
          /\ thread' = [thread EXCEPT !.at = IF m_bRuning THEN "loop"
                                             ELSE "close"]
    /\ UNCHANGED <<m_bRuning, m_semaphore, m_ids, fileVars, queueVars, writer,
                   starter, inTime>>

\* !m_bRuning && m_logs.empty(), two reads without the lock.
QuitTest ==
    /\ \/ /\ thread.at = "quit?"
          /\ thread' = [thread EXCEPT !.at = IF m_bRuning THEN "loop"
                                             ELSE "empty?"]
       \/ /\ thread.at = "empty?"
          /\ thread' = [thread EXCEPT !.at = IF m_logs = <<>> THEN "close"
                                             ELSE "loop"]
    /\ UNCHANGED <<m_bRuning, m_semaphore, m_ids, fileVars, queueVars, writer,
                   starter, inTime>>

\* The loggers that are still enabled are disabled and their files closed.
CloseLoggers ==
    LET due == {id \in LoggerId : m_loggers[id].enable}
    IN  /\ thread.at = "close"
        /\ m_loggers' = [id \in LoggerId |->
             IF id \in due THEN [m_loggers[id] EXCEPT !.enable = FALSE,
                                   !.open = FALSE, !.buffer = <<>>]
             ELSE m_loggers[id]]
        /\ \E saved \in SUBSET due : CloseFiles(due, saved, {})
        /\ thread' = [thread EXCEPT !.at = "gone"]
        /\ UNCHANGED <<m_bRuning, m_semaphore, m_ids, queueVars, writer,
                       starter, inTime>>

-----------------------------------------------------------------------------
Caller ==
    \/ \E name \in {Main} \cup Others, level \in Levels :
            CreateLogger(name, level)
    \/ \E created \in BOOLEAN : Start(created)
    \/ StartReturns \/ Stop \/ StopReturns

Writer(w) ==
    \/ \E id \in LoggerId, level \in Levels : PrePushLog(w, id, level)
    \/ PushLog(w) \/ PushLogLocked(w)

Run ==
    \/ RunBegins \/ RunTells \/ RunPosts
    \/ PopLog \/ HandleLog \/ FlushLoggers \/ QuitTest \/ CloseLoggers

Next ==
    \/ Caller \/ Run
    \/ \E w \in Writers : Writer(w)
    \/ \E id \in LoggerId, level \in Levels : SetLoggerLevel(id, level)

Spec == Init /\ [][Next]_vars

\* Threads run; nothing obliges anyone to log or to call Stop.
FairSpec ==
    /\ Spec
    /\ WF_vars(Run) /\ WF_vars(StopReturns)
    /\ \A w \in Writers : WF_vars(PushLog(w) \/ PushLogLocked(w))

-----------------------------------------------------------------------------
Settled(log) == log \in dropped \/ log \in ToSet(disk[log.id])

\* What the files of a logger hold and will hold, in order; the message in hand
\* and the queue may be of any logger.
InHand == IF thread.at = "popped" THEN <<thread.log>> ELSE <<>>
Path(id) == Flushed(id) \o InHand \o m_logs

\* A message that PushLog has accepted is at exactly one place: in the queue,
\* with the log thread, in a file's buffer, in a file of its own logger, or
\* dropped; rolling over to a new file, failing to, and a flush or a close that
\* fails lose none unseen and write none twice.
OnePlaceEach ==
    /\ accepted = dropped \cup UNION {ToSet(Path(id)) : id \in LoggerId}
    /\ \A id \in LoggerId :
        /\ IsInjective(Path(id))
        /\ ToSet(Path(id)) \cap dropped = {}
        /\ \A log \in ToSet(Flushed(id)) : log.id = id

\* The messages of one thread reach the files of a logger in the order in which
\* it logged them.
OrderPerThread ==
    \A id \in LoggerId : \A i, j \in DOMAIN Path(id) :
        i < j /\ Path(id)[i].by = Path(id)[j].by => Path(id)[i].n < Path(id)[j].n

\* The two together: what is accepted gets to the files once and in order
\* (log4z.cpp:1247, 1366, 1413, 1433).
AcceptedInOrder == OnePlaceEach /\ OrderPerThread

\* While the log thread sleeps or is gone the only messages it has handled that
\* are still in memory are those of a logger whose fflush has just failed: until
\* more is written to that logger nothing flushes it again (log4z.cpp:1485).
NothingLeftBuffered ==
    thread.at \in {"quit?", "empty?", "gone"} =>
        \A id \in LoggerId :
            m_loggers[id].buffer # <<>> => id \in unflushed /\ thread.at # "gone"

\* Stop has returned true: every message accepted before it cleared m_bRuning is
\* in its file, unless it was filtered or its file failed, and no file is open.
StopKeepsWhatCameInTime ==
    starter = "stopped" =>
        /\ \A log \in inTime : Settled(log)
        /\ \A id \in LoggerId : ~m_loggers[id].open

\* The two together: neither a sleep nor the end of the thread keeps a message
\* from the disk (log4z.cpp:1483, 1494, 1504), only a flush or a close that fails.
SettledAtRest == NothingLeftBuffered /\ StopKeepsWhatCameInTime

\* "logger will not loss any log on process normal exit" (log4z.h:97): when
\* the log thread is gone, every message accepted is in its file, filtered,
\* or went down with a file.
NoLogLost == thread.at = "gone" => \A log \in accepted : Settled(log)

\* Stop returns, whatever the writers do and whichever files fail.
StopAnswers == starter = "joining" ~> starter = "stopped"

\* A message that a failed flush has left in memory, with no flush to come.
Stuck(log) == log.id \in unflushed /\ log \in ToSet(m_loggers[log.id].buffer)

\* A message accepted while m_bRuning is set is written or dropped in the end,
\* also when Stop is called before that; or its flush fails.
WrittenInTheEnd ==
    \A w \in Writers, n \in 0 .. LogsPerWriter - 1 :
        (m_bRuning /\ \E log \in accepted : log.by = w /\ log.n = n)
            ~> (\E log \in accepted : log.by = w /\ log.n = n
                                      /\ (Settled(log) \/ Stuck(log)))
=============================================================================
