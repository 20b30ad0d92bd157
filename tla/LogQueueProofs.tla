--------------------------- MODULE LogQueueProofs ---------------------------
(***************************************************************************)
(* Proofs about LogQueue, for any writers, loggers, levels and numbers of  *)
(* messages.                                                               *)
(***************************************************************************)
EXTENDS LogQueue, FiniteSetTheorems, TLAPS

-----------------------------------------------------------------------------
(* The invariant *)

Loggers == [enable : BOOLEAN, level : Levels, open : BOOLEAN,
            buffer : Seq(Log), needFlush : BOOLEAN]
Message == Log \cup {<<>>}
Senders == [at : {"idle", "formatted", "checked"}, log : Message, calls : Nat]
Threads == [at : {"none", "created", "telling", "checked", "loop", "popped",
                  "flush", "quit?", "empty?", "close", "gone"},
            log : Message, n : Nat, todo : Int]
Starters == {"configuring", "starting", "started", "failed", "joining",
             "refused", "stopped"}

TypeInv ==
    /\ m_bRuning \in BOOLEAN
    /\ m_loggers \in [LoggerId -> Loggers]
    /\ m_logs \in Seq(Log)
    /\ writer \in [Writers -> Senders]
    /\ thread \in Threads
    /\ starter \in Starters
    /\ disk \in [LoggerId -> Seq(Log)]
    /\ accepted \subseteq Log /\ unflushed \subseteq LoggerId
    /\ thread.at = "popped" => thread.log \in Log
    /\ \A w \in Writers : writer[w].at # "idle" => writer[w].log \in Log

\* The next message of a thread has a number that none of its messages has.
Numbered ==
    /\ \A w \in Writers : writer[w].at # "idle" =>
         writer[w].log.by = w /\ writer[w].log.n = writer[w].calls
    /\ \A log \in accepted :
         log.n < IF log.by = LogThread THEN thread.n ELSE writer[log.by].calls

\* Where Start and Stop are and where the thread is.
Phases ==
    /\ starter = "configuring" => thread.at = "none"
    /\ m_bRuning => thread.at \notin {"none", "created"}
    /\ thread.at \in {"empty?", "close", "gone"} => ~m_bRuning
    /\ starter \in {"joining", "stopped"} =>
         ~m_bRuning /\ thread.at \notin {"none", "created"}
    /\ starter = "stopped" => thread.at = "gone"
    /\ starter \notin {"joining", "stopped"} => inTime = {}
    /\ inTime \subseteq accepted

\* Only an enabled logger has a file, and one with something in its buffer is
\* flushed, unless the last flush failed.
Buffers ==
    /\ \A id \in LoggerId :
         /\ m_loggers[id].open => m_loggers[id].enable
         /\ m_loggers[id].buffer # <<>> =>
              m_loggers[id].open /\ (m_loggers[id].needFlush \/ id \in unflushed)
    /\ thread.at \in {"quit?", "empty?", "close"} =>
         \A id \in LoggerId : m_loggers[id].buffer # <<>> => id \in unflushed
    /\ thread.at = "gone" =>
         \A id \in LoggerId : m_loggers[id].buffer = <<>> /\ ~m_loggers[id].open

\* When the thread ends all that came in time is where it belongs, but for what
\* a failed flush left to the closing of the files.
EndsSettled ==
    /\ thread.at = "close" =>
         \A log \in inTime : Settled(log) \/ log \in ToSet(m_loggers[log.id].buffer)
    /\ thread.at = "gone" => \A log \in inTime : Settled(log)

-----------------------------------------------------------------------------
(* Types *)

LEMMA LevelsNat == Levels \subseteq Nat /\ 0 \in Levels /\ Alarm \in Levels
BY LogQueueAssumption

LEMMA LoggerIds == 0 \in LoggerId /\ LoggerId \subseteq Nat /\ IsFiniteSet(LoggerId)
<1>1. LoggerMax \in Nat /\ LoggerMax > 0
  BY LogQueueAssumption
<1>2. LoggerMax - 1 \in Int
  BY <1>1
<1>3. IsFiniteSet(0 .. LoggerMax - 1)
  BY <1>2, FS_Interval
<1> QED
  BY <1>1, <1>3 DEF LoggerId

LEMMA TypeInit == Init => TypeInv
<1> SUFFICES ASSUME Init PROVE TypeInv
  OBVIOUS
<1>1. m_bRuning \in BOOLEAN
  BY Zenon DEF Init
<1>2. m_loggers \in [LoggerId -> Loggers]
  BY LevelsNat DEF Init, Loggers
<1>3. writer \in [Writers -> Senders]
  BY DEF Init, Senders, Message
<1>4. thread \in Threads
  BY DEF Init, Threads, Message
<1>5. disk \in [LoggerId -> Seq(Log)] /\ m_logs \in Seq(Log)
  BY DEF Init
<1>6. /\ starter \in Starters /\ accepted \subseteq Log /\ thread.at # "popped"
      /\ unflushed \subseteq LoggerId
  BY DEF Init, Starters
<1>7. \A w \in Writers : writer[w].at = "idle"
  BY DEF Init
<1> QED
  BY <1>1, <1>2, <1>3, <1>4, <1>5, <1>6, <1>7 DEF TypeInv

LEMMA EnabledCount ==
  ASSUME TypeInv
  PROVE  1 + Cardinality({id \in LoggerId : id = 0 \/ m_loggers[id].enable}) \in Int
<1>1. IsFiniteSet({id \in LoggerId : id = 0 \/ m_loggers[id].enable})
  BY LoggerIds, FS_Subset
<1>2. Cardinality({id \in LoggerId : id = 0 \/ m_loggers[id].enable}) \in Nat
  BY <1>1, FS_CardinalityType
<1> QED
  BY <1>2

\* The caller of Start and Stop.
LEMMA TypeCaller == TypeInv /\ Caller => TypeInv'
<1> SUFFICES ASSUME TypeInv, Caller PROVE TypeInv'
  OBVIOUS
<1>1. ASSUME NEW name \in {Main} \cup Others, NEW level \in Levels,
             CreateLogger(name, level)
      PROVE  TypeInv'
  <2>1. m_loggers' \in [LoggerId -> Loggers]
    <3> DEFINE id == IF name \in DOMAIN m_ids THEN m_ids[name]
                     ELSE Cardinality(DOMAIN m_ids)
    <3>1. m_loggers' = [m_loggers EXCEPT ![id].enable = TRUE, ![id].level = level]
      BY <1>1 DEF CreateLogger
    <3> HIDE DEF id
    <3> QED
      BY <3>1, LevelsNat DEF TypeInv, Loggers
  <2> QED
    BY <1>1, <2>1 DEF TypeInv, CreateLogger, queueVars
<1>2. ASSUME NEW created \in BOOLEAN, Start(created) PROVE TypeInv'
  <2>1. thread' \in Threads /\ (thread'.at = "popped" => thread' = thread)
    <3>1. CASE thread' = [thread EXCEPT !.at = "created"]
      BY <3>1 DEF TypeInv, Threads
    <3> QED
      BY <1>2, <3>1 DEF TypeInv, Start
  <2>2. starter' \in Starters
    BY <1>2 DEF Start, Starters
  <2> QED
    BY <1>2, <2>1, <2>2 DEF TypeInv, Start, queueVars, fileVars
<1>3. CASE StartReturns
  BY <1>3 DEF TypeInv, StartReturns, queueVars, fileVars, Starters
<1>4. CASE Stop
  <2>1. m_bRuning' \in BOOLEAN
    BY <1>4, Zenon DEF TypeInv, Stop
  <2> QED
    BY <1>4, <2>1 DEF TypeInv, Stop, queueVars, fileVars, Starters
<1>5. CASE StopReturns
  BY <1>5 DEF TypeInv, StopReturns, queueVars, fileVars, Starters
<1> QED
  BY <1>1, <1>2, <1>3, <1>4, <1>5 DEF Caller

LEMMA OverTypes ==
  ASSUME TypeInv, NEW w \in Writers, Over(w)
  PROVE  /\ writer' \in [Writers -> Senders]
         /\ writer'[w].at = "idle" /\ writer'[w].calls = writer[w].calls + 1
         /\ \A v \in Writers \ {w} : writer'[v] = writer[v]
<1>1. writer \in [Writers -> Senders] /\ writer[w].calls \in Nat
  BY DEF TypeInv, Senders
<1>2. writer' = [writer EXCEPT ![w].at = "idle", ![w].log = <<>>,
                               ![w].calls = writer[w].calls + 1]
  BY DEF Over
<1>3. writer[w].calls + 1 \in Nat
  BY <1>1
<1> DEFINE c == writer[w].calls + 1
<1>4. writer' = [writer EXCEPT ![w].at = "idle", ![w].log = <<>>, ![w].calls = c]
  BY <1>2
<1>5. c \in Nat
  BY <1>3
<1> HIDE DEF c
<1>6. writer' \in [Writers -> Senders] /\ writer'[w].at = "idle" /\ writer'[w].calls = c
  BY <1>1, <1>4, <1>5 DEF Senders, Message
<1>7. \A v \in Writers \ {w} : writer'[v] = writer[v]
  BY <1>1, <1>4
<1> QED
  BY <1>6, <1>7 DEF c

LEMMA TypeWriter ==
  ASSUME TypeInv, NEW w \in Writers, Writer(w)
  PROVE  TypeInv'
<1>0. writer[w].calls \in Nat /\ writer[w].log \in Message
  BY DEF TypeInv, Senders
<1>1. ASSUME NEW id \in LoggerId, NEW level \in Levels, PrePushLog(w, id, level)
      PROVE  TypeInv'
  <2> DEFINE log == [by |-> w, n |-> writer[w].calls, id |-> id, level |-> level]
  <2>1. log \in Log
    BY <1>0 DEF Log
  <2> HIDE DEF log
  <2>2. CASE writer' = [writer EXCEPT ![w].at = "formatted", ![w].log = log]
    <3>1. writer' \in [Writers -> Senders]
      BY <2>1, <2>2 DEF TypeInv, Senders, Message
    <3>2. /\ writer'[w].log \in Log
          /\ \A v \in Writers \ {w} : writer'[v] = writer[v]
      BY <2>1, <2>2 DEF TypeInv, Senders
    <3> QED
      BY <1>1, <3>1, <3>2 DEF TypeInv, PrePushLog, queueVars, fileVars
  <2>3. CASE Over(w)
    BY <1>1, <2>3, OverTypes DEF TypeInv, PrePushLog, queueVars, fileVars
  <2> QED
    BY <1>1, <2>2, <2>3 DEF PrePushLog, log
<1>2. CASE PushLog(w)
  <2>1. CASE writer' = [writer EXCEPT ![w].at = "checked"]
    <3>1. writer' \in [Writers -> Senders]
      BY <2>1 DEF TypeInv, Senders
    <3>2. /\ writer'[w].log = writer[w].log /\ writer[w].at = "formatted"
          /\ \A v \in Writers \ {w} : writer'[v] = writer[v]
      BY <1>2, <2>1 DEF TypeInv, Senders, PushLog
    <3> QED
      BY <1>2, <3>1, <3>2 DEF TypeInv, PushLog, queueVars, fileVars
  <2>2. CASE Over(w)
    BY <1>2, <2>2, OverTypes DEF TypeInv, PushLog, queueVars, fileVars
  <2> QED
    BY <1>2, <2>1, <2>2 DEF PushLog
<1>3. CASE PushLogLocked(w)
  <2>1. writer[w].log \in Log
    BY <1>3 DEF TypeInv, PushLogLocked
  <2>2. m_logs' \in Seq(Log) /\ accepted' \subseteq Log
    BY <1>3, <2>1 DEF TypeInv, PushLogLocked, Enqueue
  <2> QED
    BY <1>3, <2>1, <2>2, OverTypes DEF TypeInv, PushLogLocked, fileVars
<1> QED
  BY <1>1, <1>2, <1>3 DEF Writer

\* The log thread.
LEMMA ThreadAt ==
  ASSUME TypeInv,
         NEW a \in {"created", "telling", "checked", "loop", "flush", "quit?",
                    "empty?", "close", "gone"},
         thread' = [thread EXCEPT !.at = a]
  PROVE  /\ thread' \in Threads
         /\ thread'.at = a /\ thread'.log = thread.log /\ thread'.n = thread.n
BY DEF TypeInv, Threads

LEMMA ThreadHandled ==
  ASSUME TypeInv, thread' = [thread EXCEPT !.at = "loop", !.log = <<>>]
  PROVE  thread' \in Threads /\ thread'.at = "loop" /\ thread'.n = thread.n
BY DEF TypeInv, Threads, Message

LEMMA RunBeginsThread ==
  ASSUME TypeInv, RunBegins
  PROVE  thread' \in Threads /\ thread'.at = "telling" /\ thread'.n = thread.n
<1> DEFINE c == 1 + Cardinality({id \in LoggerId : id = 0 \/ m_loggers[id].enable})
<1>1. c \in Int
  BY EnabledCount
<1>2. thread' = [thread EXCEPT !.at = "telling", !.todo = c]
  BY DEF RunBegins
<1> HIDE DEF c
<1> QED
  BY <1>1, <1>2 DEF TypeInv, Threads

\* The three things PushLog does in the log thread.
LEMMA RunTellsThread ==
  ASSUME TypeInv, RunTells
  PROVE  /\ thread' \in Threads /\ thread.at \in {"telling", "checked"}
         /\ \/ /\ UNCHANGED queueVars
               /\ thread'.at \in {"telling", "checked"} /\ thread'.n = thread.n
            \/ /\ Enqueue([by |-> LogThread, n |-> thread.n, id |-> 0,
                           level |-> Alarm])
               /\ thread'.at = "telling" /\ thread'.n = thread.n + 1
<1> DEFINE c == thread.todo - 1
           m == thread.n + 1
<1>1. c \in Int /\ m \in Nat
  BY DEF TypeInv, Threads
<1>2. \/ UNCHANGED queueVars /\ thread' = [thread EXCEPT !.at = "checked"]
      \/ /\ UNCHANGED queueVars /\ thread.at = "telling"
         /\ thread' = [thread EXCEPT !.todo = c]
      \/ /\ Enqueue([by |-> LogThread, n |-> thread.n, id |-> 0, level |-> Alarm])
         /\ thread' = [thread EXCEPT !.at = "telling", !.todo = c, !.n = m]
  BY DEF RunTells
<1>3. thread.at \in {"telling", "checked"}
  BY DEF RunTells
<1>4. thread \in Threads
  BY DEF TypeInv
<1> HIDE DEF c
<1>5. m = thread.n + 1
  OBVIOUS
<1> HIDE DEF m
<1>6. CASE thread' = [thread EXCEPT !.at = "checked"]
  BY <1>2, <1>3, <1>4, <1>6 DEF Threads
<1>7. CASE /\ UNCHANGED queueVars /\ thread.at = "telling"
           /\ thread' = [thread EXCEPT !.todo = c]
  BY <1>1, <1>3, <1>4, <1>7 DEF Threads
<1>8. CASE /\ Enqueue([by |-> LogThread, n |-> thread.n, id |-> 0, level |-> Alarm])
           /\ thread' = [thread EXCEPT !.at = "telling", !.todo = c, !.n = m]
  <2>1. /\ thread' \in Threads /\ thread'.at = "telling" /\ thread'.n = m
    BY <1>1, <1>4, <1>8 DEF Threads
  <2> QED
    BY <1>3, <1>5, <1>8, <2>1
<1> QED
  BY <1>2, <1>6, <1>7, <1>8

LEMMA FlushedTypes ==
  ASSUME TypeInv, NEW id \in LoggerId
  PROVE  /\ Flushed(id) \in Seq(Log)
         /\ disk[id] \in Seq(Log) /\ m_loggers[id].buffer \in Seq(Log)
BY DEF TypeInv, Loggers, Flushed

\* The message in hand, and what is done with its logger.
LEMMA HandTypes ==
  ASSUME TypeInv, thread.at = "popped"
  PROVE  /\ thread.log \in Log /\ thread.log.id \in LoggerId
         /\ InHand = <<thread.log>>
BY DEF TypeInv, Log, InHand

LEMMA CloseFilesTypes ==
  ASSUME TypeInv, NEW ids \in SUBSET LoggerId, NEW saved, NEW lost,
         CloseFiles(ids, saved, lost)
  PROVE  disk' \in [LoggerId -> Seq(Log)] /\ unflushed' \subseteq LoggerId
<1>1. \A id \in LoggerId : Flushed(id) \in Seq(Log) /\ disk[id] \in Seq(Log)
  BY FlushedTypes
<1>2. unflushed' \subseteq LoggerId
  BY DEF CloseFiles, TypeInv
<1> QED
  BY <1>1, <1>2 DEF CloseFiles

LEMMA OpenFailsTypes ==
  ASSUME TypeInv, OpenFails
  PROVE  /\ m_loggers' \in [LoggerId -> Loggers] /\ disk' \in [LoggerId -> Seq(Log)]
         /\ unflushed' \subseteq LoggerId
<1> DEFINE id == thread.log.id
           e == <<>>
<1>1. id \in LoggerId
  BY HandTypes DEF OpenFails
<1>2. disk' \in [LoggerId -> Seq(Log)] /\ unflushed' \subseteq LoggerId
  BY <1>1, CloseFilesTypes DEF OpenFails
<1>3. e \in Seq(Log)
  OBVIOUS
<1>4. m_loggers' = [m_loggers EXCEPT ![id].open = FALSE, ![id].buffer = e,
                                     ![id].enable = FALSE]
  BY DEF OpenFails
<1> HIDE DEF id, e
<1>5. m_loggers' \in [LoggerId -> Loggers]
  BY <1>1, <1>3, <1>4 DEF TypeInv, Loggers
<1> QED
  BY <1>2, <1>5

LEMMA WriteLogTypes ==
  ASSUME TypeInv, NEW rolls \in BOOLEAN, WriteLog(rolls)
  PROVE  /\ m_loggers' \in [LoggerId -> Loggers] /\ disk' \in [LoggerId -> Seq(Log)]
         /\ unflushed' \subseteq LoggerId
<1> DEFINE id == thread.log.id
           opens == rolls \/ ~m_loggers[id].open
           b == IF opens THEN <<thread.log>>
                ELSE Append(m_loggers[id].buffer, thread.log)
<1>1. id \in LoggerId /\ thread.log \in Log
  BY HandTypes DEF WriteLog
<1>2. b \in Seq(Log)
  BY <1>1, FlushedTypes
<1>3. m_loggers' = [m_loggers EXCEPT ![id].open = TRUE, ![id].needFlush = TRUE,
                                     ![id].buffer = b]
  BY DEF WriteLog
<1>4. disk' \in [LoggerId -> Seq(Log)] /\ unflushed' \subseteq LoggerId
  <2>1. CASE opens
    BY <1>1, <2>1, CloseFilesTypes DEF WriteLog
  <2>2. CASE ~opens
    BY <2>2 DEF WriteLog, TypeInv
  <2> QED
    BY <2>1, <2>2
<1> HIDE DEF id, b, opens
<1>5. m_loggers' \in [LoggerId -> Loggers]
  BY <1>1, <1>2, <1>3 DEF TypeInv, Loggers
<1> QED
  BY <1>4, <1>5

LEMMA WriteFailsTypes ==
  ASSUME TypeInv, WriteFails
  PROVE  /\ m_loggers' \in [LoggerId -> Loggers] /\ disk' \in [LoggerId -> Seq(Log)]
         /\ unflushed' \subseteq LoggerId
<1> DEFINE id == thread.log.id
           e == <<>>
<1>1. id \in LoggerId
  BY HandTypes DEF WriteFails
<1>2. disk' \in [LoggerId -> Seq(Log)] /\ unflushed' \subseteq LoggerId
  BY <1>1, CloseFilesTypes DEF WriteFails
<1>3. e \in Seq(Log)
  OBVIOUS
<1>4. m_loggers' = [m_loggers EXCEPT ![id].open = FALSE, ![id].buffer = e,
                                     ![id].needFlush = TRUE]
  BY DEF WriteFails
<1> HIDE DEF id, e
<1>5. m_loggers' \in [LoggerId -> Loggers]
  BY <1>1, <1>3, <1>4 DEF TypeInv, Loggers
<1> QED
  BY <1>2, <1>5

LEMMA FlushTypes ==
  ASSUME TypeInv, FlushLoggers
  PROVE  /\ m_loggers' \in [LoggerId -> Loggers] /\ disk' \in [LoggerId -> Seq(Log)]
         /\ unflushed' \subseteq LoggerId
<1> DEFINE due == {id \in LoggerId : m_loggers[id].enable /\ m_loggers[id].needFlush}
<1>1. PICK failed \in SUBSET due : 
        /\ disk' = [id \in LoggerId |-> IF id \in due \ failed THEN Flushed(id)
                                        ELSE disk[id]]
        /\ m_loggers' = [id \in LoggerId |->
             IF id \in due
             THEN [m_loggers[id] EXCEPT
                     !.buffer = IF id \in failed THEN m_loggers[id].buffer ELSE <<>>,
                     !.needFlush = FALSE]
             ELSE m_loggers[id]]
        /\ unflushed' = (unflushed \ due) \cup failed
  BY DEF FlushLoggers
<1>2. \A id \in LoggerId : Flushed(id) \in Seq(Log) /\ disk[id] \in Seq(Log)
  BY FlushedTypes
<1>3. ASSUME NEW id \in LoggerId, NEW b \in Seq(Log)
      PROVE  /\ m_loggers[id] \in Loggers
             /\ [m_loggers[id] EXCEPT !.buffer = b, !.needFlush = FALSE] \in Loggers
  BY DEF TypeInv, Loggers
<1>4. ASSUME NEW id \in LoggerId
      PROVE  m_loggers[id].buffer \in Seq(Log) /\ <<>> \in Seq(Log)
  BY FlushedTypes
<1>5. disk' \in [LoggerId -> Seq(Log)] /\ unflushed' \subseteq LoggerId
  BY <1>1, <1>2 DEF TypeInv
<1> HIDE DEF due
<1>6. \A id \in LoggerId : m_loggers'[id] \in Loggers
  <2> SUFFICES ASSUME NEW id \in LoggerId PROVE m_loggers'[id] \in Loggers
    OBVIOUS
  <2> DEFINE b == IF id \in failed THEN m_loggers[id].buffer ELSE <<>>
  <2>1. b \in Seq(Log)
    BY <1>4
  <2>2. \/ m_loggers'[id] = m_loggers[id]
        \/ m_loggers'[id] = [m_loggers[id] EXCEPT !.buffer = b, !.needFlush = FALSE]
    BY <1>1
  <2> HIDE DEF b
  <2> QED
    BY <1>3, <2>1, <2>2
<1> QED
  BY <1>1, <1>5, <1>6

LEMMA CloseTypes ==
  ASSUME TypeInv, CloseLoggers
  PROVE  /\ m_loggers' \in [LoggerId -> Loggers] /\ disk' \in [LoggerId -> Seq(Log)]
         /\ unflushed' \subseteq LoggerId
<1>1. disk' \in [LoggerId -> Seq(Log)] /\ unflushed' \subseteq LoggerId
  BY CloseFilesTypes DEF CloseLoggers
<1>2. \A id \in LoggerId :
        /\ m_loggers[id] \in Loggers
        /\ [m_loggers[id] EXCEPT !.enable = FALSE, !.open = FALSE,
                                 !.buffer = <<>>] \in Loggers
  <2> DEFINE e == <<>>
  <2>1. e \in Seq(Log)
    OBVIOUS
  <2> HIDE DEF e
  <2>2. \A id \in LoggerId :
          /\ m_loggers[id] \in Loggers
          /\ [m_loggers[id] EXCEPT !.enable = FALSE, !.open = FALSE,
                                 !.buffer = e] \in Loggers
    BY <2>1 DEF TypeInv, Loggers
  <2> QED
    BY <2>2 DEF e
<1> QED
  BY <1>1, <1>2 DEF CloseLoggers

LEMMA PopLogThread ==
  ASSUME TypeInv, PopLog
  PROVE  /\ thread' \in Threads /\ thread'.n = thread.n /\ m_logs' \in Seq(Log)
         /\ \/ /\ m_logs = <<>> /\ thread'.at = "flush" /\ UNCHANGED m_logs
            \/ /\ m_logs # <<>> /\ thread'.at = "popped"
               /\ thread'.log = Head(m_logs) /\ Head(m_logs) \in Log
               /\ m_logs' = Tail(m_logs)
<1>1. m_logs \in Seq(Log) /\ thread \in Threads
  BY DEF TypeInv
<1>2. CASE m_logs = <<>>
  <2>1. thread' = [thread EXCEPT !.at = "flush"] /\ UNCHANGED m_logs
    BY <1>2 DEF PopLog
  <2> QED
    BY <1>1, <1>2, <2>1, ThreadAt
<1>3. CASE m_logs # <<>>
  <2> DEFINE h == Head(m_logs)
  <2>1. h \in Log /\ Tail(m_logs) \in Seq(Log)
    BY <1>1, <1>3
  <2>2. thread' = [thread EXCEPT !.at = "popped", !.log = h] /\ m_logs' = Tail(m_logs)
    BY <1>3 DEF PopLog
  <2> HIDE DEF h
  <2>3. /\ thread' \in Threads /\ thread'.n = thread.n /\ thread'.at = "popped"
        /\ thread'.log = h
    BY <1>1, <2>1, <2>2 DEF Threads, Message
  <2> QED
    BY <1>3, <2>1, <2>2, <2>3 DEF h
<1> QED
  BY <1>2, <1>3

LEMMA QuitThread ==
  ASSUME TypeInv, QuitTest
  PROVE  /\ thread' \in Threads /\ thread'.n = thread.n
         /\ \/ thread.at = "quit?" /\ m_bRuning /\ thread'.at = "loop"
            \/ thread.at = "quit?" /\ ~m_bRuning /\ thread'.at = "empty?"
            \/ thread.at = "empty?" /\ m_logs = <<>> /\ thread'.at = "close"
            \/ thread.at = "empty?" /\ m_logs # <<>> /\ thread'.at = "loop"
BY DEF QuitTest, TypeInv, Threads

LEMMA TypeRun == TypeInv /\ Run => TypeInv'
<1> SUFFICES ASSUME TypeInv, Run PROVE TypeInv'
  OBVIOUS
<1> USE DEF queueVars, fileVars
<1>1. CASE RunBegins
  <2>1. m_loggers' \in [LoggerId -> Loggers]
    BY <1>1 DEF RunBegins, TypeInv, Loggers
  <2> QED
    BY <1>1, <2>1, RunBeginsThread DEF RunBegins, TypeInv
<1>2. CASE RunTells
  <2> DEFINE log == [by |-> LogThread, n |-> thread.n, id |-> 0, level |-> Alarm]
  <2>1. log \in Log
    BY LoggerIds, LevelsNat DEF TypeInv, Threads, Log
  <2>2. UNCHANGED queueVars \/ Enqueue(log)
    BY <1>2, RunTellsThread
  <2> HIDE DEF log
  <2>4. m_logs \in Seq(Log) /\ accepted \subseteq Log
    BY DEF TypeInv
  <2>5. m_logs' \in Seq(Log) /\ accepted' \subseteq Log
    BY <2>1, <2>2, <2>4 DEF Enqueue
  <2>3. thread' \in Threads /\ thread'.at # "popped"
    BY <1>2, RunTellsThread
  <2> QED
    BY <1>2, <2>3, <2>5 DEF RunTells, TypeInv
<1>3. CASE RunPosts
  <2>1. thread' \in Threads /\ thread'.at = "loop"
    BY <1>3, ThreadAt DEF RunPosts
  <2> QED
    BY <1>3, <2>1 DEF RunPosts, TypeInv
<1>4. CASE PopLog
  BY <1>4, PopLogThread DEF PopLog, TypeInv
<1>5. CASE HandleLog
  <2>1. Handled
    BY <1>5 DEF HandleLog, DiscardLog, OpenFails, WriteFails, WriteLog
  <2>2. thread' \in Threads /\ thread'.at = "loop"
    BY <2>1, ThreadHandled DEF Handled
  <2>3. /\ m_loggers' \in [LoggerId -> Loggers] /\ disk' \in [LoggerId -> Seq(Log)]
        /\ unflushed' \subseteq LoggerId
    <3>1. CASE DiscardLog
      BY <3>1 DEF DiscardLog, TypeInv
    <3> QED
      BY <1>5, <3>1, OpenFailsTypes, WriteFailsTypes, WriteLogTypes DEF HandleLog
  <2> QED
    BY <2>1, <2>2, <2>3 DEF Handled, TypeInv
<1>6. CASE FlushLoggers
  <2>1. thread' \in Threads /\ thread'.at = "quit?"
    BY <1>6, ThreadAt DEF FlushLoggers
  <2> QED
    BY <1>6, <2>1, FlushTypes DEF FlushLoggers, TypeInv
<1>7. CASE QuitTest
  BY <1>7, QuitThread DEF QuitTest, TypeInv
<1>8. CASE CloseLoggers
  <2>1. thread' \in Threads /\ thread'.at = "gone"
    BY <1>8, ThreadAt DEF CloseLoggers
  <2> QED
    BY <1>8, <2>1, CloseTypes DEF CloseLoggers, TypeInv
<1> QED
  BY <1>1, <1>2, <1>3, <1>4, <1>5, <1>6, <1>7, <1>8 DEF Run

LEMMA TypeStep == TypeInv /\ [Next]_vars => TypeInv'
<1> SUFFICES ASSUME TypeInv, [Next]_vars PROVE TypeInv'
  OBVIOUS
<1>1. ASSUME NEW id \in LoggerId, NEW level \in Levels, SetLoggerLevel(id, level)
      PROVE  TypeInv'
  <2>1. m_loggers' \in [LoggerId -> Loggers]
    BY <1>1 DEF SetLoggerLevel, TypeInv, Loggers
  <2> QED
    BY <1>1, <2>1 DEF SetLoggerLevel, TypeInv, queueVars
<1>2. CASE UNCHANGED vars
  BY <1>2 DEF vars, queueVars, fileVars, TypeInv
<1> QED
  BY <1>1, <1>2, TypeCaller, TypeRun, TypeWriter DEF Next

-----------------------------------------------------------------------------
(* Start, Stop and the thread *)

LEMMA PhasesInit == Init => Phases
<1> SUFFICES ASSUME Init PROVE Phases
  OBVIOUS
<1>1. ~m_bRuning
  BY Zenon DEF Init
<1> QED
  BY <1>1 DEF Init, Phases

LEMMA PhasesStep == TypeInv /\ Phases /\ [Next]_vars => Phases'
<1> SUFFICES ASSUME TypeInv, Phases, [Next]_vars PROVE Phases'
  OBVIOUS
<1> USE DEF queueVars, fileVars
<1>1. ASSUME NEW name \in {Main} \cup Others, NEW level \in Levels,
             CreateLogger(name, level)
      PROVE  Phases'
  BY <1>1 DEF CreateLogger, Phases
<1>2. ASSUME NEW created \in BOOLEAN, Start(created) PROVE Phases'
  <2>1. CASE thread' = [thread EXCEPT !.at = "created"] /\ starter' = "starting"
    <3>1. thread'.at = "created"
      BY <2>1, ThreadAt
    <3> QED
      BY <1>2, <2>1, <3>1 DEF Start, Phases
  <2>2. CASE UNCHANGED thread /\ starter' = "failed"
    BY <1>2, <2>2 DEF Start, Phases
  <2> QED
    BY <1>2, <2>1, <2>2 DEF Start
<1>3. CASE StartReturns
  BY <1>3 DEF StartReturns, Phases
<1>4. CASE Stop
  <2>1. CASE m_bRuning
    BY <1>4, <2>1 DEF Stop, Phases
  <2>2. CASE ~m_bRuning
    BY <1>4, <2>2 DEF Stop, Phases
  <2> QED
    BY <2>1, <2>2
<1>5. CASE StopReturns
  BY <1>5 DEF StopReturns, Phases
<1>6. ASSUME NEW w \in Writers, Writer(w) PROVE Phases'
  <2>1. UNCHANGED <<m_bRuning, thread, starter, inTime>> /\ accepted \subseteq accepted'
    BY <1>6 DEF Writer, PrePushLog, PushLog, PushLogLocked, Enqueue
  <2> QED
    BY <2>1 DEF Phases
<1>7. ASSUME NEW id \in LoggerId, NEW level \in Levels, SetLoggerLevel(id, level)
      PROVE  Phases'
  BY <1>7 DEF SetLoggerLevel, Phases
<1>8. CASE RunBegins
  BY <1>8, RunBeginsThread DEF RunBegins, Phases
<1>9. CASE RunTells
  <2>1. thread.at \in {"telling", "checked"} /\ thread'.at \in {"telling", "checked"}
    BY <1>9, RunTellsThread
  <2>2. UNCHANGED <<m_bRuning, starter, inTime>> /\ accepted \subseteq accepted'
    BY <1>9 DEF RunTells, Enqueue
  <2> QED
    BY <2>1, <2>2 DEF Phases
<1>10. CASE RunPosts
  <2>1. thread'.at = "loop" /\ thread.at = "telling"
    BY <1>10, ThreadAt DEF RunPosts
  <2> QED
    BY <1>10, <2>1 DEF RunPosts, Phases
<1>11. CASE PopLog
  <2>1. thread'.at \in {"flush", "popped"} /\ thread.at = "loop"
    BY <1>11, PopLogThread DEF PopLog
  <2> QED
    BY <1>11, <2>1 DEF PopLog, Phases
<1>12. CASE HandleLog
  <2>1. Handled /\ thread.at = "popped"
    BY <1>12 DEF HandleLog, DiscardLog, OpenFails, WriteFails, WriteLog
  <2>2. thread'.at = "loop"
    BY <2>1, ThreadHandled DEF Handled
  <2> QED
    BY <2>1, <2>2 DEF Handled, Phases
<1>13. CASE FlushLoggers
  <2>1. thread'.at = "quit?" /\ thread.at = "flush"
    BY <1>13, ThreadAt DEF FlushLoggers
  <2> QED
    BY <1>13, <2>1 DEF FlushLoggers, Phases
<1>14. CASE QuitTest
  <2>1. UNCHANGED <<m_bRuning, starter, inTime, accepted>>
    BY <1>14 DEF QuitTest
  <2>2. \/ thread.at = "quit?" /\ m_bRuning /\ thread'.at = "loop"
        \/ thread.at = "quit?" /\ ~m_bRuning /\ thread'.at = "empty?"
        \/ thread.at = "empty?" /\ thread'.at \in {"close", "loop"}
    BY <1>14, QuitThread
  <2> QED
    BY <2>1, <2>2 DEF Phases
<1>15. CASE CloseLoggers
  <2>1. thread'.at = "gone" /\ thread.at = "close"
    BY <1>15, ThreadAt DEF CloseLoggers
  <2> QED
    BY <1>15, <2>1 DEF CloseLoggers, Phases
<1>16. CASE UNCHANGED vars
  BY <1>16 DEF vars, Phases
<1> QED
  BY <1>1, <1>2, <1>3, <1>4, <1>5, <1>6, <1>7, <1>8, <1>9, <1>10, <1>11, <1>12,
     <1>13, <1>14, <1>15, <1>16 DEF Next, Caller, Run

-----------------------------------------------------------------------------
(* Files and their buffers *)

\* A step that gives no logger a file and fills no buffer.
LEMMA BuffersKept ==
  ASSUME Buffers,
         \A id \in LoggerId :
           /\ m_loggers'[id].open = m_loggers[id].open
           /\ m_loggers'[id].buffer = m_loggers[id].buffer
           /\ m_loggers'[id].needFlush = m_loggers[id].needFlush
           /\ m_loggers[id].enable => m_loggers'[id].enable,
         UNCHANGED unflushed,
         \/ thread'.at \notin {"quit?", "empty?", "close", "gone"}
         \/ /\ thread.at \in {"quit?", "empty?", "close", "gone"}
            /\ thread'.at = "gone" <=> thread.at = "gone"
  PROVE  Buffers'
<1>1. \A id \in LoggerId :
        /\ m_loggers'[id].open => m_loggers'[id].enable
        /\ m_loggers'[id].buffer # <<>> =>
             m_loggers'[id].open /\ (m_loggers'[id].needFlush \/ id \in unflushed')
  BY DEF Buffers
<1>2. thread'.at \in {"quit?", "empty?", "close"} =>
        \A id \in LoggerId : m_loggers'[id].buffer # <<>> => id \in unflushed'
  BY DEF Buffers
<1>3. thread'.at = "gone" =>
        \A id \in LoggerId : m_loggers'[id].buffer = <<>> /\ ~m_loggers'[id].open
  BY DEF Buffers
<1> QED
  BY <1>1, <1>2, <1>3 DEF Buffers

\* What the two sweeps over the loggers do to each.
LEMMA FlushEffect ==
  ASSUME TypeInv, FlushLoggers, NEW id \in LoggerId
  PROVE  /\ m_loggers'[id].open = m_loggers[id].open
         /\ m_loggers'[id].enable = m_loggers[id].enable
         /\ \/ /\ ~(m_loggers[id].enable /\ m_loggers[id].needFlush)
               /\ m_loggers'[id] = m_loggers[id] /\ disk'[id] = disk[id]
               /\ id \in unflushed' <=> id \in unflushed
            \/ /\ m_loggers'[id].buffer = m_loggers[id].buffer /\ disk'[id] = disk[id]
               /\ id \in unflushed'
            \/ m_loggers'[id].buffer = <<>> /\ disk'[id] = Flushed(id)
<1> DEFINE due == {i \in LoggerId : m_loggers[i].enable /\ m_loggers[i].needFlush}
<1>1. PICK failed \in SUBSET due :
        /\ disk' = [i \in LoggerId |-> IF i \in due \ failed THEN Flushed(i)
                                        ELSE disk[i]]
        /\ m_loggers' = [i \in LoggerId |->
             IF i \in due
             THEN [m_loggers[i] EXCEPT
                     !.buffer = IF i \in failed THEN m_loggers[i].buffer ELSE <<>>,
                     !.needFlush = FALSE]
             ELSE m_loggers[i]]
        /\ unflushed' = (unflushed \ due) \cup failed
  BY DEF FlushLoggers
<1>2. m_loggers[id] \in Loggers
  BY DEF TypeInv
<1>3. id \in due <=> m_loggers[id].enable /\ m_loggers[id].needFlush
  OBVIOUS
<1> HIDE DEF due
<1>4. CASE id \notin due
  BY <1>1, <1>3, <1>4
<1>5. CASE id \in failed
  BY <1>1, <1>2, <1>5 DEF Loggers
<1>6. CASE id \in due \ failed
  BY <1>1, <1>2, <1>6 DEF Loggers
<1> QED
  BY <1>4, <1>5, <1>6

LEMMA CloseEffect ==
  ASSUME TypeInv, CloseLoggers, NEW id \in LoggerId
  PROVE  \/ /\ ~m_loggers[id].enable
            /\ m_loggers'[id] = m_loggers[id] /\ disk'[id] = disk[id]
         \/ /\ m_loggers[id].enable
            /\ m_loggers'[id].buffer = <<>> /\ ~m_loggers'[id].open
            /\ \/ disk'[id] = Flushed(id)
               \/ disk'[id] = disk[id] /\ ToSet(m_loggers[id].buffer) \subseteq dropped'
<1> DEFINE due == {i \in LoggerId : m_loggers[i].enable}
<1>1. PICK saved \in SUBSET due : CloseFiles(due, saved, {})
  BY DEF CloseLoggers
<1>2. /\ disk'[id] = IF id \in saved THEN Flushed(id) ELSE disk[id]
      /\ id \in due \ saved => ToSet(m_loggers[id].buffer) \subseteq dropped'
  BY <1>1 DEF CloseFiles
<1>3. m_loggers[id] \in Loggers
  BY DEF TypeInv
<1>4. m_loggers'[id] = IF m_loggers[id].enable
                       THEN [m_loggers[id] EXCEPT !.enable = FALSE, !.open = FALSE,
                                                  !.buffer = <<>>]
                       ELSE m_loggers[id]
  BY DEF CloseLoggers
<1>5. m_loggers[id].enable => m_loggers'[id].buffer = <<>> /\ ~m_loggers'[id].open
  BY <1>3, <1>4 DEF Loggers
<1> QED
  BY <1>2, <1>4, <1>5

LEMMA BuffersInit == Init => Buffers
BY DEF Init, Buffers

LEMMA BuffersStep == TypeInv /\ Phases /\ Buffers /\ [Next]_vars => Buffers'
<1> SUFFICES ASSUME TypeInv, Phases, Buffers, [Next]_vars PROVE Buffers'
  OBVIOUS
<1> USE DEF queueVars, fileVars
<1>1. ASSUME NEW name \in {Main} \cup Others, NEW level \in Levels,
             CreateLogger(name, level)
      PROVE  Buffers'
  <2> DEFINE id == IF name \in DOMAIN m_ids THEN m_ids[name]
                   ELSE Cardinality(DOMAIN m_ids)
  <2>1. /\ m_loggers' = [m_loggers EXCEPT ![id].enable = TRUE, ![id].level = level]
        /\ UNCHANGED <<thread, unflushed>>
    BY <1>1 DEF CreateLogger
  <2> HIDE DEF id
  <2>2. \A i \in LoggerId :
           /\ m_loggers'[i].open = m_loggers[i].open
           /\ m_loggers'[i].buffer = m_loggers[i].buffer
           /\ m_loggers'[i].needFlush = m_loggers[i].needFlush
           /\ m_loggers[i].enable => m_loggers'[i].enable
    BY <2>1 DEF TypeInv, Loggers
  <2>3. thread.at = "none"
    BY <1>1 DEF CreateLogger, Phases
  <2> QED
    BY <2>1, <2>2, <2>3, BuffersKept
<1>2. ASSUME UNCHANGED <<m_loggers, thread, unflushed>> PROVE Buffers'
  BY <1>2 DEF Buffers
<1>3. ASSUME NEW created \in BOOLEAN, Start(created) PROVE Buffers'
  <2>1. CASE thread' = [thread EXCEPT !.at = "created"]
    <3>1. thread'.at = "created"
      BY <2>1, ThreadAt
    <3> QED
      BY <1>3, <3>1, BuffersKept DEF Start
  <2> QED
    BY <1>2, <1>3, <2>1 DEF Start
<1>4. ASSUME NEW id \in LoggerId, NEW level \in Levels, SetLoggerLevel(id, level)
      PROVE  Buffers'
  <2>1. \A i \in LoggerId :
           /\ m_loggers'[i].open = m_loggers[i].open
           /\ m_loggers'[i].buffer = m_loggers[i].buffer
           /\ m_loggers'[i].needFlush = m_loggers[i].needFlush
           /\ m_loggers[i].enable => m_loggers'[i].enable
    BY <1>4 DEF SetLoggerLevel, TypeInv, Loggers
  <2>2. UNCHANGED <<thread, unflushed>>
    BY <1>4 DEF SetLoggerLevel
  <2> QED
    BY <2>1, <2>2, BuffersKept
<1>5. CASE StartReturns \/ Stop \/ StopReturns \/ UNCHANGED vars
  BY <1>2, <1>5 DEF StartReturns, Stop, StopReturns, vars
<1>6. ASSUME NEW w \in Writers, Writer(w) PROVE Buffers'
  BY <1>2, <1>6 DEF Writer, PrePushLog, PushLog, PushLogLocked
<1>8. CASE RunBegins
  <2>1. \A i \in LoggerId :
           /\ m_loggers'[i].open = m_loggers[i].open
           /\ m_loggers'[i].buffer = m_loggers[i].buffer
           /\ m_loggers'[i].needFlush = m_loggers[i].needFlush
           /\ m_loggers[i].enable => m_loggers'[i].enable
    BY <1>8 DEF RunBegins, TypeInv, Loggers
  <2> QED
    BY <1>8, <2>1, RunBeginsThread, BuffersKept DEF RunBegins
<1>9. CASE RunTells \/ RunPosts \/ PopLog
  <2>1. UNCHANGED <<m_loggers, unflushed>>
    BY <1>9 DEF RunTells, RunPosts, PopLog
  <2>2. thread'.at \notin {"quit?", "empty?", "close", "gone"}
    BY <1>9, RunTellsThread, PopLogThread, ThreadAt DEF RunPosts
  <2> QED
    BY <2>1, <2>2, BuffersKept
<1>12. CASE HandleLog
  <2>1. thread.at = "popped" /\ Handled
    BY <1>12 DEF HandleLog, DiscardLog, OpenFails, WriteFails, WriteLog
  <2>2. thread'.at = "loop"
    BY <2>1, ThreadHandled DEF Handled
  <2> DEFINE id == thread.log.id
  <2>3. id \in LoggerId
    BY <2>1, HandTypes
  <2>4. CASE DiscardLog
    BY <2>2, <2>4, BuffersKept DEF DiscardLog
  <2>5. CASE OpenFails \/ WriteFails
    <3>1. /\ ~m_loggers'[id].open /\ m_loggers'[id].buffer = <<>>
          /\ \A i \in LoggerId \ {id} : m_loggers'[i] = m_loggers[i]
      BY <2>3, <2>5 DEF OpenFails, WriteFails, TypeInv, Loggers
    <3>2. \A i \in LoggerId \ {id} : i \in unflushed' <=> i \in unflushed
      BY <2>5 DEF OpenFails, WriteFails, CloseFiles
    <3> QED
      BY <2>2, <3>1, <3>2 DEF Buffers
  <2>6. ASSUME NEW rolls \in BOOLEAN, WriteLog(rolls) PROVE Buffers'
    <3>1. m_loggers[id].enable
      BY <2>6 DEF WriteLog, Filtered
    <3>2. /\ m_loggers'[id].open /\ m_loggers'[id].needFlush
          /\ m_loggers'[id].enable = m_loggers[id].enable
          /\ \A i \in LoggerId \ {id} : m_loggers'[i] = m_loggers[i]
      BY <2>3, <2>6 DEF WriteLog, TypeInv, Loggers
    <3>3. \A i \in LoggerId \ {id} : i \in unflushed' <=> i \in unflushed
      BY <2>6 DEF WriteLog, CloseFiles
    <3> QED
      BY <2>2, <3>1, <3>2, <3>3 DEF Buffers
  <2> QED
    BY <1>12, <2>4, <2>5, <2>6 DEF HandleLog
<1>13. CASE FlushLoggers
  <2>1. thread'.at = "quit?"
    BY <1>13, ThreadAt DEF FlushLoggers
  <2>2. ASSUME NEW i \in LoggerId
        PROVE  /\ m_loggers'[i].open => m_loggers'[i].enable
               /\ m_loggers'[i].buffer # <<>> => m_loggers'[i].open /\ i \in unflushed'
    <3>1. /\ m_loggers'[i].open = m_loggers[i].open
          /\ m_loggers'[i].enable = m_loggers[i].enable
      BY <1>13, FlushEffect
    <3>2. CASE m_loggers'[i] = m_loggers[i]
      <4>1. \/ ~(m_loggers[i].enable /\ m_loggers[i].needFlush) /\ (i \in unflushed => i \in unflushed')
            \/ i \in unflushed' \/ m_loggers'[i].buffer = <<>>
        BY <1>13, FlushEffect
      <4> QED
        BY <3>2, <4>1 DEF Buffers
    <3>3. CASE m_loggers'[i] # m_loggers[i]
      <4>1. \/ m_loggers'[i].buffer = m_loggers[i].buffer /\ i \in unflushed'
            \/ m_loggers'[i].buffer = <<>>
        BY <1>13, <3>3, FlushEffect
      <4> QED
        BY <3>1, <4>1 DEF Buffers
    <3> QED
      BY <3>2, <3>3
  <2> QED
    BY <2>1, <2>2 DEF Buffers
<1>14. CASE QuitTest
  BY <1>14, QuitThread, BuffersKept DEF QuitTest
<1>15. CASE CloseLoggers
  <2>1. \A i \in LoggerId : m_loggers'[i].buffer = <<>> /\ ~m_loggers'[i].open
    BY <1>15, CloseEffect DEF Buffers
  <2>2. thread'.at = "gone"
    BY <1>15, ThreadAt DEF CloseLoggers
  <2> QED
    BY <2>1, <2>2 DEF Buffers
<1> QED
  BY <1>1, <1>3, <1>4, <1>5, <1>6, <1>8, <1>9, <1>12, <1>13, <1>14, <1>15
     DEF Next, Caller, Run

-----------------------------------------------------------------------------
(* Sequences of messages *)

\* Of two messages of one thread, a was logged first.
Ordered(a, b) == a.by = b.by => a.n < b.n
Sorted(s) == \A i, j \in DOMAIN s : i < j => Ordered(s[i], s[j])
Ahead(S, T) == \A a \in S, b \in T : Ordered(a, b)

LEMMA ConcatSet ==
  ASSUME NEW s \in Seq(Log), NEW t \in Seq(Log)
  PROVE  ToSet(s \o t) = ToSet(s) \cup ToSet(t)
<1>1. /\ DOMAIN s = 1 .. Len(s) /\ DOMAIN t = 1 .. Len(t)
      /\ DOMAIN (s \o t) = 1 .. Len(s) + Len(t)
      /\ Len(s) \in Nat /\ Len(t) \in Nat
  OBVIOUS
<1>2. \A i \in DOMAIN (s \o t) :
        (s \o t)[i] = IF i <= Len(s) THEN s[i] ELSE t[i - Len(s)]
  BY <1>1
<1>3. ASSUME NEW x \in ToSet(s \o t) PROVE x \in ToSet(s) \cup ToSet(t)
  <2>1. PICK i \in DOMAIN (s \o t) : x = (s \o t)[i]
    BY DEF ToSet
  <2>2. CASE i <= Len(s)
    BY <1>1, <1>2, <2>1, <2>2 DEF ToSet
  <2>3. CASE ~(i <= Len(s))
    <3>1. i - Len(s) \in DOMAIN t /\ x = t[i - Len(s)]
      BY <1>1, <1>2, <2>1, <2>3
    <3> QED
      BY <3>1 DEF ToSet
  <2> QED
    BY <2>2, <2>3
<1>4. ASSUME NEW i \in DOMAIN s PROVE s[i] \in ToSet(s \o t)
  <2>1. i \in DOMAIN (s \o t) /\ (s \o t)[i] = s[i]
    BY <1>1, <1>2
  <2> QED
    BY <2>1 DEF ToSet
<1>5. ASSUME NEW i \in DOMAIN t PROVE t[i] \in ToSet(s \o t)
  <2>1. Len(s) + i \in DOMAIN (s \o t) /\ (s \o t)[Len(s) + i] = t[i]
    BY <1>1, <1>2
  <2> QED
    BY <2>1 DEF ToSet
<1> QED
  BY <1>3, <1>4, <1>5 DEF ToSet

LEMMA ConcatSorted ==
  ASSUME NEW s \in Seq(Log), NEW t \in Seq(Log)
  PROVE  Sorted(s \o t) <=> Sorted(s) /\ Sorted(t) /\ Ahead(ToSet(s), ToSet(t))
<1>1. /\ DOMAIN s = 1 .. Len(s) /\ DOMAIN t = 1 .. Len(t)
      /\ DOMAIN (s \o t) = 1 .. Len(s) + Len(t)
      /\ Len(s) \in Nat /\ Len(t) \in Nat
  OBVIOUS
<1>2. \A i \in DOMAIN (s \o t) :
        (s \o t)[i] = IF i <= Len(s) THEN s[i] ELSE t[i - Len(s)]
  BY <1>1
<1>3. \A i \in DOMAIN s : i \in DOMAIN (s \o t) /\ (s \o t)[i] = s[i]
  BY <1>1, <1>2
<1>4. \A i \in DOMAIN t : Len(s) + i \in DOMAIN (s \o t) /\ (s \o t)[Len(s) + i] = t[i]
  BY <1>1, <1>2
<1>5. ASSUME Sorted(s \o t)
      PROVE  Sorted(s) /\ Sorted(t) /\ Ahead(ToSet(s), ToSet(t))
  <2>1. Sorted(s)
    BY <1>3, <1>5 DEF Sorted
  <2>2. ASSUME NEW i \in DOMAIN t, NEW j \in DOMAIN t, i < j
        PROVE  Ordered(t[i], t[j])
    <3>1. Len(s) + i < Len(s) + j
      BY <1>1, <2>2
    <3> QED
      BY <1>4, <1>5, <3>1 DEF Sorted
  <2>3. ASSUME NEW i \in DOMAIN s, NEW j \in DOMAIN t
        PROVE  Ordered(s[i], t[j])
    <3>1. i < Len(s) + j
      BY <1>1
    <3> QED
      BY <1>3, <1>4, <1>5, <3>1 DEF Sorted
  <2> QED
    BY <2>1, <2>2, <2>3 DEF Sorted, Ahead, ToSet
<1>6. ASSUME Sorted(s), Sorted(t), Ahead(ToSet(s), ToSet(t)),
             NEW i \in DOMAIN (s \o t), NEW j \in DOMAIN (s \o t), i < j
      PROVE  Ordered((s \o t)[i], (s \o t)[j])
  <2>1. CASE j <= Len(s)
    <3>1. i \in DOMAIN s /\ j \in DOMAIN s
      BY <1>1, <1>6, <2>1
    <3> QED
      BY <1>3, <1>6, <3>1 DEF Sorted
  <2>2. CASE i <= Len(s) /\ ~(j <= Len(s))
    <3>1. i \in DOMAIN s /\ j - Len(s) \in DOMAIN t
      BY <1>1, <2>2
    <3>2. (s \o t)[i] = s[i] /\ (s \o t)[j] = t[j - Len(s)]
      BY <1>2, <2>2
    <3> QED
      BY <1>6, <3>1, <3>2 DEF Ahead, ToSet
  <2>3. CASE ~(i <= Len(s)) /\ ~(j <= Len(s))
    <3>1. /\ i - Len(s) \in DOMAIN t /\ j - Len(s) \in DOMAIN t
          /\ i - Len(s) < j - Len(s)
      BY <1>1, <1>6, <2>3
    <3>2. (s \o t)[i] = t[i - Len(s)] /\ (s \o t)[j] = t[j - Len(s)]
      BY <1>2, <2>3
    <3> QED
      BY <1>6, <3>1, <3>2 DEF Sorted
  <2> QED
    BY <1>1, <1>6, <2>1, <2>2, <2>3
<1> QED
  BY <1>5, <1>6 DEF Sorted

LEMMA OneMessage ==
  ASSUME NEW x
  PROVE  /\ ToSet(<<x>>) = {x} /\ Sorted(<<x>>)
         /\ ToSet(<<>>) = {} /\ Sorted(<<>>)
BY DEF ToSet, Sorted

\* A message is not before itself.
LEMMA AheadDisjoint ==
  ASSUME NEW S \in SUBSET Log, NEW T \in SUBSET Log, Ahead(S, T)
  PROVE  S \cap T = {}
<1> SUFFICES ASSUME NEW a \in S, a \in T PROVE FALSE
  OBVIOUS
<1>1. a.n \in Nat /\ a.n < a.n
  BY DEF Ahead, Ordered, Log
<1> QED
  BY <1>1

LEMMA SetOfLogs ==
  ASSUME NEW s \in Seq(Log)
  PROVE  ToSet(s) \subseteq Log
BY DEF ToSet

LEMMA SortedInjective ==
  ASSUME NEW s \in Seq(Log), Sorted(s)
  PROVE  IsInjective(s)
<1> SUFFICES ASSUME NEW i \in DOMAIN s, NEW j \in DOMAIN s, s[i] = s[j], i # j
             PROVE  FALSE
  BY DEF IsInjective
<1>1. s[i] \in Log /\ i \in Nat /\ j \in Nat
  OBVIOUS
<1>2. s[i].n \in Nat
  BY <1>1 DEF Log
<1>3. Ordered(s[i], s[j]) \/ Ordered(s[j], s[i])
  BY <1>1 DEF Sorted
<1>4. s[i].n < s[i].n
  BY <1>3 DEF Ordered
<1> QED
  BY <1>2, <1>4

-----------------------------------------------------------------------------
(* From the queue to the files *)

Files(id) == ToSet(Flushed(id))
Hand == ToSet(InHand)
Queue == ToSet(m_logs)
Written == UNION {Files(id) : id \in LoggerId}

\* OnePlaceEach and OrderPerThread, piece by piece: what is in the files and
\* their buffers, in hand, and in the queue.
FlowInv ==
    /\ \A id \in LoggerId :
         /\ Sorted(Flushed(id)) /\ Ahead(Files(id), Hand) /\ Ahead(Files(id), Queue)
         /\ Files(id) \cap dropped = {}
         /\ \A log \in Files(id) : log.id = id
    /\ Sorted(m_logs) /\ Ahead(Hand, Queue)
    /\ Hand \cap dropped = {} /\ Queue \cap dropped = {}
    /\ accepted = dropped \cup Written \cup Hand \cup Queue

LEMMA PieceTypes ==
  ASSUME TypeInv
  PROVE  /\ InHand \in Seq(Log) /\ m_logs \in Seq(Log)
         /\ Hand \subseteq Log /\ Queue \subseteq Log
         /\ \A id \in LoggerId : Flushed(id) \in Seq(Log) /\ Files(id) \subseteq Log
<1>1. InHand \in Seq(Log) /\ m_logs \in Seq(Log)
  BY DEF InHand, TypeInv
<1> QED
  BY <1>1, FlushedTypes, SetOfLogs DEF Hand, Queue, Files

LEMMA FlowIsOrder == TypeInv /\ FlowInv => OnePlaceEach /\ OrderPerThread
<1> SUFFICES ASSUME TypeInv, FlowInv PROVE OnePlaceEach /\ OrderPerThread
  OBVIOUS
<1>1. ASSUME NEW id \in LoggerId
      PROVE  /\ Path(id) \in Seq(Log) /\ Sorted(Path(id))
             /\ ToSet(Path(id)) = Files(id) \cup Hand \cup Queue
  <2>1. /\ Flushed(id) \in Seq(Log) /\ InHand \in Seq(Log) /\ m_logs \in Seq(Log)
        /\ InHand \o m_logs \in Seq(Log) /\ Path(id) \in Seq(Log)
        /\ Path(id) = Flushed(id) \o (InHand \o m_logs)
    BY PieceTypes DEF Path
  <2>2. Sorted(InHand)
    BY OneMessage DEF InHand
  <2>3. ToSet(InHand \o m_logs) = Hand \cup Queue
    BY <2>1, ConcatSet DEF Hand, Queue
  <2>4. Sorted(InHand \o m_logs)
    BY <2>1, <2>2, ConcatSorted DEF FlowInv, Hand, Queue
  <2>5. ToSet(Path(id)) = Files(id) \cup Hand \cup Queue
    <3>1. ToSet(Flushed(id) \o (InHand \o m_logs))
            = ToSet(Flushed(id)) \cup ToSet(InHand \o m_logs)
      BY <2>1, ConcatSet, Zenon
    <3> QED
      BY <2>1, <2>3, <3>1, Zenon DEF Files
  <2>6. Ahead(Files(id), Hand \cup Queue)
    BY DEF FlowInv, Ahead
  <2>7. Sorted(Path(id))
    <3>1. Sorted(Flushed(id)) /\ Ahead(ToSet(Flushed(id)), ToSet(InHand \o m_logs))
      BY <2>3, <2>6 DEF FlowInv, Files
    <3>2. Sorted(Flushed(id) \o (InHand \o m_logs))
      BY <2>1, <2>4, <3>1, ConcatSorted, Zenon
    <3> QED
      BY <2>1, <3>2, Zenon
  <2> QED
    BY <2>1, <2>5, <2>7
<1>2. OnePlaceEach
  <2>1. UNION {ToSet(Path(id)) : id \in LoggerId} = Written \cup Hand \cup Queue
    <3>1. LoggerId # {}
      BY LoggerIds
    <3>2. {ToSet(Path(id)) : id \in LoggerId}
             = {Files(id) \cup Hand \cup Queue : id \in LoggerId}
      BY <1>1
    <3>3. \A x : x \in UNION {ToSet(Path(id)) : id \in LoggerId}
                   <=> \E id \in LoggerId : x \in Files(id) \cup Hand \cup Queue
      BY <3>2, Zenon
    <3>4. \A x : x \in Written <=> \E id \in LoggerId : x \in Files(id)
      BY Zenon DEF Written
    <3> QED
      BY <3>1, <3>3, <3>4
  <2>2. \A id \in LoggerId : IsInjective(Path(id))
    BY <1>1, SortedInjective
  <2>3. \A id \in LoggerId : /\ ToSet(Path(id)) \cap dropped = {}
                             /\ \A log \in ToSet(Flushed(id)) : log.id = id
    BY <1>1 DEF FlowInv, Files
  <2> QED
    BY <2>1, <2>2, <2>3 DEF FlowInv, OnePlaceEach
<1>3. OrderPerThread
  BY <1>1 DEF OrderPerThread, Sorted, Ordered
<1> QED
  BY <1>2, <1>3

LEMMA FlowInit == Init => FlowInv
<1> SUFFICES ASSUME Init PROVE FlowInv
  OBVIOUS
<1>1. \A id \in LoggerId : Flushed(id) = <<>>
  BY DEF Init, Flushed
<1>2. InHand = <<>> /\ m_logs = <<>> /\ dropped = {} /\ accepted = {}
  BY DEF Init, InHand
<1>3. Hand = {} /\ Queue = {} /\ \A id \in LoggerId : Files(id) = {}
  BY <1>1, <1>2, OneMessage DEF Hand, Queue, Files
<1>4. Written = {}
  BY <1>3 DEF Written
<1> QED
  BY <1>1, <1>2, <1>3, <1>4, OneMessage DEF FlowInv, Ahead

\* The files, the hand and the queue after a step.
LEMMA FlowKept ==
  ASSUME FlowInv, UNCHANGED <<m_logs, accepted, dropped>>, InHand' = InHand,
         \A id \in LoggerId : Flushed(id)' = Flushed(id)
  PROVE  FlowInv'
<1>1. Hand' = Hand /\ Queue' = Queue /\ \A id \in LoggerId : Files(id)' = Files(id)
  BY DEF Hand, Queue, Files
<1>2. Written' = Written
  BY <1>1 DEF Written
<1> QED
  BY <1>1, <1>2 DEF FlowInv

\* A message with a number of its own is accepted.
LEMMA FlowEnqueue ==
  ASSUME TypeInv, FlowInv, NEW log \in Log, Enqueue(log),
         \A other \in accepted : Ordered(other, log),
         UNCHANGED dropped, InHand' = InHand,
         \A id \in LoggerId : Flushed(id)' = Flushed(id)
  PROVE  FlowInv'
<1>1. /\ m_logs \in Seq(Log) /\ m_logs' = m_logs \o <<log>> /\ <<log>> \in Seq(Log)
      /\ accepted' = accepted \cup {log}
  BY DEF Enqueue, TypeInv
<1>2. Hand' = Hand /\ \A id \in LoggerId : Files(id)' = Files(id)
  BY DEF Hand, Files
<1>3. Queue' = Queue \cup {log}
  <2>1. ToSet(m_logs \o <<log>>) = ToSet(m_logs) \cup ToSet(<<log>>)
    BY <1>1, ConcatSet, Zenon
  <2> QED
    BY <1>1, <2>1, OneMessage DEF Queue
<1>4. log \notin accepted
  BY DEF Ordered, Log
<1>5. Sorted(m_logs')
  <2>1. Ahead(ToSet(m_logs), ToSet(<<log>>))
    <3>1. ToSet(<<log>>) = {log} /\ ToSet(m_logs) \subseteq accepted
      BY OneMessage DEF FlowInv, Queue
    <3> QED
      BY <3>1 DEF Ahead
  <2>2. Sorted(m_logs) /\ Sorted(<<log>>)
    BY OneMessage DEF FlowInv
  <2>3. Sorted(m_logs \o <<log>>)
    BY <1>1, <2>1, <2>2, ConcatSorted, Zenon
  <2> QED
    BY <1>1, <2>3
<1>6. Written' = Written
  BY <1>2 DEF Written
<1>7. Hand \cup Written \cup Queue \cup dropped = accepted
  BY DEF FlowInv
<1>8. /\ Ahead(Hand, Queue') /\ Queue' \cap dropped = {}
      /\ \A id \in LoggerId : Ahead(Files(id), Queue')
  <2>1. \A id \in LoggerId : Files(id) \subseteq accepted
    BY <1>7 DEF Written
  <2>2. log \notin dropped
    BY <1>4, <1>7
  <2> QED
    BY <1>3, <1>7, <2>1, <2>2 DEF FlowInv, Ahead
<1>9. accepted' = dropped' \cup Written' \cup Hand' \cup Queue'
  BY <1>1, <1>2, <1>3, <1>6, <1>7
<1> QED
  BY <1>2, <1>5, <1>8, <1>9 DEF FlowInv

\* The first message of the queue is taken in hand.
LEMMA FlowPop ==
  ASSUME TypeInv, FlowInv, InHand = <<>>, m_logs # <<>>,
         InHand' = <<Head(m_logs)>>, m_logs' = Tail(m_logs),
         UNCHANGED <<accepted, dropped>>,
         \A id \in LoggerId : Flushed(id)' = Flushed(id)
  PROVE  FlowInv'
<1>1. \A id \in LoggerId : Files(id)' = Files(id)
  BY DEF Files
<1>2. /\ m_logs = <<Head(m_logs)>> \o Tail(m_logs)
      /\ <<Head(m_logs)>> \in Seq(Log) /\ Tail(m_logs) \in Seq(Log)
  BY DEF TypeInv
<1>3. Hand = {} /\ Hand' = {Head(m_logs)} /\ Queue' = ToSet(Tail(m_logs))
  BY OneMessage DEF Hand, Queue
<1>4. Queue = Hand' \cup Queue'
  <2>1. ToSet(<<Head(m_logs)>> \o Tail(m_logs))
          = ToSet(<<Head(m_logs)>>) \cup ToSet(Tail(m_logs))
    BY <1>2, ConcatSet, Zenon
  <2> QED
    BY <1>2, <1>3, <2>1, OneMessage, Zenon DEF Queue
<1>5. Sorted(m_logs') /\ Ahead(Hand', Queue')
  <2>1. Sorted(<<Head(m_logs)>> \o Tail(m_logs))
    BY <1>2 DEF FlowInv
  <2>2. Sorted(Tail(m_logs)) /\ Ahead(ToSet(<<Head(m_logs)>>), ToSet(Tail(m_logs)))
    BY <1>2, <2>1, ConcatSorted
  <2> QED
    BY <1>3, <2>2, OneMessage
<1>6. Written' = Written
  BY <1>1 DEF Written
<1> QED
  BY <1>1, <1>3, <1>4, <1>5, <1>6 DEF FlowInv, Ahead

\* Messages leave the hand and the files for files of their own or to be dropped.
LEMMA FlowMoves ==
  ASSUME TypeInv, FlowInv, UNCHANGED <<m_logs, accepted>>,
         NEW gone, dropped' = dropped \cup gone,
         Hand' = Hand \/ Hand' = {},
         \A id \in LoggerId :
           /\ Sorted(Flushed(id)')
           /\ \A log \in Files(id)' :
                \/ log \in Files(id)
                \/ log \in Hand /\ Hand' = {} /\ log.id = id,
         gone \subseteq Written \cup Hand, gone \cap Hand' = {},
         \A id \in LoggerId : gone \cap Files(id)' = {},
         Written \cup Hand \subseteq gone \cup Written' \cup Hand'
  PROVE  FlowInv'
<1>1. Queue' = Queue
  BY DEF Queue
<1>2. /\ Ahead(Hand, Queue) /\ Hand \cap Queue = {}
      /\ \A id \in LoggerId : Ahead(Files(id), Queue) /\ Files(id) \cap Queue = {}
  BY PieceTypes, AheadDisjoint DEF FlowInv
<1>3. ASSUME NEW id \in LoggerId
      PROVE  /\ Ahead(Files(id)', Hand') /\ Ahead(Files(id)', Queue)
             /\ Files(id)' \cap dropped' = {} /\ \A log \in Files(id)' : log.id = id
  BY <1>2 DEF FlowInv, Ahead
<1>4. Ahead(Hand', Queue) /\ Hand' \cap dropped' = {}
  BY <1>2 DEF FlowInv, Ahead
<1>5. \A x : x \in Written <=> \E id \in LoggerId : x \in Files(id)
  BY Zenon DEF Written
<1>6. Queue \cap dropped' = {}
  BY <1>2, <1>5 DEF FlowInv
<1>7. Written' \subseteq Written \cup Hand
  <2>1. \A x : x \in Written' <=> \E id \in LoggerId : x \in Files(id)'
    BY Zenon DEF Written
  <2> QED
    BY <1>5, <2>1
<1>8. accepted' = dropped' \cup Written' \cup Hand' \cup Queue'
  <2>1. accepted = dropped \cup Written \cup Hand \cup Queue
    BY DEF FlowInv
  <2> QED
    BY <1>1, <1>7, <2>1
<1> QED
  BY <1>1, <1>3, <1>4, <1>6, <1>8 DEF FlowInv

\* What a logger has on disk and in its buffer.
LEMMA FileParts ==
  ASSUME TypeInv, FlowInv, NEW id \in LoggerId
  PROVE  /\ disk[id] \in Seq(Log) /\ Flushed(id) \in Seq(Log)
         /\ Sorted(disk[id]) /\ Sorted(Flushed(id))
         /\ Files(id) = ToSet(disk[id]) \cup ToSet(m_loggers[id].buffer)
         /\ ToSet(disk[id]) \cap ToSet(m_loggers[id].buffer) = {}
<1>1. disk[id] \in Seq(Log) /\ m_loggers[id].buffer \in Seq(Log) /\ Flushed(id) \in Seq(Log)
  BY FlushedTypes
<1>2. Sorted(Flushed(id))
  BY DEF FlowInv
<1>3. Files(id) = ToSet(disk[id]) \cup ToSet(m_loggers[id].buffer)
  <2>1. ToSet(disk[id] \o m_loggers[id].buffer)
          = ToSet(disk[id]) \cup ToSet(m_loggers[id].buffer)
    BY <1>1, ConcatSet, Zenon
  <2> QED
    BY <2>1, Zenon DEF Files, Flushed
<1>4. Sorted(disk[id]) /\ Ahead(ToSet(disk[id]), ToSet(m_loggers[id].buffer))
  <2>1. Sorted(disk[id] \o m_loggers[id].buffer)
    BY <1>2 DEF Flushed
  <2> QED
    BY <1>1, <2>1, ConcatSorted, Zenon
<1>5. ToSet(disk[id]) \cap ToSet(m_loggers[id].buffer) = {}
  BY <1>1, <1>4, SetOfLogs, AheadDisjoint
<1> QED
  BY <1>1, <1>2, <1>3, <1>4, <1>5

\* The message in hand behind what a file holds.
LEMMA FileAppend ==
  ASSUME TypeInv, FlowInv, NEW id \in LoggerId, NEW s \in Seq(Log), Sorted(s),
         ToSet(s) \subseteq Files(id), NEW log \in Hand
  PROVE  Sorted(Append(s, log)) /\ ToSet(Append(s, log)) = ToSet(s) \cup {log}
<1>1. log \in Log
  BY PieceTypes
<1>2. <<log>> \in Seq(Log)
  BY <1>1
<1>3. Append(s, log) = s \o <<log>>
  BY <1>1
<1>4. ToSet(s \o <<log>>) = ToSet(s) \cup {log}
  <2>1. ToSet(s \o <<log>>) = ToSet(s) \cup ToSet(<<log>>)
    BY <1>2, ConcatSet, Zenon
  <2> QED
    BY <2>1, OneMessage, Zenon
<1>5. Sorted(s \o <<log>>)
  <2>1. Ahead(ToSet(s), ToSet(<<log>>))
    <3>1. ToSet(<<log>>) = {log} /\ Ahead(Files(id), Hand)
      BY OneMessage DEF FlowInv
    <3> QED
      BY <3>1 DEF Ahead
  <2>2. Sorted(<<log>>)
    BY OneMessage
  <2> QED
    BY <1>2, <2>1, <2>2, ConcatSorted, Zenon
<1> QED
  BY <1>3, <1>4, <1>5

\* The message in hand is written or dropped, and the buffer of its logger is kept
\* (or reaches the disk) or lost.
LEMMA FlowOwn ==
  ASSUME TypeInv, FlowInv, UNCHANGED <<m_logs, accepted>>,
         thread.at = "popped", InHand' = <<>>,
         NEW log, thread.log = log, NEW own \in LoggerId, log.id = own,
         \/ Flushed(own)' = Flushed(own) /\ dropped' = dropped \cup {log}
         \/ Flushed(own)' = Append(Flushed(own), log) /\ dropped' = dropped
         \/ /\ Flushed(own)' = disk[own]
            /\ dropped' = dropped \cup {log} \cup ToSet(m_loggers[own].buffer)
         \/ /\ Flushed(own)' = Append(disk[own], log)
            /\ dropped' = dropped \cup ToSet(m_loggers[own].buffer),
         \A id \in LoggerId \ {own} : Flushed(id)' = Flushed(id)
  PROVE  FlowInv'
<1>0. PICK keeps \in BOOLEAN, writes \in BOOLEAN :
        /\ dropped' = dropped \cup (IF writes THEN {} ELSE {log})
                              \cup (IF keeps THEN {} ELSE ToSet(m_loggers[own].buffer))
        /\ Flushed(own)' = IF writes
                           THEN Append(IF keeps THEN Flushed(own) ELSE disk[own], log)
                           ELSE IF keeps THEN Flushed(own) ELSE disk[own]
  <2> DEFINE Chosen(k, w) ==
        /\ dropped' = dropped \cup (IF w THEN {} ELSE {log})
                              \cup (IF k THEN {} ELSE ToSet(m_loggers[own].buffer))
        /\ Flushed(own)' = IF w
                           THEN Append(IF k THEN Flushed(own) ELSE disk[own], log)
                           ELSE IF k THEN Flushed(own) ELSE disk[own]
  <2>1. Chosen(TRUE, FALSE) \/ Chosen(TRUE, TRUE) \/ Chosen(FALSE, FALSE) \/ Chosen(FALSE, TRUE)
    OBVIOUS
  <2>2. \E k \in BOOLEAN, w \in BOOLEAN : Chosen(k, w)
    <3> HIDE DEF Chosen
    <3> QED
      BY <2>1
  <2> QED
    BY <2>2
<1> DEFINE s == IF keeps THEN Flushed(own) ELSE disk[own]
           lost == IF keeps THEN {} ELSE ToSet(m_loggers[own].buffer)
           gone == (IF writes THEN {} ELSE {log}) \cup lost
<1>1. Hand = {log} /\ Hand' = {}
  BY OneMessage DEF Hand, InHand
<1>2. \A id \in LoggerId \ {own} : Files(id)' = Files(id)
  BY DEF Files
<1>3. /\ s \in Seq(Log) /\ Sorted(s)
      /\ Files(own) = ToSet(s) \cup lost /\ ToSet(s) \cap lost = {}
  BY FileParts DEF Files
<1>f. Flushed(own)' = IF writes THEN Append(s, log) ELSE s
  BY <1>0
<1>4. /\ Sorted(Flushed(own)')
      /\ Files(own)' = ToSet(s) \cup (IF writes THEN {log} ELSE {})
  <2>1. ToSet(s) \subseteq Files(own) /\ log \in Hand
    BY <1>1, <1>3
  <2> HIDE DEF s
  <2> QED
    BY <1>3, <1>f, <2>1, FileAppend DEF Files
<1>5. /\ \A id \in LoggerId : log \notin Files(id)
      /\ \A id \in LoggerId \ {own} : Files(id) \cap lost = {}
  <2>1. \A id \in LoggerId : Files(id) \cap Hand = {}
    BY PieceTypes, AheadDisjoint DEF FlowInv
  <2> QED
    BY <1>1, <1>3, <2>1 DEF FlowInv
<1>6. /\ \A x : x \in Written <=> \E id \in LoggerId : x \in Files(id)
      /\ \A x : x \in Written' <=> \E id \in LoggerId : x \in Files(id)'
  BY Zenon DEF Written
<1>7. dropped' = dropped \cup gone
  BY <1>0
<1>8. log \in gone <=> ~writes
  <2>1. log \notin lost
    BY <1>3, <1>5
  <2> HIDE DEF lost
  <2> QED
    BY <2>1
<1>9. lost \subseteq gone /\ gone \subseteq lost \cup {log}
  OBVIOUS
<1> HIDE DEF s, lost, gone
<1>10. gone \subseteq Written \cup Hand
  BY <1>1, <1>3, <1>6, <1>9
<1>11. ASSUME NEW id \in LoggerId
       PROVE  /\ Sorted(Flushed(id)') /\ gone \cap Files(id)' = {}
              /\ \A x \in Files(id)' : x \in Files(id) \/ (x \in Hand /\ Hand' = {} /\ x.id = id)
  <2>1. CASE id = own
    <3>1. log \notin ToSet(s) /\ ToSet(s) \subseteq Files(own)
      BY <1>3, <1>5
    <3>2. gone \cap Files(own)' = {}
      BY <1>3, <1>4, <1>8, <1>9, <3>1
    <3>3. \A x \in Files(own)' : x \in Files(own) \/ (x \in Hand /\ Hand' = {} /\ x.id = own)
      BY <1>1, <1>4, <3>1
    <3>4. Sorted(Flushed(own)')
      BY <1>4
    <3> QED
      BY <2>1, <3>2, <3>3, <3>4
  <2>2. CASE id # own
    <3>1. Flushed(id)' = Flushed(id)
      BY <2>2
    <3>2. Sorted(Flushed(id)')
      BY <3>1, FileParts
    <3> QED
      BY <1>2, <1>5, <1>9, <2>2, <3>2
  <2> QED
    BY <2>1, <2>2
<1>12. ASSUME NEW x \in Written \cup Hand PROVE x \in gone \cup Written'
  <2>1. CASE x = log
    BY <1>4, <1>6, <1>8, <2>1
  <2>2. CASE x # log
    BY <1>1, <1>2, <1>3, <1>4, <1>6, <1>9, <2>2
  <2> QED
    BY <2>1, <2>2
<1>13. /\ \A id \in LoggerId :
            /\ Sorted(Flushed(id)')
            /\ \A x \in Files(id)' :
                 \/ x \in Files(id)
                 \/ x \in Hand /\ Hand' = {} /\ x.id = id
       /\ \A id \in LoggerId : gone \cap Files(id)' = {}
       /\ gone \cap Hand' = {} /\ Written \cup Hand \subseteq gone \cup Written' \cup Hand'
  BY <1>1, <1>11, <1>12
<1> QED
  BY <1>1, <1>7, <1>10, <1>13, FlowMoves

\* Nothing in hand before or after, and the files as they were.
LEMMA FilesKept ==
  ASSUME UNCHANGED disk,
         \A id \in LoggerId : m_loggers'[id].buffer = m_loggers[id].buffer
  PROVE  \A id \in LoggerId : Flushed(id)' = Flushed(id)
BY DEF Flushed

LEMMA HandKept ==
  ASSUME UNCHANGED thread \/ (thread.at # "popped" /\ thread'.at # "popped")
  PROVE  InHand' = InHand
BY DEF InHand

LEMMA FlowWriter ==
  ASSUME TypeInv, Numbered, FlowInv, NEW w \in Writers, Writer(w)
  PROVE  FlowInv'
<1>1. UNCHANGED <<m_loggers, disk, dropped, thread>>
  BY DEF Writer, PrePushLog, PushLog, PushLogLocked, fileVars
<1>2. InHand' = InHand /\ \A id \in LoggerId : Flushed(id)' = Flushed(id)
  BY <1>1, FilesKept, HandKept
<1>3. CASE UNCHANGED queueVars
  BY <1>1, <1>2, <1>3, FlowKept DEF queueVars
<1>4. CASE PushLogLocked(w)
  <2> DEFINE log == writer[w].log
  <2>1. log \in Log /\ log.by = w /\ log.n = writer[w].calls
    BY <1>4 DEF TypeInv, Numbered, PushLogLocked
  <2>2. \A other \in accepted : Ordered(other, log)
    BY <2>1, LogQueueAssumption DEF Numbered, Ordered
  <2>3. Enqueue(log)
    BY <1>4 DEF PushLogLocked
  <2> HIDE DEF log
  <2> QED
    BY <1>1, <1>2, <2>1, <2>2, <2>3, FlowEnqueue
<1> QED
  BY <1>3, <1>4 DEF Writer, PrePushLog, PushLog

LEMMA FlowTells ==
  ASSUME TypeInv, Numbered, FlowInv, RunTells
  PROVE  FlowInv'
<1> DEFINE log == [by |-> LogThread, n |-> thread.n, id |-> 0, level |-> Alarm]
<1>1. UNCHANGED <<m_loggers, disk, dropped>>
  BY DEF RunTells, fileVars
<1>2. InHand' = InHand /\ \A id \in LoggerId : Flushed(id)' = Flushed(id)
  BY <1>1, FilesKept, HandKept, RunTellsThread
<1>3. log \in Log /\ log.by = LogThread /\ log.n = thread.n
  BY LoggerIds, LevelsNat DEF TypeInv, Threads, Log
<1>4. UNCHANGED queueVars \/ Enqueue(log)
  BY RunTellsThread
<1> HIDE DEF log
<1>5. CASE UNCHANGED queueVars
  BY <1>1, <1>2, <1>5, FlowKept DEF queueVars
<1>6. CASE Enqueue(log)
  <2>1. \A other \in accepted : Ordered(other, log)
    BY <1>3 DEF Numbered, Ordered
  <2> QED
    BY <1>1, <1>2, <1>3, <1>6, <2>1, FlowEnqueue
<1> QED
  BY <1>4, <1>5, <1>6

\* Closing the file of one logger.
LEMMA OwnClosed ==
  ASSUME TypeInv, NEW own \in LoggerId, NEW saved \in SUBSET {own}, NEW lost,
         CloseFiles({own}, saved, lost)
  PROVE  /\ \A id \in LoggerId \ {own} : disk'[id] = disk[id]
         /\ \/ disk'[own] = Flushed(own) /\ dropped' = dropped \cup lost
            \/ /\ disk'[own] = disk[own]
               /\ dropped' = dropped \cup lost \cup ToSet(m_loggers[own].buffer)
<1>1. \A id \in LoggerId : disk'[id] = IF id \in saved THEN Flushed(id) ELSE disk[id]
  BY DEF CloseFiles
<1>2. dropped' = dropped \cup lost
                   \cup UNION {ToSet(m_loggers[id].buffer) : id \in {own} \ saved}
  BY DEF CloseFiles
<1>3. CASE saved = {own}
  <2>1. UNION {ToSet(m_loggers[id].buffer) : id \in {own} \ saved} = {}
    BY <1>3
  <2> QED
    BY <1>1, <1>2, <1>3, <2>1
<1>4. CASE saved = {}
  <2>1. UNION {ToSet(m_loggers[id].buffer) : id \in {own} \ saved}
          = ToSet(m_loggers[own].buffer)
    BY <1>4
  <2> QED
    BY <1>1, <1>2, <1>4, <2>1
<1> QED
  BY <1>3, <1>4

LEMMA AppendConcat ==
  ASSUME NEW log \in Log, NEW s \in Seq(Log), NEW t \in Seq(Log)
  PROVE  Append(s \o t, log) = s \o Append(t, log) /\ Append(s, log) = s \o <<log>>
<1>1. \A u \in Seq(Log) : Append(u, log) = u \o <<log>>
  OBVIOUS
<1>2. <<log>> \in Seq(Log) /\ s \o t \in Seq(Log)
  OBVIOUS
<1>3. \A u, v, w \in Seq(Log) : (u \o v) \o w = u \o (v \o w)
  OBVIOUS
<1>4. (s \o t) \o <<log>> = s \o (t \o <<log>>)
  BY <1>2, <1>3
<1> QED
  BY <1>1, <1>2, <1>4

LEMMA FlowHandle ==
  ASSUME TypeInv, FlowInv, HandleLog
  PROVE  FlowInv'
<1>1. thread.at = "popped" /\ Handled
  BY DEF HandleLog, DiscardLog, OpenFails, WriteFails, WriteLog
<1>2. InHand' = <<>>
  BY <1>1, ThreadHandled DEF Handled, InHand
<1>3. PICK log \in Log : thread.log = log
  BY <1>1, HandTypes
<1>4. PICK own \in LoggerId : log.id = own
  BY <1>1, <1>3, HandTypes
<1>5. UNCHANGED <<m_logs, accepted>>
  BY <1>1 DEF Handled, queueVars
<1>6. m_loggers \in [LoggerId -> Loggers] /\ disk \in [LoggerId -> Seq(Log)]
  BY DEF TypeInv
<1>7. /\ Flushed(own) \in Seq(Log) /\ disk[own] \in Seq(Log)
      /\ m_loggers[own].buffer \in Seq(Log)
      /\ Flushed(own) \o <<>> = Flushed(own) /\ disk[own] \o <<>> = disk[own]
  BY FlushedTypes
<1>8. CASE DiscardLog
  <2>1. dropped' = dropped \cup {log} /\ UNCHANGED <<m_loggers, disk>>
    BY <1>3, <1>8 DEF DiscardLog
  <2>2. \A id \in LoggerId : Flushed(id)' = Flushed(id)
    BY <2>1, FilesKept
  <2> QED
    BY <1>1, <1>2, <1>3, <1>4, <1>5, <2>1, <2>2, FlowOwn
<1>9. CASE OpenFails \/ WriteFails
  <2>1. PICK saved \in SUBSET {own} : CloseFiles({own}, saved, {log})
    BY <1>3, <1>4, <1>9 DEF OpenFails, WriteFails
  <2>2. /\ m_loggers'[own].buffer = <<>>
        /\ \A id \in LoggerId \ {own} : m_loggers'[id] = m_loggers[id]
    BY <1>3, <1>4, <1>6, <1>9 DEF OpenFails, WriteFails, Loggers
  <2>3. \A id \in LoggerId \ {own} : Flushed(id)' = Flushed(id)
    BY <2>1, <2>2, OwnClosed DEF Flushed
  <2>4. CASE disk'[own] = Flushed(own) /\ dropped' = dropped \cup {log}
    <3>1. Flushed(own)' = Flushed(own)
      BY <1>7, <2>2, <2>4 DEF Flushed
    <3> QED
      BY <1>1, <1>2, <1>3, <1>4, <1>5, <2>3, <2>4, <3>1, FlowOwn
  <2>5. CASE /\ disk'[own] = disk[own]
             /\ dropped' = dropped \cup {log} \cup ToSet(m_loggers[own].buffer)
    <3>1. Flushed(own)' = disk[own]
      BY <1>7, <2>2, <2>5 DEF Flushed
    <3> QED
      BY <1>1, <1>2, <1>3, <1>4, <1>5, <2>3, <2>5, <3>1, FlowOwn
  <2> QED
    BY <2>1, <2>4, <2>5, OwnClosed
<1>10. ASSUME NEW rolls \in BOOLEAN, WriteLog(rolls) PROVE FlowInv'
  <2> DEFINE opens == rolls \/ ~m_loggers[own].open
             b == IF opens THEN <<log>> ELSE Append(m_loggers[own].buffer, log)
  <2>1. m_loggers' = [m_loggers EXCEPT ![own].open = TRUE, ![own].needFlush = TRUE,
                                       ![own].buffer = b]
    BY <1>3, <1>4, <1>10 DEF WriteLog
  <2>2. /\ opens => \E saved \in SUBSET {own} : CloseFiles({own}, saved, {})
        /\ ~opens => UNCHANGED <<disk, dropped>>
    BY <1>3, <1>4, <1>10 DEF WriteLog
  <2>3. (opens => b = <<log>>) /\ (~opens => b = Append(m_loggers[own].buffer, log))
    OBVIOUS
  <2> HIDE DEF b, opens
  <2>4. m_loggers'[own].buffer = b
    BY <1>4, <1>6, <2>1 DEF Loggers
  <2>5. \A id \in LoggerId \ {own} : Flushed(id)' = Flushed(id)
    <3>1. \A id \in LoggerId \ {own} : m_loggers'[id] = m_loggers[id] /\ disk'[id] = disk[id]
      BY <1>6, <2>1, <2>2, OwnClosed
    <3> QED
      BY <3>1 DEF Flushed
  <2>6. /\ Flushed(own) \o <<log>> = Append(Flushed(own), log)
        /\ disk[own] \o <<log>> = Append(disk[own], log)
        /\ disk[own] \o Append(m_loggers[own].buffer, log) = Append(Flushed(own), log)
    BY <1>7, AppendConcat DEF Flushed
  <2>7. CASE ~opens
    <3>1. Flushed(own)' = Append(Flushed(own), log) /\ dropped' = dropped
      BY <2>2, <2>3, <2>4, <2>6, <2>7 DEF Flushed
    <3> QED
      BY <1>1, <1>2, <1>3, <1>4, <1>5, <2>5, <3>1, FlowOwn
  <2>8. CASE opens /\ disk'[own] = Flushed(own) /\ dropped' = dropped
    <3>1. Flushed(own)' = Append(Flushed(own), log)
      BY <2>3, <2>4, <2>6, <2>8 DEF Flushed
    <3> QED
      BY <1>1, <1>2, <1>3, <1>4, <1>5, <2>5, <2>8, <3>1, FlowOwn
  <2>9. CASE /\ opens /\ disk'[own] = disk[own]
             /\ dropped' = dropped \cup ToSet(m_loggers[own].buffer)
    <3>1. Flushed(own)' = Append(disk[own], log)
      BY <2>3, <2>4, <2>6, <2>9 DEF Flushed
    <3> QED
      BY <1>1, <1>2, <1>3, <1>4, <1>5, <2>5, <2>9, <3>1, FlowOwn
  <2> QED
    BY <2>2, <2>7, <2>8, <2>9, OwnClosed
<1> QED
  BY <1>8, <1>9, <1>10 DEF HandleLog

LEMMA FlowFlush ==
  ASSUME TypeInv, FlowInv, FlushLoggers
  PROVE  FlowInv'
<1>1. UNCHANGED <<m_logs, accepted, dropped>>
  BY DEF FlushLoggers, queueVars
<1>2. InHand' = InHand
  BY ThreadAt, HandKept DEF FlushLoggers
<1>3. ASSUME NEW id \in LoggerId PROVE Flushed(id)' = Flushed(id)
  <2>1. Flushed(id) \o <<>> = Flushed(id)
    BY FlushedTypes
  <2> QED
    BY <2>1, FlushEffect DEF Flushed
<1> QED
  BY <1>1, <1>2, <1>3, FlowKept

LEMMA FlowClose ==
  ASSUME TypeInv, FlowInv, CloseLoggers
  PROVE  FlowInv'
<1> DEFINE due == {id \in LoggerId : m_loggers[id].enable}
<1>1. PICK saved \in SUBSET due : CloseFiles(due, saved, {})
  BY DEF CloseLoggers
<1> DEFINE gone == UNION {ToSet(m_loggers[id].buffer) : id \in due \ saved}
<1>2. /\ UNCHANGED <<m_logs, accepted>> /\ dropped' = dropped \cup gone
      /\ \A id \in LoggerId : disk'[id] = IF id \in saved THEN Flushed(id) ELSE disk[id]
  BY <1>1 DEF CloseLoggers, CloseFiles, queueVars
<1>3. Hand' = Hand /\ Hand = {}
  BY ThreadAt, OneMessage DEF CloseLoggers, Hand, InHand
<1>4. \A x : x \in gone <=> \E id \in due \ saved : x \in ToSet(m_loggers[id].buffer)
  BY Zenon
<1>5. ASSUME NEW id \in LoggerId
      PROVE  /\ id \in due \ saved => Flushed(id)' = disk[id]
             /\ id \notin due \ saved => Flushed(id)' = Flushed(id)
  <2>1. /\ id \in due => m_loggers'[id].buffer = <<>>
        /\ id \notin due => m_loggers'[id] = m_loggers[id]
    BY CloseEffect
  <2>2. Flushed(id) \o <<>> = Flushed(id) /\ disk[id] \o <<>> = disk[id]
    BY FlushedTypes
  <2>3. saved \subseteq due
    OBVIOUS
  <2> HIDE DEF due
  <2> QED
    BY <1>2, <2>1, <2>2, <2>3 DEF Flushed
<1>6. \A id \in due \ saved : id \in LoggerId
  OBVIOUS
<1> HIDE DEF due, gone
<1>7. ASSUME NEW id \in LoggerId
      PROVE  /\ Sorted(Flushed(id)') /\ Files(id)' \subseteq Files(id)
             /\ gone \cap Files(id)' = {} /\ Files(id) \subseteq gone \cup Files(id)'
  <2>1. \A log \in Files(id) : log.id = id
    BY DEF FlowInv
  <2>2. ASSUME NEW x \in gone, x \in Files(id)
        PROVE  id \in due \ saved /\ x \in ToSet(m_loggers[id].buffer)
    <3>1. PICK i \in due \ saved : x \in ToSet(m_loggers[i].buffer)
      BY <1>4
    <3>2. x \in Files(i)
      BY <1>6, <3>1, FileParts
    <3>3. x.id = i
      BY <1>6, <3>2 DEF FlowInv
    <3> QED
      BY <2>1, <2>2, <3>1, <3>3
  <2>3. CASE id \in due \ saved
    <3>1. Flushed(id)' = disk[id] /\ Files(id)' = ToSet(disk[id])
      BY <1>5, <2>3 DEF Files
    <3>2. ToSet(m_loggers[id].buffer) \subseteq gone
      BY <1>4, <2>3
    <3> QED
      BY <2>2, <3>1, <3>2, FileParts
  <2>4. CASE id \notin due \ saved
    <3>1. Flushed(id)' = Flushed(id) /\ Files(id)' = Files(id)
      BY <1>5, <2>4 DEF Files
    <3> QED
      BY <2>2, <2>4, <3>1, FileParts
  <2> QED
    BY <2>3, <2>4
<1>8. /\ \A x : x \in Written <=> \E id \in LoggerId : x \in Files(id)
      /\ \A x : x \in Written' <=> \E id \in LoggerId : x \in Files(id)'
  BY Zenon DEF Written
<1>9. gone \subseteq Written
  <2>1. ASSUME NEW x \in gone PROVE \E id \in LoggerId : x \in Files(id)
    BY <1>4, <1>6, FileParts
  <2> QED
    BY <1>8, <2>1
<1>10. Written \subseteq gone \cup Written'
  BY <1>7, <1>8
<1>11. \A id \in LoggerId :
         /\ Sorted(Flushed(id)') /\ \A log \in Files(id)' : log \in Files(id)
         /\ gone \cap Files(id)' = {}
  BY <1>7
<1> QED
  BY <1>2, <1>3, <1>9, <1>10, <1>11, FlowMoves

LEMMA FlowStep == TypeInv /\ Numbered /\ Phases /\ FlowInv /\ [Next]_vars => FlowInv'
<1> SUFFICES ASSUME TypeInv, Numbered, Phases, FlowInv, [Next]_vars PROVE FlowInv'
  OBVIOUS
<1> USE DEF queueVars, fileVars
<1>1. ASSUME UNCHANGED <<m_logs, accepted, dropped, disk>>,
             UNCHANGED thread \/ (thread.at # "popped" /\ thread'.at # "popped"),
             \A id \in LoggerId : m_loggers'[id].buffer = m_loggers[id].buffer
      PROVE  FlowInv'
  BY <1>1, FilesKept, HandKept, FlowKept
<1>2. ASSUME NEW name \in {Main} \cup Others, NEW level \in Levels,
             CreateLogger(name, level)
      PROVE  FlowInv'
  <2> DEFINE id == IF name \in DOMAIN m_ids THEN m_ids[name]
                   ELSE Cardinality(DOMAIN m_ids)
  <2>1. m_loggers' = [m_loggers EXCEPT ![id].enable = TRUE, ![id].level = level]
    BY <1>2 DEF CreateLogger
  <2> HIDE DEF id
  <2>2. \A i \in LoggerId : m_loggers'[i].buffer = m_loggers[i].buffer
    BY <2>1 DEF TypeInv, Loggers
  <2> QED
    BY <1>1, <1>2, <2>2 DEF CreateLogger
<1>3. ASSUME NEW created \in BOOLEAN, Start(created) PROVE FlowInv'
  <2>1. UNCHANGED thread \/ thread'.at = "created"
    BY <1>3, ThreadAt DEF Start
  <2>2. thread.at = "none"
    BY <1>3 DEF Start, Phases
  <2> QED
    BY <1>1, <1>3, <2>1, <2>2 DEF Start
<1>4. CASE StartReturns \/ Stop \/ StopReturns \/ UNCHANGED vars
  BY <1>1, <1>4 DEF StartReturns, Stop, StopReturns, vars
<1>5. ASSUME NEW id \in LoggerId, NEW level \in Levels, SetLoggerLevel(id, level)
      PROVE  FlowInv'
  <2>1. \A i \in LoggerId : m_loggers'[i].buffer = m_loggers[i].buffer
    BY <1>5 DEF SetLoggerLevel, TypeInv, Loggers
  <2> QED
    BY <1>1, <1>5, <2>1 DEF SetLoggerLevel
<1>6. CASE RunBegins
  <2>1. \A i \in LoggerId : m_loggers'[i].buffer = m_loggers[i].buffer
    BY <1>6 DEF RunBegins, TypeInv, Loggers
  <2>2. thread.at = "created" /\ thread'.at = "telling"
    BY <1>6, RunBeginsThread DEF RunBegins
  <2> QED
    BY <1>1, <1>6, <2>1, <2>2 DEF RunBegins
<1>7. CASE RunPosts
  <2>1. thread.at = "telling" /\ thread'.at = "loop"
    BY <1>7, ThreadAt DEF RunPosts
  <2> QED
    BY <1>1, <1>7, <2>1 DEF RunPosts
<1>8. CASE QuitTest
  <2>1. thread.at # "popped" /\ thread'.at # "popped"
    BY <1>8, QuitThread
  <2> QED
    BY <1>1, <1>8, <2>1 DEF QuitTest
<1>9. CASE PopLog
  <2>1. thread.at = "loop" /\ UNCHANGED <<accepted, dropped, m_loggers, disk>>
    BY <1>9 DEF PopLog
  <2>2. CASE m_logs = <<>>
    BY <1>1, <1>9, <2>1, <2>2, PopLogThread
  <2>3. CASE m_logs # <<>>
    <3>1. InHand = <<>> /\ InHand' = <<Head(m_logs)>> /\ m_logs' = Tail(m_logs)
      BY <1>9, <2>1, <2>3, PopLogThread DEF InHand
    <3> QED
      BY <2>1, <2>3, <3>1, FilesKept, FlowPop
  <2> QED
    BY <2>2, <2>3
<1> QED
  BY <1>2, <1>3, <1>4, <1>5, <1>6, <1>7, <1>8, <1>9, FlowTells, FlowWriter,
     FlowHandle, FlowFlush, FlowClose DEF Next, Caller, Run

-----------------------------------------------------------------------------
(* Numbers of messages *)

LEMMA NumberedInit == Init => Numbered
BY DEF Init, Numbered

\* A step after which no thread has a smaller number than before.
LEMMA NumberedKept ==
  ASSUME TypeInv, Numbered, UNCHANGED accepted,
         thread'.n = thread.n, UNCHANGED writer
  PROVE  Numbered'
BY DEF Numbered

LEMMA NumberedWriter ==
  ASSUME TypeInv, Numbered, NEW w \in Writers, Writer(w)
  PROVE  Numbered'
<1>1. UNCHANGED thread /\ writer[w].calls \in Nat
  BY DEF Writer, PrePushLog, PushLog, PushLogLocked, TypeInv, Senders
<1>2. ASSUME accepted' \subseteq accepted \cup {writer[w].log},
             accepted' # accepted => writer[w].at # "idle", Over(w)
      PROVE  Numbered'
  <2>1. /\ writer'[w].at = "idle" /\ writer'[w].calls = writer[w].calls + 1
        /\ \A v \in Writers \ {w} : writer'[v] = writer[v]
    BY <1>2, OverTypes
  <2>2. ASSUME NEW log \in accepted', log.by # LogThread
        PROVE  log.n < writer'[log.by].calls
    <3>1. log.by \in Writers /\ log.n \in Nat
      <4>1. log \in Log
        BY <1>2 DEF TypeInv
      <4> QED
        BY <2>2, <4>1 DEF Log
    <3>2. CASE log \in accepted
      <4>1. log.n < writer[log.by].calls
        BY <2>2, <3>2 DEF Numbered
      <4> QED
        BY <1>1, <2>1, <3>1, <4>1
    <3>3. CASE log \notin accepted
      <4>1. log.by = w /\ log.n = writer[w].calls
        BY <1>2, <3>3 DEF Numbered
      <4> QED
        BY <1>1, <2>1, <4>1
    <3> QED
      BY <3>2, <3>3
  <2>3. ASSUME NEW log \in accepted', log.by = LogThread PROVE log.n < thread'.n
    <3>1. log \in accepted
      BY <1>2, <2>3, LogQueueAssumption DEF Numbered
    <3> QED
      BY <1>1, <2>3, <3>1 DEF Numbered
  <2> QED
    BY <2>1, <2>2, <2>3 DEF Numbered
<1>3. ASSUME NEW id \in LoggerId, NEW level \in Levels, PrePushLog(w, id, level)
      PROVE  Numbered'
  <2> DEFINE log == [by |-> w, n |-> writer[w].calls, id |-> id, level |-> level]
  <2>1. log.by = w /\ log.n = writer[w].calls
    OBVIOUS
  <2>2. UNCHANGED accepted
    BY <1>3 DEF PrePushLog, queueVars
  <2> HIDE DEF log
  <2>3. CASE writer' = [writer EXCEPT ![w].at = "formatted", ![w].log = log]
    <3>1. /\ writer'[w].calls = writer[w].calls /\ writer'[w].log = log
          /\ \A v \in Writers \ {w} : writer'[v] = writer[v]
      BY <2>3 DEF TypeInv, Senders
    <3>2. \A v \in Writers : writer'[v].calls = writer[v].calls
      BY <3>1
    <3>3. \A log2 \in accepted : log2.by # LogThread => log2.by \in Writers
      BY DEF TypeInv, Log
    <3> QED
      BY <1>1, <2>1, <2>2, <3>1, <3>2, <3>3 DEF Numbered
  <2>4. CASE Over(w)
    BY <1>2, <2>2, <2>4
  <2> QED
    BY <1>3, <2>3, <2>4 DEF PrePushLog, log
<1>4. CASE PushLog(w)
  <2>2. UNCHANGED accepted
    BY <1>4 DEF PushLog, queueVars
  <2>3. CASE writer' = [writer EXCEPT ![w].at = "checked"]
    <3>1. /\ writer'[w].calls = writer[w].calls /\ writer'[w].log = writer[w].log
          /\ writer[w].at = "formatted"
          /\ \A v \in Writers \ {w} : writer'[v] = writer[v]
      BY <1>4, <2>3 DEF TypeInv, Senders, PushLog
    <3>2. \A v \in Writers : writer'[v].calls = writer[v].calls
      BY <3>1
    <3>3. \A log2 \in accepted : log2.by # LogThread => log2.by \in Writers
      BY DEF TypeInv, Log
    <3> QED
      BY <1>1, <2>2, <3>1, <3>2, <3>3 DEF Numbered
  <2>4. CASE Over(w)
    BY <1>2, <2>2, <2>4
  <2> QED
    BY <1>4, <2>3, <2>4 DEF PushLog
<1>5. CASE PushLogLocked(w)
  BY <1>2, <1>5 DEF PushLogLocked, Enqueue
<1> QED
  BY <1>3, <1>4, <1>5 DEF Writer

LEMMA NumberedStep == TypeInv /\ Numbered /\ [Next]_vars => Numbered'
<1> SUFFICES ASSUME TypeInv, Numbered, [Next]_vars PROVE Numbered'
  OBVIOUS
<1> USE DEF queueVars, fileVars
<1>1. CASE RunTells
  <2> DEFINE log == [by |-> LogThread, n |-> thread.n, id |-> 0, level |-> Alarm]
  <2>1. log.by = LogThread /\ log.n = thread.n /\ thread.n \in Nat
    BY DEF TypeInv, Threads
  <2>2. \/ UNCHANGED accepted /\ thread'.n = thread.n
        \/ accepted' = accepted \cup {log} /\ thread'.n = thread.n + 1
    BY <1>1, RunTellsThread DEF Enqueue
  <2>3. UNCHANGED writer
    BY <1>1 DEF RunTells
  <2>4. accepted \subseteq Log
    BY DEF TypeInv
  <2> HIDE DEF log
  <2>5. CASE UNCHANGED accepted /\ thread'.n = thread.n
    BY <2>3, <2>5, NumberedKept
  <2>6. CASE accepted' = accepted \cup {log} /\ thread'.n = thread.n + 1
    <3>1. \A l \in accepted : l.n \in Nat
      BY <2>4 DEF Log
    <3> QED
      BY <2>1, <2>3, <2>6, <3>1 DEF Numbered
  <2> QED
    BY <2>2, <2>5, <2>6
<1>2. CASE RunBegins \/ RunPosts \/ PopLog \/ FlushLoggers \/ QuitTest \/ CloseLoggers
  <2>1. UNCHANGED <<accepted, writer>>
    BY <1>2 DEF RunBegins, RunPosts, PopLog, FlushLoggers, QuitTest, CloseLoggers
  <2>2. thread'.n = thread.n
    BY <1>2, RunBeginsThread, ThreadAt, PopLogThread, QuitThread
       DEF RunPosts, FlushLoggers, CloseLoggers
  <2> QED
    BY <2>1, <2>2, NumberedKept
<1>3. CASE HandleLog
  <2>1. Handled
    BY <1>3 DEF HandleLog, DiscardLog, OpenFails, WriteFails, WriteLog
  <2>2. thread'.n = thread.n
    BY <2>1, ThreadHandled DEF Handled
  <2> QED
    BY <2>1, <2>2, NumberedKept DEF Handled
<1>4. CASE Caller
  <2>1. UNCHANGED <<accepted, writer>>
    BY <1>4 DEF Caller, CreateLogger, Start, StartReturns, Stop, StopReturns
  <2>2. thread'.n = thread.n
    BY <1>4, ThreadAt DEF Caller, CreateLogger, Start, StartReturns, Stop, StopReturns
  <2> QED
    BY <2>1, <2>2, NumberedKept
<1>5. CASE UNCHANGED vars \/ \E id \in LoggerId, level \in Levels : SetLoggerLevel(id, level)
  BY <1>5, NumberedKept DEF vars, SetLoggerLevel
<1> QED
  BY <1>1, <1>2, <1>3, <1>4, <1>5, NumberedWriter DEF Next, Run

-----------------------------------------------------------------------------
(* What came in time *)

\* Files and what was dropped only grow.
LEMMA SettledStays ==
  ASSUME TypeInv, [Next]_vars, NEW log \in Log, Settled(log)
  PROVE  Settled(log)'
<1> DEFINE id == log.id
<1>0. id \in LoggerId
  BY DEF Log
<1>1. disk \in [LoggerId -> Seq(Log)]
  BY DEF TypeInv
<1>2. ASSUME disk'[id] = disk[id] \/ disk'[id] = Flushed(id), dropped \subseteq dropped'
      PROVE  Settled(log)'
  <2>1. disk[id] \in Seq(Log) /\ m_loggers[id].buffer \in Seq(Log)
    BY <1>0, FlushedTypes
  <2>2. ToSet(disk[id]) \subseteq ToSet(Flushed(id))
    BY <2>1, ConcatSet DEF Flushed
  <2>3. ToSet(disk[id]) \subseteq ToSet(disk'[id])
    BY <1>2, <2>2
  <2> QED
    BY <1>2, <2>3 DEF Settled
<1>3. dropped \subseteq dropped' /\ (disk'[id] = disk[id] \/ disk'[id] = Flushed(id))
  <2> USE DEF queueVars, fileVars
  <2>0. ASSUME NEW ids, NEW saved, NEW lost, CloseFiles(ids, saved, lost)
        PROVE  dropped \subseteq dropped' /\ (disk'[id] = disk[id] \/ disk'[id] = Flushed(id))
    BY <1>0, <2>0 DEF CloseFiles
  <2>1. CASE Run
    <3>1. CASE FlushLoggers
      BY <1>0, <3>1, FlushEffect DEF FlushLoggers
    <3>2. CASE CloseLoggers
      BY <2>0, <3>2 DEF CloseLoggers
    <3>3. CASE HandleLog
      <4>1. CASE OpenFails \/ WriteFails
        BY <2>0, <4>1 DEF OpenFails, WriteFails
      <4>2. CASE \E rolls \in BOOLEAN : WriteLog(rolls)
        BY <2>0, <4>2 DEF WriteLog
      <4> QED
        BY <3>3, <4>1, <4>2 DEF HandleLog, DiscardLog
    <3> QED
      BY <2>1, <3>1, <3>2, <3>3 DEF Run, RunBegins, RunTells, RunPosts, PopLog, QuitTest
  <2>2. CASE Caller
    BY <2>2 DEF Caller, CreateLogger, Start, StartReturns, Stop, StopReturns
  <2>3. CASE \E w \in Writers : Writer(w)
    BY <2>3 DEF Writer, PrePushLog, PushLog, PushLogLocked
  <2>4. CASE UNCHANGED vars \/ \E i \in LoggerId, level \in Levels : SetLoggerLevel(i, level)
    BY <2>4 DEF vars, SetLoggerLevel
  <2> QED
    BY <2>1, <2>2, <2>3, <2>4 DEF Next
<1> QED
  BY <1>2, <1>3

LEMMA EndsInit == Init => EndsSettled
BY DEF Init, EndsSettled

\* In the steps that end the thread and after it, no buffer changes but by its
\* closing its files.
LEMMA BufferStays ==
  ASSUME TypeInv, Phases, [Next]_vars, thread.at \in {"close", "gone"}, ~CloseLoggers
  PROVE  /\ UNCHANGED <<inTime, thread>>
         /\ \A id \in LoggerId : m_loggers'[id].buffer = m_loggers[id].buffer
<1> USE DEF queueVars, fileVars
<1>1. CASE Caller
  <2>1. starter # "configuring"
    BY DEF Phases
  <2>2. ~m_bRuning
    BY DEF Phases
  <2> QED
    BY <1>1, <2>1, <2>2 DEF Caller, CreateLogger, Start, StartReturns, Stop, StopReturns
<1>2. CASE \E id \in LoggerId, level \in Levels : SetLoggerLevel(id, level)
  BY <1>2 DEF SetLoggerLevel, TypeInv, Loggers
<1>3. CASE \E w \in Writers : Writer(w)
  BY <1>3 DEF Writer, PrePushLog, PushLog, PushLogLocked
<1>4. ~Run
  BY DEF Run, RunBegins, RunTells, RunPosts, PopLog, HandleLog, DiscardLog, OpenFails,
     WriteFails, WriteLog, FlushLoggers, QuitTest
<1>5. CASE UNCHANGED vars
  BY <1>5 DEF vars
<1> QED
  BY <1>1, <1>2, <1>3, <1>4, <1>5 DEF Next

LEMMA EndsStep ==
  TypeInv /\ Phases /\ Buffers /\ FlowInv /\ EndsSettled /\ [Next]_vars => EndsSettled'
<1> SUFFICES ASSUME TypeInv, Phases, Buffers, FlowInv, EndsSettled, [Next]_vars,
                    thread'.at \in {"close", "gone"}
             PROVE  EndsSettled'
  BY DEF EndsSettled
<1>1. inTime \subseteq Log
  BY DEF TypeInv, Phases
<1>2. \A log \in Log : log.id \in LoggerId
  BY DEF Log
<1>3. CASE CloseLoggers
  <2>1. thread.at = "close" /\ thread'.at = "gone" /\ UNCHANGED inTime
    BY <1>3, ThreadAt DEF CloseLoggers
  <2>2. ASSUME NEW log \in inTime, log \in ToSet(m_loggers[log.id].buffer)
        PROVE  Settled(log)'
    <3>1. log.id \in LoggerId
      BY <1>1, <1>2
    <3>2. m_loggers[log.id].buffer # <<>>
      BY <2>2, OneMessage
    <3>3. m_loggers[log.id].enable
      BY <3>1, <3>2 DEF Buffers
    <3>4. \/ disk'[log.id] = Flushed(log.id)
          \/ ToSet(m_loggers[log.id].buffer) \subseteq dropped'
      BY <1>3, <3>1, <3>3, CloseEffect
    <3>5. log \in ToSet(Flushed(log.id))
      BY <2>2, <3>1, FileParts DEF Files
    <3> QED
      BY <2>2, <3>4, <3>5 DEF Settled
  <2>3. \A log \in inTime : Settled(log) => Settled(log)'
    BY <1>1, SettledStays
  <2> QED
    BY <2>1, <2>2, <2>3 DEF EndsSettled
<1>4. CASE thread.at \in {"close", "gone"} /\ ~CloseLoggers
  <2>1. \A log \in inTime : Settled(log) => Settled(log)'
    BY <1>1, SettledStays
  <2> QED
    BY <1>1, <1>2, <1>4, <2>1, BufferStays DEF EndsSettled
<1>5. CASE thread.at \notin {"close", "gone"}
  <2>1. QuitTest
    <3>1. ~ UNCHANGED thread
      BY <1>5
    <3>2. ~HandleLog
      BY ThreadHandled DEF HandleLog, DiscardLog, OpenFails, WriteFails, WriteLog, Handled
    <3>3. ~(RunBegins \/ RunTells \/ RunPosts \/ PopLog \/ FlushLoggers \/ CloseLoggers)
      BY <1>5, RunBeginsThread, RunTellsThread, PopLogThread, ThreadAt
         DEF RunPosts, FlushLoggers, CloseLoggers
    <3>4. ~Caller
      BY <3>1, ThreadAt DEF Caller, CreateLogger, Start, StartReturns, Stop, StopReturns
    <3> QED
      BY <3>1, <3>2, <3>3, <3>4 DEF Next, Run, Writer, PrePushLog, PushLog,
         PushLogLocked, SetLoggerLevel, vars
  <2>2. /\ thread.at = "empty?" /\ m_logs = <<>> /\ thread'.at = "close"
        /\ UNCHANGED <<m_loggers, disk, dropped, inTime>>
    BY <1>5, <2>1, QuitThread DEF QuitTest, fileVars
  <2>3. Hand = {} /\ Queue = {}
    BY <2>2, OneMessage DEF Hand, InHand, Queue
  <2>4. ASSUME NEW log \in accepted
        PROVE  Settled(log) \/ log \in ToSet(m_loggers[log.id].buffer)
    <3>1. log \in dropped \/ \E id \in LoggerId : log \in Files(id)
      BY <2>3, Zenon DEF FlowInv, Written
    <3>2. ASSUME NEW id \in LoggerId, log \in Files(id)
          PROVE  log.id = id /\ (log \in ToSet(disk[id]) \/ log \in ToSet(m_loggers[id].buffer))
      BY <3>2, FileParts DEF FlowInv
    <3> QED
      BY <3>1, <3>2 DEF Settled
  <2>5. inTime \subseteq accepted
    BY DEF Phases
  <2> QED
    BY <2>2, <2>4, <2>5 DEF EndsSettled, Settled
<1> QED
  BY <1>3, <1>4, <1>5

-----------------------------------------------------------------------------
(* The theorems *)

LogInv == TypeInv /\ Numbered /\ Phases /\ Buffers /\ FlowInv /\ EndsSettled

LEMMA LogInit == Init => LogInv
BY TypeInit, NumberedInit, PhasesInit, BuffersInit, EndsInit, FlowInit DEF LogInv

LEMMA LogStep == LogInv /\ [Next]_vars => LogInv'
BY TypeStep, NumberedStep, PhasesStep, BuffersStep, EndsStep, FlowStep DEF LogInv

\* The state of the log queue stays within its types.
THEOREM TypeCorrect == Spec => []TypeInv
BY TypeInit, TypeStep, PTL DEF Spec

\* For any threads, loggers and levels: every message that PushLog accepted is in
\* the queue, in hand, in a buffer or file of its own logger or dropped, in one
\* of them only, and those of one thread are in the order in which it logged.
THEOREM AcceptedOnceInOrder == Spec => []AcceptedInOrder
<1>1. LogInv => AcceptedInOrder
  BY FlowIsOrder DEF LogInv, AcceptedInOrder
<1> QED
  BY <1>1, LogInit, LogStep, PTL DEF Spec

\* For any threads, loggers and levels: while the log thread sleeps no message is in
\* a buffer but those of loggers whose last flush failed, when it is gone none is,
\* and Stop returns when all that was accepted before it is settled and every file
\* is closed.
THEOREM RestSettles == Spec => []SettledAtRest
<1>1. LogInv => SettledAtRest
  BY DEF LogInv, Phases, Buffers, EndsSettled, SettledAtRest, NothingLeftBuffered,
         StopKeepsWhatCameInTime
<1> QED
  BY <1>1, LogInit, LogStep, PTL DEF Spec
=============================================================================
