------------------------------- MODULE ZeroLog -------------------------------
(***************************************************************************)
(* The two threads of the Zero (src/rpi/main.c) around its log              *)
(* (src/rpi/lib/log) and its radio (src/rpi/lib/lora): the main thread      *)
(* starts, logs and stops; the LoRa thread sends bursts of telemetry and    *)
(* lines of the LoRa queue.  Both log, also every register access of the    *)
(* radio does, and every line goes into the file and into the LoRa queue.   *)
(* A line is the thread that logged it.                                     *)
(***************************************************************************)
EXTENDS Naturals, Sequences

CONSTANTS
  Capacity,  \* CONF_LOG_LORA_QUEUE
  Burst      \* CONF_LORA_TELEMETRY_BURST

ASSUME ZeroLogAssumption == Capacity \in Nat \ {0} /\ Burst \in Nat \ {0}

VARIABLES
  running,   \* running: no signal came
  main,      \* place of the main thread
  lora,      \* the LoRa thread: place, packets left in the burst, has the log
             \* window just begun
  logging,   \* place of each thread in vlog
  lock,      \* holder of log_lock, or "free"
  log,       \* log_fp, lora_queue, and is anything in pending
  filed,     \* the last lines of the file that went into the queue too
  send,      \* lora_send: caller, kind of packet, next step, what it knows
  radio,     \* the SX1278 and the edges of its DIO0 line
  data       \* have_data

logs == <<logging, lock, log, filed>>
vars == <<running, main, lora, logs, send, radio, data>>

Thread == {"main", "lora"}

\* lora_send, step by step.  All but those in Silent log a line.
Steps == <<"standby", "map", "base", "pointer", "fifo", "length", "clear", "flush",
           "transmit", "wait", "flags", "clear", "standby", "report">>
Silent == {"fifo", "flush", "wait"}
FlagsStep == 11

NoSend == [by |-> "main", what |-> "none", step |-> 0, done |-> FALSE, late |-> FALSE]
Sending == send.step # 0

\* The last n elements of s.
Last(s, n) == SubSeq(s, IF Len(s) > n THEN Len(s) - n + 1 ELSE 1, Len(s))

Init ==
  /\ running = TRUE /\ main = "start"
  /\ lora = [at |-> "none", left |-> 0, fresh |-> FALSE]
  /\ logging = [t \in Thread |-> "out"] /\ lock = "free"
  /\ log = [file |-> "none", queue |-> <<>>, pending |-> FALSE]
  /\ filed = <<>>
  /\ send = NoSend
  /\ radio = [open |-> FALSE, mode |-> "standby", tx_done |-> FALSE, edges |-> 0,
              went |-> FALSE]
  /\ data = FALSE

-----------------------------------------------------------------------------
(* vlog.                                                                    *)

\* Mutant: the lock is not waited for.
LockFree_Always == TRUE

LockFree == lock = "free"

\* A full queue drops its oldest line.
Pushed(queue, line) ==
  Append(IF Len(queue) >= Capacity THEN Tail(queue) ELSE queue, line)

\* The line goes into the LoRa queue, unless there is no memory for it; the
\* oldest line is gone by then.
Push(t) ==
  /\ logging[t] = "enter"
  /\ LockFree
  /\ lock' = t
  /\ \/ /\ log' = [log EXCEPT !.queue = Pushed(@, t)]
        /\ logging' = [logging EXCEPT ![t] = "queued"]
     \/ /\ log' = [log EXCEPT !.queue = IF Len(@) >= Capacity THEN Tail(@) ELSE @]
        /\ logging' = [logging EXCEPT ![t] = "not queued"]
  /\ UNCHANGED <<running, main, lora, filed, send, radio, data>>

\* And into the file, or into pending when there is no file.
Write(t) ==
  /\ logging[t] \in {"queued", "not queued"}
  /\ IF log.file = "open"
     THEN /\ filed' = IF logging[t] = "queued" THEN Last(Append(filed, t), Capacity)
                      ELSE filed
          /\ UNCHANGED log
     ELSE log' = [log EXCEPT !.pending = TRUE] /\ UNCHANGED filed
  /\ lock' = "free"
  /\ logging' = [logging EXCEPT ![t] = "out"]
  /\ UNCHANGED <<running, main, lora, send, radio, data>>

Begin(t) == logging' = [logging EXCEPT ![t] = "enter"]
Quiet(t) == logging[t] = "out"

-----------------------------------------------------------------------------
(* lora_send and send_packet, called by thread send.by.                     *)

StartSend(t, what) ==
  send' = [by |-> t, what |-> what, step |-> 1, done |-> FALSE, late |-> FALSE]

\* The next step of the caller is the one called name.
At(name) == Sending /\ Steps[send.step] = name /\ Quiet(send.by)

\* The step is done, with the line it logs still to come.
Done(name, new) ==
  /\ send' = new
  /\ IF name \in Silent THEN UNCHANGED logging ELSE Begin(send.by)
  /\ UNCHANGED <<running, main, lora, lock, log, filed, data>>

Next1(s) == [s EXCEPT !.step = @ + 1]

Setup(name) ==
  /\ name \in {"map", "base", "pointer", "fifo", "length"}
  /\ At(name)
  /\ Done(name, Next1(send))
  /\ UNCHANGED radio

\* A transmission that is under way is cut off.
Standby ==
  /\ At("standby")
  /\ radio' = [radio EXCEPT !.mode = "standby"]
  /\ Done("standby", Next1(send))

ClearFlags ==
  /\ At("clear")
  /\ radio' = [radio EXCEPT !.tx_done = FALSE]
  /\ Done("clear", Next1(send))

\* Mutant: the edges of an earlier packet stay.
FlushDio0_Nothing ==
  /\ At("flush")
  /\ Done("flush", Next1(send))
  /\ UNCHANGED radio

FlushDio0 ==
  /\ At("flush")
  /\ radio' = [radio EXCEPT !.edges = 0]
  /\ Done("flush", Next1(send))

Transmit ==
  /\ At("transmit")
  /\ radio' = [radio EXCEPT !.mode = "transmit", !.went = FALSE]
  /\ Done("transmit", Next1(send))

\* gpio_wait_edge
WaitEdge ==
  /\ At("wait")
  /\ radio.edges > 0
  /\ radio' = [radio EXCEPT !.edges = @ - 1]
  /\ Done("wait", Next1(send))

\* No edge within the timeout, or a wait that failed or met a signal (gpio_wait_edge
\* returns no more than 0): the flags are not read.
WaitTimeout ==
  /\ At("wait")
  /\ radio.edges = 0
  /\ Done("wait", [send EXCEPT !.step = FlagsStep + 1, !.late = TRUE])
  /\ UNCHANGED radio

ReadFlags ==
  /\ At("flags")
  /\ Done("flags", [Next1(send) EXCEPT !.done = radio.tx_done])
  /\ UNCHANGED radio

\* send_packet logs the result.
Report ==
  /\ At("report")
  /\ Done("report", NoSend)
  /\ UNCHANGED radio

SendStep ==
  \/ \E i \in DOMAIN Steps : Setup(Steps[i])
  \/ Standby \/ ClearFlags \/ FlushDio0 \/ Transmit
  \/ WaitEdge \/ WaitTimeout \/ ReadFlags \/ Report

\* The radio: the packet has gone out.
TxDone ==
  /\ radio.mode = "transmit"
  /\ radio' = [radio EXCEPT !.mode = "standby", !.tx_done = TRUE, !.edges = @ + 1,
                            !.went = TRUE]
  /\ UNCHANGED <<running, main, lora, logs, send, data>>

-----------------------------------------------------------------------------
(* lora_thread.  A look at `running` and the call behind it are one step: a   *)
(* signal between the two comes to the same as one after the call.          *)

\* The thread is at this place and in no call.
LoraAt(place) ==
  lora.at = place /\ Quiet("lora") /\ ~(Sending /\ send.by = "lora")

LoraGoes(place) ==
  /\ lora' = [lora EXCEPT !.at = place, !.left = Burst, !.fresh = TRUE]
  /\ UNCHANGED <<running, main, logs, send, radio, data>>

\* Mutant: the thread does not look for the signal.
LoopTop_GoesOn ==
  /\ LoraAt("top")
  /\ LoraGoes(IF data THEN "burst" ELSE "window")

LoopTop ==
  /\ LoraAt("top")
  /\ LoraGoes(IF ~running THEN "done" ELSE IF data THEN "burst" ELSE "window")

Telemetry ==
  /\ LoraAt("burst")
  /\ running /\ lora.left > 0
  /\ lora' = [lora EXCEPT !.left = @ - 1]
  /\ StartSend("lora", "telemetry")
  /\ UNCHANGED <<running, main, logs, radio, data>>

BurstOver ==
  /\ LoraAt("burst")
  /\ ~running \/ lora.left = 0
  /\ LoraGoes("window")

LogPacket ==
  /\ LoraAt("window")
  /\ running
  /\ LockFree
  /\ log.queue # <<>>
  /\ log' = [log EXCEPT !.queue = Tail(@)]
  /\ lora' = [lora EXCEPT !.fresh = FALSE]
  /\ StartSend("lora", "log")
  /\ UNCHANGED <<running, main, logging, lock, filed, radio, data>>

NoLine ==
  /\ LoraAt("window")
  /\ LockFree
  /\ log.queue = <<>>
  /\ LoraGoes("top")

\* Mutant: the window ends only with the queue.
WindowOver_NoTime == LoraAt("window") /\ ~running /\ LoraGoes("top")

\* The time of the window is over, never before its first line: the window is
\* longer than the loop needs to look at the clock.
WindowOver ==
  /\ LoraAt("window")
  /\ ~running \/ ~lora.fresh
  /\ LoraGoes("top")

LoraStep == LoopTop \/ Telemetry \/ BurstOver \/ LogPacket \/ NoLine \/ WindowOver

-----------------------------------------------------------------------------
(* main.                                                                    *)

MainAt(place) ==
  main = place /\ Quiet("main") /\ ~(Sending /\ send.by = "main")

MainGoes(place) ==
  /\ main' = place
  /\ UNCHANGED <<running, lora, logging, lock, filed, send, data>>

\* The handlers and drivers of the main thread log at any place where it runs
\* code that may.
MainLogs ==
  /\ \E place \in {"no log", "lora open", "link open", "create", "loop", "close"} :
       MainAt(place)
  /\ Begin("main")
  /\ UNCHANGED <<running, main, lora, lock, log, filed, send, radio, data>>

OpenLog ==
  /\ MainAt("start")
  /\ \/ log' = [log EXCEPT !.file = "open"] /\ MainGoes("lora open")
     \/ UNCHANGED log /\ MainGoes("no log")
  /\ UNCHANGED radio

\* fail_without_log
SendFailure ==
  /\ MainAt("no log")
  /\ \/ /\ ~radio.open
        /\ radio' = [radio EXCEPT !.open = TRUE]
        /\ StartSend("main", "log")
        /\ UNCHANGED main
     \/ /\ radio' = [radio EXCEPT !.open = FALSE, !.mode = "standby"]
        /\ main' = "ended"
        /\ UNCHANGED send
  /\ UNCHANGED <<running, lora, logs, data>>

OpenLora ==
  /\ MainAt("lora open")
  /\ \E open \in BOOLEAN : radio' = [radio EXCEPT !.open = open]
  /\ MainGoes("link open")
  /\ UNCHANGED log

OpenLink ==
  /\ MainAt("link open")
  /\ MainGoes("create") \/ MainGoes("close")
  /\ UNCHANGED <<log, radio>>

Create ==
  /\ MainAt("create")
  /\ main' = "loop"
  /\ \/ radio.open /\ lora' = [at |-> "top", left |-> 0, fresh |-> FALSE]
     \/ UNCHANGED lora
  /\ UNCHANGED <<running, logs, send, radio, data>>

\* on_imu and on_gps, with the line they log at their end.
HaveData ==
  /\ MainAt("loop")
  /\ data' = TRUE
  /\ Begin("main")
  /\ UNCHANGED <<running, main, lora, lock, log, filed, send, radio>>

\* The line "stop".
LeaveLoop ==
  /\ MainAt("loop")
  /\ ~running
  /\ main' = "join"
  /\ Begin("main")
  /\ UNCHANGED <<running, lora, lock, log, filed, send, radio, data>>

\* Mutant: the LoRa thread is not waited for.
Join_DoesNotWait ==
  /\ MainAt("join")
  /\ MainGoes("close")
  /\ UNCHANGED <<log, radio>>

Join ==
  /\ MainAt("join")
  /\ lora.at \in {"none", "done"}
  /\ MainGoes("close")
  /\ UNCHANGED <<log, radio>>

\* lora_close
CloseRadio ==
  /\ MainAt("close")
  /\ radio' = [radio EXCEPT !.open = FALSE, !.mode = "standby"]
  /\ MainGoes("log close")
  /\ UNCHANGED log

CloseLog ==
  /\ MainAt("log close")
  /\ LockFree
  /\ log' = [log EXCEPT !.file = "closed", !.queue = <<>>]
  /\ MainGoes("ended")
  /\ UNCHANGED radio

\* SIGINT or SIGTERM, once their handlers are there.
Signal ==
  /\ main \notin {"start", "no log", "ended"}
  /\ running
  /\ running' = FALSE
  /\ UNCHANGED <<main, lora, logs, send, radio, data>>

MainStep ==
  OpenLog \/ SendFailure \/ OpenLora \/ OpenLink \/ Create
  \/ LeaveLoop \/ Join \/ CloseRadio \/ CloseLog

Next ==
  \/ \E t \in Thread : Push(t) \/ Write(t)
  \/ SendStep \/ TxDone
  \/ LoraStep
  \/ MainLogs \/ HaveData \/ Signal \/ MainStep

Spec == Init /\ [][Next]_vars

\* Both threads run; the lock goes to each that waits for it, since the other
\* does I/O between two lines; a handler of the main thread logs a bounded number
\* of lines and returns; the time of a window passes.
FairSpec ==
  /\ Spec
  /\ \A t \in Thread : SF_vars(Push(t)) /\ WF_vars(Write(t))
  /\ WF_vars(SendStep)
  /\ SF_vars(MainStep)
  /\ WF_vars(LoopTop) /\ WF_vars(Telemetry) /\ WF_vars(BurstOver)
  /\ SF_vars(LogPacket \/ NoLine) /\ SF_vars(WindowOver)

-----------------------------------------------------------------------------
\* Whenever no thread is in vlog's locked part, the LoRa queue is the end of the
\* file, but for lines that found no memory: both have the lines of the two
\* threads in the same order, and the queue has lost only the oldest ones.  It is
\* never longer than its limit.
QueueIsEndOfFile ==
  /\ lock = "free" /\ log.file = "open" => log.queue = Last(filed, Len(log.queue))
  /\ Len(log.queue) <= Capacity

\* send_packet reports `ok` only for a packet that has gone out, and `timeout` only
\* when the wait for it ended without an edge (its time was over, or it failed or
\* was interrupted), whatever an earlier packet left behind.
ReportIsRight ==
  At("report") => IF send.done THEN radio.went ELSE send.late

\* Nobody uses the radio after lora_close or logs after log_close.
ClosedIsUnused ==
  /\ Sending => radio.open
  /\ log.file = "closed" => ~log.pending /\ \A t \in Thread : Quiet(t)

\* After a signal the program ends: the join waits for a thread that comes to
\* its end, though its queue never empties.
StopEnds == ~running ~> main = "ended"

\* Telemetry and log lines take turns for ever: the window ends although every
\* packet puts new lines into the queue, and each round sends one line at least.
BothGoOn ==
  /\ lora.at = "window" /\ data ~> send.what = "telemetry" \/ ~running
  /\ lora.at = "burst" /\ log.queue # <<>> ~> send.what = "log" \/ ~running
=============================================================================
