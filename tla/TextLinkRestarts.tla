-------------------------- MODULE TextLinkRestarts --------------------------
(***************************************************************************)
(* TextLink when a process starts again: systemd restarts the Zero's        *)
(* program, or the Pico reboots (command, watchdog, power).  A process that *)
(* starts again knows nothing of the counters its peer still has.  Lines    *)
(* keep their numbers over a reboot, so a new boot logs new lines.  The log *)
(* of the Zero is the file and the buffer in front of it (write_line), which *)
(* the end of the program may leave unwritten.                              *)
(***************************************************************************)
EXTENDS TextLink, FiniteSets

CONSTANTS
  MaxZeroRestarts,  \* bound: restarts of the Zero's program
  MaxPicoReboots,   \* bound: reboots of the Pico
  MaxCut            \* bound: lines the Zero has lost when another write may fail

ASSUME RestartsAssumption ==
  MaxZeroRestarts \in Nat /\ MaxPicoReboots \in Nat /\ MaxCut \in Nat

VARIABLES
  zero_restarts,  \* restarts so far
  pico_reboots,   \* reboots so far
  lost,           \* lines that were in the Pico's queue when it rebooted
  flushed,        \* lines at the front of zero.log that have left the buffer
  cut             \* lines the Zero took and lost: with its end, or to a failed write

restart_vars == <<zero_restarts, pico_reboots, lost, flushed, cut>>
all_vars == <<vars, restart_vars>>

RInit ==
  /\ Init
  /\ zero_restarts = 0
  /\ pico_reboots = 0
  /\ lost = {}
  /\ flushed = 0
  /\ cut = {}

Queued == {pico.queue[i].id : i \in DOMAIN pico.queue}

\* The line being written, if there is one.
BeingWritten == {zero.writing} \ {NoLine}

\* CONF_LOG_FLUSH_MS have passed since the last flush: write_line flushes the
\* buffer behind the line it has put there.
FlushDue == flushed' = Len(zero'.log)

ZeroWriteFlush ==
  /\ ZeroWrite
  /\ FlushDue
  /\ UNCHANGED <<zero_restarts, pico_reboots, lost, cut>>

\* A line of the Zero's own, which any of its handlers and threads logs at any
\* time, flushes what is in front of it.
OwnLineFlush ==
  /\ flushed < Len(zero.log)
  /\ UNCHANGED <<vars, zero_restarts, pico_reboots, lost, cut>>
  /\ FlushDue

\* The Zero has lost the line being written and its log behind the first lines.
Lose(kept) ==
  cut' = cut \cup BeingWritten \cup {zero.log[i] : i \in kept + 1 .. Len(zero.log)}

\* The file does not take what write_line, for this line or one of the Zero's own,
\* puts out: the buffer may be gone with it.  on_text does not ask and goes on.
ZeroWriteFails ==
  /\ Cardinality(cut) < MaxCut
  /\ \E kept \in flushed .. Len(zero.log) :
       /\ zero' = [zero EXCEPT !.log = SubSeq(@, 1, kept), !.writing = NoLine]
       /\ Lose(kept)
  /\ UNCHANGED <<pico, phase, losses, zero_restarts, pico_reboots, lost, flushed>>

\* The program ends, by a signal that lets it close its log or by a crash or
\* kill, which takes the line being written and what is in the buffer; a buffer
\* that was full has put a part of that into the file before.  The new program
\* opens a file of its own.  It opens the port anew: tcflush (TCIOFLUSH) drops
\* what has arrived and what is not yet sent, so texts are lost from the front
\* of the wire and acks from its back.
ZeroRestart ==
  /\ zero_restarts < MaxZeroRestarts
  /\ \E n \in 0 .. Len(pico.out) :
       pico' = [pico EXCEPT !.out = SubSeq(@, n + 1, Len(@))]
  /\ \E kept \in flushed .. Len(zero.log), n \in 0 .. Len(zero.out) :
       /\ zero' = [ZeroStart EXCEPT !.log = SubSeq(zero.log, 1, kept),
                                    !.out = SubSeq(zero.out, 1, n)]
       /\ flushed' = kept
       /\ Lose(kept)
  /\ zero_restarts' = zero_restarts + 1
  /\ UNCHANGED <<phase, losses, pico_reboots, lost>>

\* The queue is in RAM.  Bytes on the wire stay there; acks that arrive while
\* the Pico is not running are lost.
PicoReboot ==
  /\ pico_reboots < MaxPicoReboots
  /\ \E len \in LineLengths, n \in 0 .. Len(pico.out) :
       pico' = [PicoBoot(pico.logged + 1, len) EXCEPT !.out = SubSeq(pico.out, 1, n)]
  /\ \E n \in 0 .. Len(zero.out) :
       zero' = [zero EXCEPT !.out = SubSeq(@, n + 1, Len(@))]
  /\ phase' = "setup"
  /\ lost' = lost \cup Queued
  /\ pico_reboots' = pico_reboots + 1
  /\ UNCHANGED <<losses, zero_restarts, flushed, cut>>

RNext ==
  \/ Next /\ UNCHANGED restart_vars
  \/ ZeroWriteFlush
  \/ OwnLineFlush
  \/ ZeroWriteFails
  \/ ZeroRestart
  \/ PicoReboot

RSpec == RInit /\ [][RNext]_all_vars

\* As in TextLink; both processes are started again and not for ever.  The Zero
\* logs lines of its own for ever: each frame it receives, and each step of its
\* radio.
RFairness ==
  /\ WF_all_vars(SetupDone /\ UNCHANGED restart_vars)
  /\ WF_all_vars(StepsDone /\ UNCHANGED restart_vars)
  /\ SF_all_vars(\E len \in LineLengths, o \in Outcome, sent \in BOOLEAN :
                   PicoReceive(len, o, sent) /\ UNCHANGED restart_vars)
  /\ SF_all_vars(PicoPoll(Good) /\ UNCHANGED restart_vars)
  /\ SF_all_vars(ZeroReceive(TRUE) /\ UNCHANGED restart_vars)
  /\ WF_all_vars(ZeroWrite /\ UNCHANGED restart_vars)
  /\ WF_all_vars(OwnLineFlush)

RFairSpec == RSpec /\ RFairness

-----------------------------------------------------------------------------
\* Lines that left the Pico's queue because of an ack.
Confirmed == (1 .. Released) \ lost

\* Lines in the Zero's log, and those no end of its program can take from it.
Written == {zero.log[i] : i \in DOMAIN zero.log}
Durable == {zero.log[i] : i \in 1 .. flushed}

\* A line the Pico was told is confirmed is in the Zero's log or is being
\* written, if the Zero has not lost it since: handle_frame confirms it before
\* on_text logs it, and write_line leaves it in a buffer.
ConfirmedIsTaken ==
  Confirmed \subseteq Written \cup BeingWritten \cup cut

\* So it is until the Pico reboots, whatever acks and texts a restart of the Zero
\* leaves on the wire.
ConfirmedBeforeReboot == pico_reboots = 0 => ConfirmedIsTaken

\* A line is in the log twice only if the Zero forgot that it had taken it: at
\* most one line for each restart of its program, whatever the Pico does.
TwiceOnlyByRestart ==
  Len(zero.log) - Cardinality(Written) <= zero_restarts

\* As long as only the Zero is restarted, every line leaves the Zero's buffer for
\* the file, or the Zero took it and lost it: the two counters find each other
\* again, and the Pico does not stop.  What is durable or cut stays so, and the
\* lines are bounded: it is enough that again and again none is left.
EveryLineSettled ==
  []<>(pico_reboots > 0 \/ 1 .. pico.logged \subseteq Durable \cup cut)
=============================================================================
