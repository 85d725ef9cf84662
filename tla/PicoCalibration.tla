--------------------------- MODULE PicoCalibration ---------------------------
(***************************************************************************)
(* The IMUs and their calibration (src/pico/main.c, src/pico/lib/imu): the  *)
(* search for the two IMUs, the loading of their calibration, the gyro and  *)
(* magnetometer calibrations that run inside the main loop, the commands    *)
(* that start, end and save them, and the reboot.  Any I2C access may fail. *)
(***************************************************************************)
EXTENDS Integers

CONSTANTS
  Samples,      \* sample counts a gyro calibration may have
  BootSamples,  \* CONF_GYRO_CAL_SAMPLES
  None,
  MaxCommands   \* bound: commands

ASSUME PicoCalibrationAssumption ==
  /\ Samples \subseteq Nat \ {0}
  /\ BootSamples \in Samples
  /\ None \notin {"icm", "bno"}
  /\ MaxCommands \in Nat

VARIABLES
  flaky,       \* may an I2C access fail
  wired,       \* what is on each I2C bus
  imu,         \* what was opened on each bus; None if nothing
  cal,         \* calib_t of the ICM-20948
  left,        \* gyro_cal_left
  bno_mode,    \* operating mode of the BNO055: "config" or "ndof"
  flash,       \* the saved calib_t; None if there is none
  offsets,     \* are offsets of the BNO055 saved
  gyro_cal_running, gyro_cal_reply, mag_cal_running,
  commands,    \* commands handled
  asked,       \* samples of the running or last gyro calibration
  accepted,    \* gyro calibrations a command started
  answered,    \* and those that were answered
  last         \* the last answer: command and result

flags == <<gyro_cal_running, gyro_cal_reply, mag_cal_running>>
history == <<asked, accepted, answered>>
vars == <<flaky, wired, imu, cal, left, bno_mode, flash, offsets, flags, commands, history, last>>

Bus == {0, 1}
Devices == {"icm", "bno"}

\* calib_t: samples summed, gyro bias ("zero" until one was measured), the
\* magnetometer's box (does it have an extent in each axis) and its result.
Cal == [n : Nat, bias : {"zero", "measured"}, box : BOOLEAN, offset : {"zero", "measured"}]
CalOpen == [n |-> 0, bias |-> "zero", box |-> FALSE, offset |-> "zero"]

Icm(pair) == \E b \in Bus : pair[b] = "icm"
Bno(pair) == \E b \in Bus : pair[b] = "bno"

-----------------------------------------------------------------------------
(* detect_imus.  On a flaky bus imu_open may fail on a device that is there. *)

Found(pair) == {b \in Bus : pair[b] # None}
FoundFewer(p, q) == Found(p) # Found(q) /\ (Found(p) = {} \/ Found(q) = Bus)

\* imu_open of device t on bus b.
Open(t, b) ==
  IF wired[b] # t THEN {None} ELSE IF flaky THEN {t, None} ELSE {t}

OpenPair(t0, t1) ==
  {pair \in [Bus -> {t0, t1, None}] : pair[0] \in Open(t0, 0) /\ pair[1] \in Open(t1, 1)}

\* Mutant: the swapped pair is kept whatever it found.
DetectImus_KeepsSwapped ==
  {p \in OpenPair("bno", "icm") : Found(p) = Bus}
    \cup {q \in OpenPair("icm", "bno") :
            \E p \in OpenPair("bno", "icm") : Found(p) # Bus}

\* The pairs detect_imus may end with: the first, the swapped one unless it
\* found fewer, else the first tried again.
DetectImus ==
  LET first == OpenPair("bno", "icm")
      swapped == OpenPair("icm", "bno")
  IN  {p \in first : Found(p) = Bus}
        \cup {q \in swapped : \E p \in first : Found(p) # Bus /\ ~FoundFewer(q, p)}
        \cup {r \in first : \E p \in first, q \in swapped :
                              Found(p) # Bus /\ FoundFewer(q, p)}

-----------------------------------------------------------------------------
(* main up to the loop.                                                     *)

\* calib_gyro_begin
GyroBegun(c) == [c EXCEPT !.n = 0]

\* An ICM without a saved gyro bias, by the number of samples it was made of.
NeedsGyroCal(pair, c) == Icm(pair) /\ c.n = 0

\* imu_cal_load and the calibration at boot.  bno055_cal_set, called when there
\* are saved offsets, may leave the BNO055 in either mode.
Boot ==
  \E pair \in DetectImus, mode \in {"ndof"} \cup (IF flaky /\ offsets THEN {"config"} ELSE {}) :
    LET loaded == IF flash = None \/ ~Icm(pair) THEN CalOpen ELSE flash
        start == NeedsGyroCal(pair, loaded)
    IN  /\ imu' = pair
        /\ bno_mode' = mode
        /\ cal' = IF start THEN GyroBegun(loaded) ELSE loaded
        /\ left' = IF start THEN BootSamples ELSE 0
        /\ gyro_cal_running' = start
        /\ gyro_cal_reply' = FALSE
        /\ mag_cal_running' = FALSE
        /\ asked' = left' /\ accepted' = 0 /\ answered' = 0

\* The power is off, and the first step is a boot.
Init ==
  /\ flaky \in BOOLEAN
  /\ wired \in [Bus -> Devices \cup {None}]
  /\ imu = [b \in Bus |-> None]
  /\ cal = CalOpen /\ left = 0 /\ bno_mode = "ndof"
  /\ flash = None /\ offsets = FALSE
  /\ gyro_cal_running = FALSE /\ gyro_cal_reply = FALSE /\ mag_cal_running = FALSE
  /\ commands = 0 /\ asked = 0 /\ accepted = 0 /\ answered = 0
  /\ last = <<"power off", "none">>

PowerOn ==
  /\ last[1] = "power off"
  /\ Boot
  /\ last' = <<"power on", "none">>
  /\ UNCHANGED <<flaky, wired, flash, offsets, commands>>

Running == last[1] # "power off"

PowerOff ==
  /\ Running
  /\ last' = <<"power off", "none">>
  /\ UNCHANGED <<flaky, wired, imu, cal, left, bno_mode, flash, offsets, flags, commands, history>>

-----------------------------------------------------------------------------
(* calibration_step: outcomes of one pass of the main loop.                 *)

Reads == IF flaky THEN {TRUE, FALSE} ELSE {TRUE}

\* imu_cal_mag_update: a failed read or one without a valid field adds nothing,
\* and the box has an extent once two samples differ in each axis.
MagUpdated(c) == {c, [c EXCEPT !.box = TRUE]}

GyroOutcome(c, l, rc) == [cal |-> c, left |-> l, rc |-> rc]

\* Mutant: after a failed read the calibration starts again.
GyroUpdated_StartsAgain(c) ==
  {IF read
   THEN GyroOutcome([c EXCEPT !.n = @ + 1, !.bias = IF left = 1 THEN "measured" ELSE @],
                    left - 1, IF left = 1 THEN 1 ELSE 0)
   ELSE GyroOutcome(GyroBegun(c), asked, 0) : read \in Reads}

\* Mutant: the bias is the average of all samples but the last.
GyroUpdated_OneShort(c) ==
  {IF read /\ left > 1
   THEN GyroOutcome([c EXCEPT !.n = @ + 1, !.bias = IF left = 2 THEN "measured" ELSE @],
                    left - 1, IF left = 2 THEN 1 ELSE 0)
   ELSE GyroOutcome(c, left, 2) : read \in Reads}

\* imu_cal_gyro_update: rc is 2 for -1.
GyroUpdated(c) ==
  {IF left = 0 \/ ~read
   THEN GyroOutcome(c, left, 2)
   ELSE LET done == left = 1
        IN  GyroOutcome([c EXCEPT !.n = @ + 1, !.bias = IF done THEN "measured" ELSE @],
                        left - 1, IF done THEN 1 ELSE 0) : read \in Reads}

\* Mutant: gyro_cal_reply stays set.
GyroCalDone_KeepsReply(rc) ==
  /\ gyro_cal_running' = FALSE
  /\ UNCHANGED gyro_cal_reply
  /\ IF gyro_cal_reply
     THEN /\ answered' = answered + 1
          /\ last' = <<"gyro cal", IF rc = 1 THEN "ok" ELSE "failed">>
     ELSE UNCHANGED <<answered, last>>

\* The end of a gyro calibration, answered if a command started it.
GyroCalDone(rc) ==
  /\ gyro_cal_running' = FALSE
  /\ gyro_cal_reply' = FALSE
  /\ IF gyro_cal_reply
     THEN /\ answered' = answered + 1
          /\ last' = <<"gyro cal", IF rc = 1 THEN "ok" ELSE "failed">>
     ELSE UNCHANGED <<answered, last>>

CalibrationStep ==
  /\ Running
  /\ gyro_cal_running \/ mag_cal_running
  /\ \E c \in IF mag_cal_running THEN MagUpdated(cal) ELSE {cal} :
       IF gyro_cal_running
       THEN \E o \in GyroUpdated(c) :
              /\ cal' = o.cal
              /\ left' = o.left
              /\ IF o.rc = 0
                 THEN UNCHANGED <<gyro_cal_running, gyro_cal_reply, answered, last>>
                 ELSE GyroCalDone(o.rc)
       ELSE /\ cal' = c
            /\ UNCHANGED <<left, gyro_cal_running, gyro_cal_reply, answered, last>>
  /\ UNCHANGED <<flaky, wired, imu, bno_mode, flash, offsets, mag_cal_running, commands, asked, accepted>>

-----------------------------------------------------------------------------
(* on_command.                                                              *)

Command ==
  /\ Running
  /\ commands < MaxCommands
  /\ commands' = commands + 1
  /\ UNCHANGED <<flaky, wired, imu>>

Answer(command, result) == last' = <<command, result>>

Refuse(command, result) ==
  /\ Command
  /\ Answer(command, result)
  /\ UNCHANGED <<cal, left, bno_mode, flash, offsets, flags, history>>

NoDevice(command) == ~Icm(imu) /\ Refuse(command, "no device")

Busy(command) ==
  /\ Icm(imu)
  /\ mag_cal_running \/ gyro_cal_running
  /\ Refuse(command, "busy")

\* Mutant: a calibration may start while one runs.
Idle_Always == TRUE

Idle == ~mag_cal_running /\ ~gyro_cal_running

MagCalBegin ==
  \/ NoDevice("mag cal begin")
  \/ Busy("mag cal begin")
  \/ /\ Icm(imu) /\ Idle
     /\ Command
     /\ cal' = [cal EXCEPT !.box = FALSE]
     /\ mag_cal_running' = TRUE
     /\ Answer("mag cal begin", "ok")
     /\ UNCHANGED <<left, bno_mode, flash, offsets, gyro_cal_running, gyro_cal_reply, history>>

\* calib_mag_end keeps the old result when an axis has no extent; the answer is
\* the same.
MagCalEnd ==
  \/ NoDevice("mag cal end")
  \/ Icm(imu) /\ ~mag_cal_running /\ Refuse("mag cal end", "failed")
  \/ /\ Icm(imu) /\ mag_cal_running
     /\ Command
     /\ cal' = [cal EXCEPT !.offset = IF cal.box THEN "measured" ELSE @]
     /\ mag_cal_running' = FALSE
     /\ Answer("mag cal end", "ok")
     /\ UNCHANGED <<left, bno_mode, flash, offsets, gyro_cal_running, gyro_cal_reply, history>>

GyroCalStart(samples) ==
  /\ cal' = GyroBegun(cal)
  /\ left' = samples
  /\ asked' = samples

\* Answered when it is done.
GyroCal(samples) ==
  \/ NoDevice("gyro cal")
  \/ Busy("gyro cal")
  \/ /\ Icm(imu) /\ Idle
     /\ Command
     /\ GyroCalStart(samples)
     /\ gyro_cal_running' = TRUE /\ gyro_cal_reply' = TRUE
     /\ accepted' = accepted + 1
     /\ last' = <<"gyro cal", "started">>
     /\ UNCHANGED <<bno_mode, flash, offsets, mag_cal_running, answered>>

\* What imu_cal_save of each device may do.
IcmSave == IF Icm(imu) THEN {[ok |-> TRUE, flash |-> cal], [ok |-> FALSE, flash |-> flash]}
           ELSE {[ok |-> TRUE, flash |-> flash]}

SaveOutcome(ok, mode, kept) == [ok |-> ok, mode |-> mode, offsets |-> kept]

\* Mutant: bno055_cal_get does not look at the mode it goes back to.
BnoSave_IgnoresMode ==
  IF ~Bno(imu) THEN {SaveOutcome(TRUE, bno_mode, offsets)}
  ELSE {SaveOutcome(TRUE, mode, TRUE) : mode \in IF flaky THEN {"config", "ndof"} ELSE {"ndof"}}
         \cup {SaveOutcome(FALSE, "ndof", offsets)}

\* The offsets are read in config mode: the device may stay in the mode it was
\* in, or in config mode, and then the save fails; the flash may refuse them.
BnoSave ==
  IF ~Bno(imu) THEN {SaveOutcome(TRUE, bno_mode, offsets)}
  ELSE {SaveOutcome(TRUE, "ndof", TRUE), SaveOutcome(FALSE, "ndof", offsets)}
         \cup {SaveOutcome(FALSE, mode, offsets) :
                 mode \in IF flaky THEN {bno_mode, "config"} ELSE {}}

SaveCal ==
  /\ Command
  /\ \E i \in IcmSave, b \in BnoSave :
       /\ flash' = i.flash
       /\ bno_mode' = b.mode
       /\ offsets' = b.offsets
       /\ Answer("save cal", IF i.ok /\ b.ok THEN "ok" ELSE "failed")
  /\ UNCHANGED <<cal, left, flags, history>>

\* Replied, then watchdog_reboot.
Reboot ==
  /\ Running
  /\ commands < MaxCommands
  /\ commands' = commands + 1
  /\ Answer("reboot", "ok")
  /\ Boot
  /\ UNCHANGED <<flaky, wired, flash, offsets>>

Next ==
  \/ PowerOn \/ PowerOff
  \/ CalibrationStep
  \/ MagCalBegin \/ MagCalEnd
  \/ \E samples \in Samples : GyroCal(samples)
  \/ SaveCal
  \/ Reboot

Spec == Init /\ [][Next]_vars

\* The main loop goes round as long as the power is on.
FairSpec == Spec /\ WF_vars(CalibrationStep)

-----------------------------------------------------------------------------
\* Every variable has its type, one calibration runs at a time, and never
\* without the ICM it works on: the steps use icm without looking.
TypeOK ==
  /\ imu \in [Bus -> Devices \cup {None}]
  /\ cal \in Cal
  /\ left \in UNION {0 .. s : s \in Samples}
  /\ bno_mode \in {"config", "ndof"}
  /\ flash \in Cal \cup {None} /\ offsets \in BOOLEAN
  /\ flags \in [1 .. 3 -> BOOLEAN]
  /\ ~(gyro_cal_running /\ mag_cal_running)
  /\ gyro_cal_running \/ mag_cal_running => Icm(imu)

\* Every gyro calibration that a command started is answered once, at its end;
\* one that the boot started is not.
AnsweredOnce ==
  /\ gyro_cal_reply => gyro_cal_running
  /\ accepted = answered + IF gyro_cal_reply THEN 1 ELSE 0

\* The answer `ok` to a gyro calibration comes with a bias that is the average
\* of all the samples asked for.
OkAveragesAll ==
  [][answered' > answered /\ last'[2] = "ok"
       => cal'.n = asked /\ cal'.bias = "measured"]_vars

\* On a bus without failures every kind of IMU that is wired is found, on
\* either bus, alone or not.
ReliableBusFindsAll ==
  Running /\ ~flaky =>
    \A d \in Devices : (\E b \in Bus : wired[b] = d) => (\E b \in Bus : imu[b] = d)

\* A save that is answered `ok` leaves the BNO055 with its fusion on.
SaveOkKeepsFusion ==
  last = <<"save cal", "ok">> /\ Bno(imu) => bno_mode = "ndof"

\* A calibration that a command started ends, also when reads fail.
GyroCalEnds == gyro_cal_reply ~> ~gyro_cal_reply \/ ~Running

\* README 6.1: without a saved gyro bias the Pico starts a gyro calibration.
NoBiasIsMeasured == Icm(imu) /\ cal.bias = "zero" => asked > 0
=============================================================================
