------------------------ MODULE PicoCalibrationProofs ------------------------
(***************************************************************************)
(* The safety properties of PicoCalibration for every set of sample counts, *)
(* every wiring, and any number of commands, reboots and failed accesses.   *)
(***************************************************************************)
EXTENDS PicoCalibration, TLAPS

Left == UNION {0 .. s : s \in Samples}

HistoryOK ==
  /\ flaky \in BOOLEAN
  /\ wired \in [Bus -> Devices \cup {None}]
  /\ asked \in Nat /\ accepted \in Nat /\ answered \in Nat

\* A running gyro calibration has summed what it does not still have to read.
CountOK == gyro_cal_running => left > 0 /\ cal.n + left = asked

Inv ==
  /\ TypeOK
  /\ HistoryOK
  /\ AnsweredOnce
  /\ CountOK
  /\ ReliableBusFindsAll
  /\ SaveOkKeepsFusion

\* What is left of Inv when the answers are taken out: a boot brings it about.
BootedOK ==
  /\ imu \in [Bus -> Devices \cup {None}]
  /\ cal \in Cal
  /\ left \in Left
  /\ bno_mode \in {"config", "ndof"}
  /\ gyro_cal_running \in BOOLEAN /\ gyro_cal_reply = FALSE /\ mag_cal_running = FALSE
  /\ gyro_cal_running => Icm(imu)
  /\ asked \in Nat /\ accepted = 0 /\ answered = 0
  /\ CountOK

\* A device of each kind that is wired is found.
AllFound(pair) ==
  \A d \in Devices : (\E b \in Bus : wired[b] = d) => (\E b \in Bus : pair[b] = d)

-----------------------------------------------------------------------------
LEMMA LeftFacts ==
  /\ 0 \in Left
  /\ \A s \in Samples : s \in Left /\ s \in Nat /\ s > 0
  /\ \A l \in Left : l \in Nat /\ (l > 0 => l - 1 \in Left)
<1>1. Samples \subseteq Nat \ {0} /\ BootSamples \in Samples
  BY PicoCalibrationAssumption
<1>2. 0 \in 0 .. BootSamples
  BY <1>1
<1>3. \A s \in Samples : s \in 0 .. s /\ s \in Nat /\ s > 0
  BY <1>1
<1>4. ASSUME NEW l \in Left
      PROVE  l \in Nat /\ (l > 0 => l - 1 \in Left)
  <2>1. PICK s \in Samples : l \in 0 .. s
    BY DEF Left
  <2>2. l \in Nat /\ (l > 0 => l - 1 \in 0 .. s)
    BY <1>1, <2>1
  <2> QED BY <2>1, <2>2 DEF Left
<1> QED BY <1>1, <1>2, <1>3, <1>4 DEF Left

LEMMA FlagsType ==
  ASSUME NEW a \in BOOLEAN, NEW b \in BOOLEAN, NEW c \in BOOLEAN
  PROVE  <<a, b, c>> \in [1 .. 3 -> BOOLEAN]
OBVIOUS

LEMMA FlagsValue ==
  ASSUME TypeOK
  PROVE  /\ gyro_cal_running \in BOOLEAN
         /\ gyro_cal_reply \in BOOLEAN
         /\ mag_cal_running \in BOOLEAN
<1>1. flags[1] \in BOOLEAN /\ flags[2] \in BOOLEAN /\ flags[3] \in BOOLEAN
  BY DEF TypeOK
<1> QED BY <1>1 DEF flags

\* An answer is a pair: the command and its result.
LEMMA Pairs == \A a, b, x, y : <<a, b>> = <<x, y>> => a = x /\ b = y
OBVIOUS

\* Without an answer to come, as many were given as were asked for.
LEMMA NoneOwed ==
  gyro_cal_reply = FALSE /\ accepted \in Nat /\ answered \in Nat
    => (AnsweredOnce <=> accepted = answered)
<1> SUFFICES ASSUME gyro_cal_reply = FALSE, accepted \in Nat, answered \in Nat
             PROVE  AnsweredOnce <=> accepted = answered
  OBVIOUS
<1>1. (IF gyro_cal_reply THEN 1 ELSE 0) = 0
  OBVIOUS
<1>2. answered + (IF gyro_cal_reply THEN 1 ELSE 0) = answered
  BY <1>1
<1> QED BY <1>2, Zenon DEF AnsweredOnce

\* One that is to come is that of the calibration that runs.
LEMMA OneOwed ==
  ASSUME gyro_cal_reply = TRUE, accepted \in Nat, answered \in Nat
  PROVE  AnsweredOnce <=> gyro_cal_running /\ accepted = answered + 1
<1>1. (IF gyro_cal_reply THEN 1 ELSE 0) = 1
  OBVIOUS
<1>2. answered + (IF gyro_cal_reply THEN 1 ELSE 0) = answered + 1
  BY <1>1
<1> QED BY <1>2, Zenon DEF AnsweredOnce

-----------------------------------------------------------------------------
(* The search for the IMUs.                                                 *)

\* detect_imus ends with a pair of devices, if any.
LEMMA DetectImusType ==
  ASSUME NEW pair \in DetectImus
  PROVE  pair \in [Bus -> Devices \cup {None}]
<1>1. /\ OpenPair("bno", "icm") \subseteq [Bus -> Devices \cup {None}]
      /\ OpenPair("icm", "bno") \subseteq [Bus -> Devices \cup {None}]
  BY DEF OpenPair, Devices
<1>2. pair \in OpenPair("bno", "icm") \/ pair \in OpenPair("icm", "bno")
  BY DEF DetectImus
<1> QED BY <1>1, <1>2

\* On a reliable bus an open tells what is wired.
LEMMA ReliableOpen ==
  ASSUME ~flaky, NEW s \in Devices, NEW t \in Devices, NEW pair \in OpenPair(s, t)
  PROVE  /\ pair[0] = (IF wired[0] = s THEN s ELSE None)
         /\ pair[1] = (IF wired[1] = t THEN t ELSE None)
BY DEF OpenPair, Open

LEMMA ReliableDetect ==
  ASSUME ~flaky, NEW pair \in DetectImus
  PROVE  AllFound(pair)
<1> DEFINE First == OpenPair("bno", "icm")
           Swapped == OpenPair("icm", "bno")
<1>1. "icm" \in Devices /\ "bno" \in Devices /\ "icm" # "bno" /\ None \notin Devices
  BY PicoCalibrationAssumption DEF Devices
<1>2. \A p \in First : /\ p[0] = (IF wired[0] = "bno" THEN "bno" ELSE None)
                       /\ p[1] = (IF wired[1] = "icm" THEN "icm" ELSE None)
  BY <1>1, ReliableOpen
<1>3. \A q \in Swapped : /\ q[0] = (IF wired[0] = "icm" THEN "icm" ELSE None)
                         /\ q[1] = (IF wired[1] = "bno" THEN "bno" ELSE None)
  BY <1>1, ReliableOpen
<1> HIDE DEF First, Swapped
<1>4. \A p : /\ Found(p) = Bus <=> p[0] # None /\ p[1] # None
             /\ Found(p) = {} <=> p[0] = None /\ p[1] = None
  BY DEF Found, Bus
<1>5. \A p, q : FoundFewer(q, p) =>
                  (q[0] = None /\ q[1] = None) \/ (p[0] # None /\ p[1] # None)
  BY <1>4 DEF FoundFewer
<1>6. \A p, q : q[0] = None /\ q[1] = None /\ ~(p[0] = None /\ p[1] = None) => FoundFewer(q, p)
  BY <1>4 DEF FoundFewer
<1>7. CASE pair \in First /\ Found(pair) = Bus
  BY <1>1, <1>2, <1>4, <1>7 DEF AllFound, Devices, Bus
<1>8. CASE pair \in Swapped /\ \E p \in First : Found(p) # Bus /\ ~FoundFewer(pair, p)
  <2>1. PICK p \in First : Found(p) # Bus /\ ~FoundFewer(pair, p)
    BY <1>8
  <2> QED BY <1>1, <1>2, <1>3, <1>4, <1>6, <1>8, <2>1 DEF AllFound, Devices, Bus
<1>9. CASE /\ pair \in First
           /\ \E p \in First, q \in Swapped : Found(p) # Bus /\ FoundFewer(q, p)
  <2>1. PICK p \in First, q \in Swapped : Found(p) # Bus /\ FoundFewer(q, p)
    BY <1>9
  <2> QED BY <1>1, <1>2, <1>3, <1>4, <1>5, <1>9, <2>1 DEF AllFound, Devices, Bus
<1> QED BY <1>7, <1>8, <1>9 DEF DetectImus, First, Swapped

-----------------------------------------------------------------------------
(* The boot.                                                                *)

LEMMA BootOK ==
  ASSUME Inv, Boot
  PROVE  BootedOK' /\ (~flaky => AllFound(imu'))
<1>1. PICK pair \in DetectImus,
           mode \in {"ndof"} \cup (IF flaky /\ offsets THEN {"config"} ELSE {}) :
        LET loaded == IF flash = None \/ ~Icm(pair) THEN CalOpen ELSE flash
            start == NeedsGyroCal(pair, loaded)
        IN  /\ imu' = pair
            /\ bno_mode' = mode
            /\ cal' = IF start THEN GyroBegun(loaded) ELSE loaded
            /\ left' = IF start THEN BootSamples ELSE 0
            /\ gyro_cal_running' = start
            /\ gyro_cal_reply' = FALSE
            /\ mag_cal_running' = FALSE
            /\ asked' = left' /\ accepted' = 0 /\ answered' = 0
  BY Zenon DEF Boot
<1> DEFINE loaded == IF flash = None \/ ~Icm(pair) THEN CalOpen ELSE flash
           start == NeedsGyroCal(pair, loaded)
<1>2. loaded \in Cal
  BY DEF Inv, TypeOK, Cal, CalOpen
<1>3. start \in BOOLEAN /\ (start => Icm(pair) /\ loaded.n = 0)
  BY DEF NeedsGyroCal, Icm
<1> HIDE DEF loaded, start
<1>4. /\ imu' = pair /\ bno_mode' = mode
      /\ cal' = IF start THEN GyroBegun(loaded) ELSE loaded
      /\ left' = IF start THEN BootSamples ELSE 0
      /\ gyro_cal_running' = start
      /\ gyro_cal_reply' = FALSE /\ mag_cal_running' = FALSE
      /\ asked' = left' /\ accepted' = 0 /\ answered' = 0
  BY <1>1 DEF loaded, start
<1>5. GyroBegun(loaded) \in Cal /\ GyroBegun(loaded).n = 0
  BY <1>2 DEF GyroBegun, Cal
<1>6. cal' \in Cal /\ (start => cal'.n = 0)
  BY <1>2, <1>4, <1>5
<1>7. left' \in Left /\ left' \in Nat /\ (start => left' > 0)
  BY <1>4, LeftFacts, PicoCalibrationAssumption
<1>8. CountOK'
  BY <1>4, <1>6, <1>7 DEF CountOK
<1>9. imu' \in [Bus -> Devices \cup {None}] /\ bno_mode' \in {"config", "ndof"}
  BY <1>1, <1>4, DetectImusType
<1>10. gyro_cal_running' => Icm(imu')
  BY <1>3, <1>4
<1>11. BootedOK'
  BY <1>3, <1>4, <1>6, <1>7, <1>8, <1>9, <1>10 DEF BootedOK
<1>12. ~flaky => AllFound(imu')
  BY <1>1, <1>4, ReliableDetect
<1> QED BY <1>11, <1>12

\* Inv after a boot that PowerOn or Reboot makes.
LEMMA BootedInv ==
  ASSUME Inv, Boot, UNCHANGED <<flaky, wired, flash, offsets>>,
         last' = <<"power on", "none">> \/ last' = <<"reboot", "ok">>
  PROVE  Inv'
<1>1. BootedOK' /\ (~flaky => AllFound(imu'))
  BY BootOK
<1>2. TypeOK'
  <2>1. flags' \in [1 .. 3 -> BOOLEAN]
    BY <1>1, FlagsType DEF BootedOK, flags
  <2>2. flash' \in Cal \cup {None} /\ offsets' \in BOOLEAN
    BY DEF Inv, TypeOK
  <2> QED BY <1>1, <2>1, <2>2 DEF TypeOK, BootedOK, Left
<1>3. HistoryOK' /\ AnsweredOnce' /\ CountOK'
  <2>1. asked' \in Nat /\ accepted' = 0 /\ answered' = 0 /\ gyro_cal_reply' = FALSE /\ CountOK'
    BY <1>1 DEF BootedOK
  <2>2. HistoryOK'
    BY <2>1 DEF Inv, HistoryOK
  <2>3. AnsweredOnce'
    <3>1. (gyro_cal_reply = FALSE /\ accepted \in Nat /\ answered \in Nat
            => (AnsweredOnce <=> accepted = answered))'
      BY NoneOwed, PTL
    <3> QED BY <2>1, <3>1
  <2> QED BY <2>1, <2>2, <2>3
<1>4. ReliableBusFindsAll'
  BY <1>1 DEF ReliableBusFindsAll, AllFound
<1>5. SaveOkKeepsFusion'
  <2>1. <<"power on", "none">> # <<"save cal", "ok">> /\ <<"reboot", "ok">> # <<"save cal", "ok">>
    OBVIOUS
  <2> QED BY <2>1 DEF SaveOkKeepsFusion
<1> QED BY <1>2, <1>3, <1>4, <1>5 DEF Inv

-----------------------------------------------------------------------------
(* The other steps.                                                         *)

LEMMA InitOK == Init => Inv
<1> SUFFICES ASSUME Init PROVE Inv
  OBVIOUS
<1>1. imu \in [Bus -> Devices \cup {None}]
  BY DEF Init
<1>2. flags \in [1 .. 3 -> BOOLEAN]
  BY FlagsType DEF Init, flags
<1>3. cal \in Cal /\ left \in Left
  BY LeftFacts DEF Init, Cal, CalOpen
<1>4. TypeOK
  BY <1>1, <1>2, <1>3 DEF Init, TypeOK, Left
<1>5. last[1] = "power off" /\ last # <<"save cal", "ok">>
  BY DEF Init
<1>6. CountOK /\ HistoryOK
  BY DEF Init, CountOK, HistoryOK
<1>8. AnsweredOnce
  BY NoneOwed DEF Init
<1>7. ReliableBusFindsAll /\ SaveOkKeepsFusion
  BY <1>5 DEF ReliableBusFindsAll, SaveOkKeepsFusion, Running
<1> QED BY <1>4, <1>6, <1>7, <1>8 DEF Inv

LEMMA SummedType ==
  ASSUME NEW c \in Cal, NEW bias \in {"zero", "measured"}
  PROVE  /\ [c EXCEPT !.n = @ + 1, !.bias = bias] \in Cal
         /\ [c EXCEPT !.n = @ + 1, !.bias = bias].n = c.n + 1
         /\ [c EXCEPT !.n = @ + 1, !.bias = bias].bias = bias
<1> DEFINE more == [c EXCEPT !.n = @ + 1]
           d == [more EXCEPT !.bias = bias]
<1>1. more \in Cal /\ more.n = c.n + 1
  BY DEF Cal
<1> HIDE DEF more
<1>2. d \in Cal /\ d.n = more.n /\ d.bias = bias
  BY <1>1 DEF Cal
<1>3. d = [c EXCEPT !.n = @ + 1, !.bias = bias]
  BY DEF more
<1> HIDE DEF d
<1> QED BY <1>1, <1>2, <1>3

\* What GyroUpdated may return when a calibration runs: a sample was summed, it
\* was the last one, or the read failed.
LEMMA GyroUpdatedOK ==
  ASSUME NEW c \in Cal, NEW o \in GyroUpdated(c), left \in Nat, left > 0
  PROVE  \/ /\ o.rc = 0 /\ left > 1 /\ o.left = left - 1
            /\ o.cal \in Cal /\ o.cal.n = c.n + 1
         \/ /\ o.rc = 1 /\ left = 1 /\ o.left = left - 1
            /\ o.cal \in Cal /\ o.cal.n = c.n + 1 /\ o.cal.bias = "measured"
         \/ o.rc = 2 /\ o.left = left /\ o.cal = c
<1>1. PICK read \in Reads :
        o = IF left = 0 \/ ~read
            THEN GyroOutcome(c, left, 2)
            ELSE LET done == left = 1
                 IN  GyroOutcome([c EXCEPT !.n = @ + 1, !.bias = IF done THEN "measured" ELSE @],
                                 left - 1, IF done THEN 1 ELSE 0)
  BY DEF GyroUpdated
<1>2. CASE ~read
  BY <1>1, <1>2 DEF GyroOutcome
<1>3. CASE read /\ left = 1
  <2>1. o = GyroOutcome([c EXCEPT !.n = @ + 1, !.bias = "measured"], left - 1, 1)
    BY <1>1, <1>3
  <2>2. o.cal = [c EXCEPT !.n = @ + 1, !.bias = "measured"] /\ o.left = left - 1 /\ o.rc = 1
    BY <2>1 DEF GyroOutcome
  <2>3. o.cal \in Cal /\ o.cal.n = c.n + 1 /\ o.cal.bias = "measured"
    BY <2>2, SummedType
  <2> QED BY <1>3, <2>2, <2>3
<1>4. CASE read /\ left # 1
  <2>1. o = GyroOutcome([c EXCEPT !.n = @ + 1, !.bias = c.bias], left - 1, 0)
    BY <1>1, <1>4
  <2>2. o.cal = [c EXCEPT !.n = @ + 1, !.bias = c.bias] /\ o.left = left - 1 /\ o.rc = 0
    BY <2>1 DEF GyroOutcome
  <2>3. o.cal \in Cal /\ o.cal.n = c.n + 1
    <3>1. c.bias \in {"zero", "measured"}
      BY DEF Cal
    <3> DEFINE d == [c EXCEPT !.n = @ + 1, !.bias = c.bias]
    <3>2. d \in Cal /\ d.n = c.n + 1
      BY <3>1, SummedType
    <3>3. o.cal = d
      BY <2>2
    <3> HIDE DEF d
    <3> QED BY <3>2, <3>3
  <2> QED BY <1>4, <2>2, <2>3
<1>5. read \in BOOLEAN
  BY DEF Reads
<1> QED BY <1>2, <1>3, <1>4, <1>5

\* What a step must keep when it boots nothing: the parts of Inv that the answers
\* have no part in, from the variables they speak of.
LEMMA SameDevices ==
  ASSUME Inv, UNCHANGED <<flaky, wired, imu>>, Running
  PROVE  /\ ReliableBusFindsAll'
         /\ imu' \in [Bus -> Devices \cup {None}]
         /\ Icm(imu)' = Icm(imu) /\ Bno(imu)' = Bno(imu)
BY DEF Inv, TypeOK, ReliableBusFindsAll, Icm, Bno

\* A pass of the main loop, and the answer it may give.
LEMMA CalibrationStepOK ==
  ASSUME Inv, CalibrationStep
  PROVE  /\ Inv'
         /\ answered' > answered /\ last'[2] = "ok" =>
              cal'.n = asked /\ cal'.bias = "measured"
<1>1. /\ Running /\ (gyro_cal_running \/ mag_cal_running)
      /\ gyro_cal_running \in BOOLEAN /\ gyro_cal_reply \in BOOLEAN /\ mag_cal_running \in BOOLEAN
      /\ ~(gyro_cal_running /\ mag_cal_running)
      /\ cal \in Cal /\ left \in Left /\ left \in Nat
      /\ answered \in Nat /\ asked \in Nat
      /\ UNCHANGED <<flaky, wired, imu, bno_mode, flash, offsets, mag_cal_running, commands, asked, accepted>>
  BY FlagsValue, LeftFacts DEF Inv, TypeOK, HistoryOK, CalibrationStep, Left
<1>2. PICK c \in IF mag_cal_running THEN MagUpdated(cal) ELSE {cal} :
        IF gyro_cal_running
        THEN \E o \in GyroUpdated(c) :
               /\ cal' = o.cal
               /\ left' = o.left
               /\ IF o.rc = 0
                  THEN UNCHANGED <<gyro_cal_running, gyro_cal_reply, answered, last>>
                  ELSE GyroCalDone(o.rc)
        ELSE /\ cal' = c
             /\ UNCHANGED <<left, gyro_cal_running, gyro_cal_reply, answered, last>>
  BY Zenon DEF CalibrationStep
<1>3. c \in Cal /\ (~mag_cal_running => c = cal)
  BY <1>1, <1>2 DEF MagUpdated, Cal
<1>4. ReliableBusFindsAll' /\ imu' \in [Bus -> Devices \cup {None}] /\ Icm(imu)' = Icm(imu)
      /\ (answered' \in Nat => HistoryOK')
  <2>1. answered' \in Nat => HistoryOK'
    BY <1>1 DEF Inv, HistoryOK
  <2>2. ReliableBusFindsAll' /\ imu' \in [Bus -> Devices \cup {None}] /\ Icm(imu)' = Icm(imu)
    BY <1>1, SameDevices
  <2> QED BY <2>1, <2>2
<1>5. ASSUME cal' \in Cal, left' \in Left,
             gyro_cal_running' \in BOOLEAN, gyro_cal_reply' \in BOOLEAN,
             gyro_cal_running' => gyro_cal_running
      PROVE  TypeOK'
  <2>1. flags' \in [1 .. 3 -> BOOLEAN]
    BY <1>1, <1>5, FlagsType DEF flags
  <2> QED BY <1>1, <1>4, <1>5, <2>1 DEF Inv, TypeOK, Left
<1>6. CASE gyro_cal_running
  <2>1. left > 0 /\ cal.n + left = asked /\ c = cal
    BY <1>1, <1>3, <1>6 DEF Inv, CountOK
  <2>2. PICK o \in GyroUpdated(c) :
          /\ cal' = o.cal
          /\ left' = o.left
          /\ IF o.rc = 0
             THEN UNCHANGED <<gyro_cal_running, gyro_cal_reply, answered, last>>
             ELSE GyroCalDone(o.rc)
    BY <1>2, <1>6
  <2>3. \/ /\ o.rc = 0 /\ left > 1 /\ left' = left - 1
           /\ cal' \in Cal /\ cal'.n = cal.n + 1
        \/ /\ o.rc = 1 /\ left = 1 /\ left' = left - 1
           /\ cal' \in Cal /\ cal'.n = cal.n + 1 /\ cal'.bias = "measured"
        \/ o.rc = 2 /\ left' = left /\ cal' = cal
    BY <1>1, <1>3, <2>1, <2>2, GyroUpdatedOK
  <2>4. cal' \in Cal /\ left' \in Left
    BY <1>1, <2>3, LeftFacts
  <2>5. cal.n \in Nat
    BY <1>1 DEF Cal
  <2>6. CASE o.rc = 0
    <3>1. UNCHANGED <<gyro_cal_running, gyro_cal_reply, answered, last>>
      BY <2>2, <2>6
    <3>2. CountOK'
      BY <1>1, <2>1, <2>3, <2>5, <2>6, <3>1 DEF CountOK
    <3>3. TypeOK'
      BY <1>1, <1>5, <2>4, <3>1
    <3>4. AnsweredOnce' /\ SaveOkKeepsFusion' /\ HistoryOK'
      BY <1>1, <1>4, <3>1, SameDevices DEF Inv, AnsweredOnce, SaveOkKeepsFusion
    <3> QED BY <1>1, <1>4, <3>1, <3>2, <3>3, <3>4 DEF Inv
  <2>7. CASE o.rc # 0
    <3>1. /\ gyro_cal_running' = FALSE /\ gyro_cal_reply' = FALSE
          /\ IF gyro_cal_reply
             THEN /\ answered' = answered + 1
                  /\ last' = <<"gyro cal", IF o.rc = 1 THEN "ok" ELSE "failed">>
             ELSE UNCHANGED <<answered, last>>
      BY <2>2, <2>7 DEF GyroCalDone
    <3>2. TypeOK'
      BY <1>1, <1>5, <2>4, <3>1
    <3>3. CountOK'
      BY <3>1 DEF CountOK
    <3>4. AnsweredOnce' /\ HistoryOK'
      <4>1. accepted \in Nat /\ accepted' = accepted /\ answered' \in Nat
        <5>1. accepted \in Nat /\ accepted' = accepted
          BY <1>1 DEF Inv, HistoryOK
        <5>2. answered' = answered + 1 \/ answered' = answered
          BY <3>1
        <5> QED BY <1>1, <5>1, <5>2
      <4>2. accepted' = answered'
        <5>1. CASE gyro_cal_reply
          BY <1>1, <3>1, <4>1, <5>1, OneOwed DEF Inv
        <5>2. CASE ~gyro_cal_reply
          BY <1>1, <3>1, <4>1, <5>2, NoneOwed DEF Inv
        <5> QED BY <1>1, <5>1, <5>2
      <4>3. (gyro_cal_reply = FALSE /\ accepted \in Nat /\ answered \in Nat
              => (AnsweredOnce <=> accepted = answered))'
        BY NoneOwed, PTL
      <4> QED BY <1>4, <3>1, <4>1, <4>2, <4>3
    <3>5. SaveOkKeepsFusion'
      <4>1. CASE gyro_cal_reply
        <5>1. last' # <<"save cal", "ok">>
          BY <3>1, <4>1, Pairs
        <5> QED BY <5>1 DEF SaveOkKeepsFusion
      <4>2. CASE ~gyro_cal_reply
        BY <1>1, <3>1, <4>2, SameDevices DEF Inv, SaveOkKeepsFusion
      <4> QED BY <1>1, <4>1, <4>2
    <3>6. answered' > answered /\ last'[2] = "ok" => o.rc = 1
      <4>1. CASE gyro_cal_reply /\ o.rc # 1
        <5>1. last' = <<"gyro cal", "failed">>
          BY <3>1, <4>1
        <5>2. last'[2] = "failed"
          BY <5>1
        <5> QED BY <5>2
      <4>2. CASE ~gyro_cal_reply
        BY <1>1, <3>1, <4>2
      <4> QED BY <1>1, <4>1, <4>2
    <3> QED BY <1>1, <1>4, <2>1, <2>3, <2>5, <3>2, <3>3, <3>4, <3>5, <3>6 DEF Inv
  <2> QED BY <2>6, <2>7
<1>7. CASE ~gyro_cal_running
  <2>1. cal' = c /\ UNCHANGED <<left, gyro_cal_running, gyro_cal_reply, answered, last>>
    BY <1>2, <1>7
  <2>2. TypeOK'
    BY <1>1, <1>3, <1>5, <2>1
  <2>3. CountOK'
    BY <1>7, <2>1 DEF CountOK
  <2>4. AnsweredOnce' /\ SaveOkKeepsFusion' /\ HistoryOK'
    BY <1>1, <1>4, <2>1, SameDevices DEF Inv, AnsweredOnce, SaveOkKeepsFusion
  <2> QED BY <1>1, <1>4, <2>1, <2>2, <2>3, <2>4 DEF Inv
<1> QED BY <1>1, <1>6, <1>7

\* A command that boots nothing: what is left to show of it is the state of the
\* calibration and the answer.
LEMMA CommandOK ==
  ASSUME Inv, Running, UNCHANGED <<flaky, wired, imu>>,
         cal' \in Cal, left' \in Left, bno_mode' \in {"config", "ndof"},
         flash' \in Cal \cup {None}, offsets' \in BOOLEAN,
         gyro_cal_running' \in BOOLEAN, gyro_cal_reply' \in BOOLEAN, mag_cal_running' \in BOOLEAN,
         ~(gyro_cal_running' /\ mag_cal_running'),
         gyro_cal_running' \/ mag_cal_running' => Icm(imu),
         asked' \in Nat, accepted' \in Nat, answered' \in Nat,
         AnsweredOnce', CountOK', SaveOkKeepsFusion'
  PROVE  Inv'
<1>1. flags' \in [1 .. 3 -> BOOLEAN]
  BY FlagsType DEF flags
<1>2. ReliableBusFindsAll' /\ imu' \in [Bus -> Devices \cup {None}] /\ Icm(imu)' = Icm(imu)
  BY SameDevices
<1>3. TypeOK'
  BY <1>1, <1>2 DEF TypeOK, Left
<1>4. HistoryOK'
  BY DEF Inv, HistoryOK
<1> QED BY <1>2, <1>3, <1>4 DEF Inv

\* What the commands need to know of the state they begin in.
LEMMA Before ==
  ASSUME Inv
  PROVE  /\ cal \in Cal /\ left \in Left /\ bno_mode \in {"config", "ndof"}
         /\ flash \in Cal \cup {None} /\ offsets \in BOOLEAN
         /\ gyro_cal_running \in BOOLEAN /\ gyro_cal_reply \in BOOLEAN
         /\ mag_cal_running \in BOOLEAN
         /\ ~(gyro_cal_running /\ mag_cal_running)
         /\ gyro_cal_running \/ mag_cal_running => Icm(imu)
         /\ asked \in Nat /\ accepted \in Nat /\ answered \in Nat
         /\ AnsweredOnce /\ CountOK
BY FlagsValue DEF Inv, TypeOK, HistoryOK, Left

\* An answer that is not that of a save says nothing about the fusion.
LEMMA OtherAnswer ==
  ASSUME NEW command, NEW result, Answer(command, result), command # "save cal"
  PROVE  SaveOkKeepsFusion'
<1>1. last' # <<"save cal", "ok">>
  BY Pairs DEF Answer
<1> QED BY <1>1 DEF SaveOkKeepsFusion

LEMMA RefuseOK ==
  ASSUME Inv, NEW command, NEW result, Refuse(command, result), command # "save cal"
  PROVE  Inv'
<1>1. /\ Running /\ UNCHANGED <<flaky, wired, imu>>
      /\ UNCHANGED <<cal, left, bno_mode, flash, offsets>>
      /\ UNCHANGED <<gyro_cal_running, gyro_cal_reply, mag_cal_running>>
      /\ UNCHANGED <<asked, accepted, answered>>
  BY DEF Refuse, Command, flags, history
<1>2. SaveOkKeepsFusion'
  BY OtherAnswer DEF Refuse
<1>3. AnsweredOnce' /\ CountOK'
  BY <1>1, Before DEF AnsweredOnce, CountOK
<1> QED BY <1>1, <1>2, <1>3, Before, CommandOK

LEMMA MagCalBeginOK ==
  ASSUME Inv, MagCalBegin
  PROVE  Inv'
<1>1. CASE NoDevice("mag cal begin") \/ Busy("mag cal begin")
  BY <1>1, RefuseOK DEF NoDevice, Busy
<1>2. CASE /\ Icm(imu) /\ Idle
           /\ Command
           /\ cal' = [cal EXCEPT !.box = FALSE]
           /\ mag_cal_running' = TRUE
           /\ Answer("mag cal begin", "ok")
           /\ UNCHANGED <<left, bno_mode, flash, offsets, gyro_cal_running, gyro_cal_reply, history>>
  <2>1. /\ Running /\ UNCHANGED <<flaky, wired, imu>>
        /\ UNCHANGED <<left, bno_mode, flash, offsets, gyro_cal_running, gyro_cal_reply>>
        /\ UNCHANGED <<asked, accepted, answered>>
        /\ ~gyro_cal_running /\ Icm(imu) /\ mag_cal_running' = TRUE
    BY <1>2 DEF Command, history, Idle
  <2>2. cal' \in Cal
    BY <1>2, Before DEF Cal
  <2>3. SaveOkKeepsFusion'
    BY <1>2, OtherAnswer
  <2>4. AnsweredOnce' /\ CountOK'
    BY <2>1, Before DEF AnsweredOnce, CountOK
  <2> QED BY <2>1, <2>2, <2>3, <2>4, Before, CommandOK
<1> QED BY <1>1, <1>2 DEF MagCalBegin

LEMMA MagCalEndOK ==
  ASSUME Inv, MagCalEnd
  PROVE  Inv'
<1>1. CASE \/ NoDevice("mag cal end")
           \/ Icm(imu) /\ ~mag_cal_running /\ Refuse("mag cal end", "failed")
  BY <1>1, RefuseOK DEF NoDevice
<1>2. CASE /\ Icm(imu) /\ mag_cal_running
           /\ Command
           /\ cal' = [cal EXCEPT !.offset = IF cal.box THEN "measured" ELSE @]
           /\ mag_cal_running' = FALSE
           /\ Answer("mag cal end", "ok")
           /\ UNCHANGED <<left, bno_mode, flash, offsets, gyro_cal_running, gyro_cal_reply, history>>
  <2>1. /\ Running /\ UNCHANGED <<flaky, wired, imu>>
        /\ UNCHANGED <<left, bno_mode, flash, offsets, gyro_cal_running, gyro_cal_reply>>
        /\ UNCHANGED <<asked, accepted, answered>>
        /\ ~gyro_cal_running /\ Icm(imu) /\ mag_cal_running' = FALSE
    BY <1>2, Before DEF Command, history
  <2>2. cal' \in Cal
    BY <1>2, Before DEF Cal
  <2>3. SaveOkKeepsFusion'
    BY <1>2, OtherAnswer
  <2>4. AnsweredOnce' /\ CountOK'
    BY <2>1, Before DEF AnsweredOnce, CountOK
  <2> QED BY <2>1, <2>2, <2>3, <2>4, Before, CommandOK
<1> QED BY <1>1, <1>2 DEF MagCalEnd

LEMMA GyroCalOK ==
  ASSUME Inv, NEW samples \in Samples, GyroCal(samples)
  PROVE  Inv'
<1>1. CASE NoDevice("gyro cal") \/ Busy("gyro cal")
  BY <1>1, RefuseOK DEF NoDevice, Busy
<1>2. CASE /\ Icm(imu) /\ Idle
           /\ Command
           /\ GyroCalStart(samples)
           /\ gyro_cal_running' = TRUE /\ gyro_cal_reply' = TRUE
           /\ accepted' = accepted + 1
           /\ last' = <<"gyro cal", "started">>
           /\ UNCHANGED <<bno_mode, flash, offsets, mag_cal_running, answered>>
  <2>1. /\ Running /\ UNCHANGED <<flaky, wired, imu>>
        /\ UNCHANGED <<bno_mode, flash, offsets, mag_cal_running, answered>>
        /\ ~gyro_cal_running /\ ~mag_cal_running /\ Icm(imu)
        /\ gyro_cal_running' = TRUE /\ gyro_cal_reply' = TRUE
        /\ accepted' = accepted + 1 /\ left' = samples /\ asked' = samples
    BY <1>2 DEF Command, Idle, GyroCalStart
  <2>2. cal' \in Cal /\ cal'.n = 0
    BY <1>2, Before DEF Cal, GyroCalStart, GyroBegun
  <2>3. SaveOkKeepsFusion'
    BY <1>2, OtherAnswer DEF Answer
  <2>4. samples \in Left /\ samples \in Nat /\ samples > 0
    BY LeftFacts
  <2>5. gyro_cal_reply = FALSE /\ accepted = answered
    BY <2>1, Before DEF AnsweredOnce
  <2>6. AnsweredOnce' /\ CountOK'
    BY <2>1, <2>2, <2>4, <2>5 DEF AnsweredOnce, CountOK
  <2>7. accepted' \in Nat
    BY <2>1, Before
  <2> QED BY <2>1, <2>2, <2>3, <2>4, <2>6, <2>7, Before, CommandOK
<1> QED BY <1>1, <1>2 DEF GyroCal

LEMMA SaveCalOK ==
  ASSUME Inv, SaveCal
  PROVE  Inv'
<1>1. /\ Running /\ UNCHANGED <<flaky, wired, imu>>
      /\ UNCHANGED <<cal, left, gyro_cal_running, gyro_cal_reply, mag_cal_running>>
      /\ UNCHANGED <<asked, accepted, answered>>
  BY DEF SaveCal, Command, flags, history
<1>2. PICK i \in IcmSave, b \in BnoSave :
        /\ flash' = i.flash
        /\ bno_mode' = b.mode
        /\ offsets' = b.offsets
        /\ Answer("save cal", IF i.ok /\ b.ok THEN "ok" ELSE "failed")
  BY DEF SaveCal
<1>3. i.flash \in Cal \cup {None}
  BY Before DEF IcmSave
<1>4. /\ b.mode \in {"config", "ndof"} /\ b.offsets \in BOOLEAN
      /\ b.ok = TRUE => b.mode = "ndof" \/ (~Bno(imu) /\ b.mode = bno_mode)
      /\ b.ok \in BOOLEAN
  <2>1. CASE ~Bno(imu)
    <3>1. b = [ok |-> TRUE, mode |-> bno_mode, offsets |-> offsets]
      BY <2>1 DEF BnoSave, SaveOutcome
    <3> QED BY <2>1, <3>1, Before
  <2>2. CASE Bno(imu)
    <3>1. \/ b = SaveOutcome(TRUE, "ndof", TRUE)
          \/ b = SaveOutcome(FALSE, "ndof", offsets)
          \/ \E mode \in {bno_mode, "config"} : b = SaveOutcome(FALSE, mode, offsets)
      BY <2>2 DEF BnoSave
    <3>2. CASE b = SaveOutcome(TRUE, "ndof", TRUE)
      BY <3>2 DEF SaveOutcome
    <3>3. CASE \E mode \in {bno_mode, "config", "ndof"} : b = SaveOutcome(FALSE, mode, offsets)
      <4>1. PICK mode \in {bno_mode, "config", "ndof"} :
              b = [ok |-> FALSE, mode |-> mode, offsets |-> offsets]
        BY <3>3 DEF SaveOutcome
      <4>2. b.ok = FALSE /\ b.mode = mode /\ b.offsets = offsets
        BY <4>1
      <4> QED BY <4>2, Before
    <3> QED BY <3>1, <3>2, <3>3
  <2> QED BY <2>1, <2>2
<1>5. SaveOkKeepsFusion'
  <2>1. CASE i.ok /\ b.ok
    BY <1>1, <1>2, <1>4, <2>1 DEF SaveOkKeepsFusion, Bno
  <2>2. CASE ~(i.ok /\ b.ok)
    <3>1. last' # <<"save cal", "ok">>
      BY <1>2, <2>2, Pairs DEF Answer
    <3> QED BY <3>1 DEF SaveOkKeepsFusion
  <2> QED BY <2>1, <2>2
<1>6. AnsweredOnce' /\ CountOK'
  BY <1>1, Before DEF AnsweredOnce, CountOK
<1> QED BY <1>1, <1>2, <1>3, <1>4, <1>5, <1>6, Before, CommandOK

LEMMA PowerOffOK ==
  ASSUME Inv, PowerOff
  PROVE  Inv'
<1>1. /\ UNCHANGED <<flaky, wired, imu, cal, left, bno_mode, flash, offsets>>
      /\ UNCHANGED <<gyro_cal_running, gyro_cal_reply, mag_cal_running>>
      /\ UNCHANGED <<asked, accepted, answered>>
      /\ last'[1] = "power off" /\ last' # <<"save cal", "ok">>
  BY DEF PowerOff, flags, history
<1>2. TypeOK' /\ HistoryOK' /\ AnsweredOnce' /\ CountOK'
  BY <1>1 DEF Inv, TypeOK, HistoryOK, AnsweredOnce, CountOK, Icm, flags
<1>3. ReliableBusFindsAll' /\ SaveOkKeepsFusion'
  BY <1>1 DEF ReliableBusFindsAll, SaveOkKeepsFusion, Running
<1> QED BY <1>2, <1>3 DEF Inv

LEMMA StepOK == Inv /\ [Next]_vars => Inv'
<1> SUFFICES ASSUME Inv, [Next]_vars PROVE Inv'
  OBVIOUS
<1>1. CASE PowerOn
  BY <1>1, BootedInv DEF PowerOn
<1>2. CASE PowerOff
  BY <1>2, PowerOffOK
<1>3. CASE CalibrationStep
  BY <1>3, CalibrationStepOK
<1>4. CASE MagCalBegin \/ MagCalEnd
  BY <1>4, MagCalBeginOK, MagCalEndOK
<1>5. CASE \E samples \in Samples : GyroCal(samples)
  BY <1>5, GyroCalOK
<1>6. CASE SaveCal
  BY <1>6, SaveCalOK
<1>7. CASE Reboot
  BY <1>7, BootedInv DEF Reboot, Answer
<1>8. CASE UNCHANGED vars
  BY <1>8 DEF vars, flags, history, Inv, TypeOK, HistoryOK, AnsweredOnce, CountOK,
              ReliableBusFindsAll, SaveOkKeepsFusion, Running, Icm, Bno
<1> QED BY <1>1, <1>2, <1>3, <1>4, <1>5, <1>6, <1>7, <1>8 DEF Next

\* Inv holds in every state PicoCalibration reaches.
LEMMA Inductive == Spec => []Inv
BY InitOK, StepOK, PTL DEF Spec

\* Every variable keeps its type, one calibration runs at a time, and never
\* without the ICM it works on, whatever fails and whenever the power goes.
THEOREM OneCalibrationAtATime == Spec => []TypeOK
<1>1. Inv => TypeOK
  BY DEF Inv
<1> QED BY <1>1, Inductive, PTL

\* Each gyro calibration that a command started is answered once.
THEOREM CalibrationsAreAnsweredOnce == Spec => []AnsweredOnce
<1>1. Inv => AnsweredOnce
  BY DEF Inv
<1> QED BY <1>1, Inductive, PTL

\* detect_imus finds each kind of IMU that is wired to a bus without failures.
THEOREM ReliableBusIsSearched == Spec => []ReliableBusFindsAll
<1>1. Inv => ReliableBusFindsAll
  BY DEF Inv
<1> QED BY <1>1, Inductive, PTL

\* bno055_cal_get returns 0 only with the fusion on again.
THEOREM FusionIsKept == Spec => []SaveOkKeepsFusion
<1>1. Inv => SaveOkKeepsFusion
  BY DEF Inv
<1> QED BY <1>1, Inductive, PTL

\* An `ok` to a gyro calibration averages all the samples asked for.
THEOREM OkIsAverageOfAll == Spec => OkAveragesAll
<1> DEFINE A == answered' > answered /\ last'[2] = "ok" =>
                  cal'.n = asked /\ cal'.bias = "measured"
<1>1. Inv /\ [Next]_vars => [A]_vars
  <2> SUFFICES ASSUME Inv, Next PROVE A
    BY DEF Next
  <2>1. CASE CalibrationStep
    BY <2>1, CalibrationStepOK
  <2>2. CASE PowerOn \/ Reboot
    <3>1. answered' = 0 /\ answered \in Nat
      BY <2>2, BootOK, Before DEF PowerOn, Reboot, BootedOK
    <3> QED BY <3>1
  <2>3. ASSUME answered' = answered
        PROVE  A
    BY <2>3, Before
  <2>4. CASE PowerOff \/ MagCalBegin \/ MagCalEnd \/ SaveCal
    <3>1. answered' = answered
      BY <2>4 DEF PowerOff, MagCalBegin, MagCalEnd, SaveCal, NoDevice, Busy, Refuse, history
    <3> QED BY <2>3, <3>1
  <2>5. CASE \E samples \in Samples : GyroCal(samples)
    <3>1. answered' = answered
      BY <2>5 DEF GyroCal, NoDevice, Busy, Refuse, history
    <3> QED BY <2>3, <3>1
  <2> QED BY <2>1, <2>2, <2>4, <2>5 DEF Next
<1> QED BY <1>1, Inductive, PTL DEF Spec, OkAveragesAll
=============================================================================
