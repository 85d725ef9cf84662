---------------------------- MODULE PicoSettings ----------------------------
(***************************************************************************)
(* The settings of the Pico (src/pico/main.c): a `set` request is applied   *)
(* to its device, stored in the flash and only then made the current        *)
(* setting; when a device or the flash refuses it, the old value goes back. *)
(* Every I2C write may fail, the GPS module may miss a message, and its ACK *)
(* may be lost or come after the time for it.                               *)
(***************************************************************************)
EXTENDS Naturals, Sequences, FiniteSets

CONSTANTS
  Rates,        \* rates in the range of the IMUs and of the GPS
  Betas,        \* filter gains in range
  ConfRate,     \* CONF_IMU_SAMPLE_HZ and CONF_GPS_RATE_HZ
  ConfBeta,     \* CONF_MADGWICK_BETA
  None,         \* no value in the flash
  MaxRequests,  \* bound: settings requested between two boots
  MaxLate       \* bound: ACKs of the GPS module that come too late

ASSUME PicoSettingsAssumption ==
  /\ ConfRate \in Rates
  /\ ConfBeta \in Betas
  /\ None \notin Rates \cup Betas
  /\ MaxRequests \in Nat
  /\ MaxLate \in Nat

VARIABLES
  settings,   \* settings: imu_rate, gps_rate, beta
  stored,     \* what storage_load returns for each of the three
  icm,        \* the ICM-20948: bank, rate registers, filter; None if not found
  gps,        \* the GPS: rate of the module; None if not open
  combined,   \* gain of the combined filter
  late,       \* ACKs for CFG-RATE not yet at the Pico
  icm_set,    \* did the last write_rate succeed
  gps_set,    \* the ACK that ended the last send_rate: its "own", that of an
              \* "other" message, or "no"
  requests    \* requests since the start

vars == <<settings, stored, icm, gps, combined, late, icm_set, gps_set, requests>>

Keys == {"imu_rate", "gps_rate", "beta"}
Values(key) == IF key = "beta" THEN Betas ELSE Rates
Conf == [imu_rate |-> ConfRate, gps_rate |-> ConfRate, beta |-> ConfBeta]

\* The sample rate dividers, in the order of their writes.  A register holds
\* the rate it was written for.
Dividers == <<"gyro_div", "accel_div_1", "accel_div_2">>
DividerOf(register) == CHOOSE i \in DOMAIN Dividers : Dividers[i] = register
Registers == {Dividers[i] : i \in DOMAIN Dividers}

-----------------------------------------------------------------------------
(* The devices.  An operator with several outcomes is the set of them.      *)

Outcome(device, ok) == [device |-> device, ok |-> ok]

\* The first n dividers are written for hz.
WithDividers(i, hz, n) ==
  [i EXCEPT !.div = [r \in Registers |-> IF DividerOf(r) <= n THEN hz ELSE i.div[r]]]

\* write_rate: every register write selects bank 2 first, and the first failure
\* ends the function.
WriteRate(i, hz) ==
  {Outcome([WithDividers(i, hz, 3) EXCEPT !.bank = 0], TRUE), Outcome(i, FALSE)}
    \cup {Outcome([WithDividers(i, hz, n) EXCEPT !.bank = 2], FALSE) : n \in 0 .. 3}

\* apply_imu_rate: the rate of a BNO055 is fixed.
ApplyImuRate(i, hz) == IF i = None THEN {Outcome(i, TRUE)} ELSE WriteRate(i, hz)

\* What send_rate may find: the module took the message or not, and an ACK of
\* this or, as wait_ack only looks at class and id, of an earlier message came.
SendRate(g, hz, acks) ==
  LET took == [rate |-> hz]
  IN  {[device |-> took, ack |-> "own", late |-> acks],
       [device |-> took, ack |-> "no", late |-> acks],
       [device |-> g, ack |-> "no", late |-> acks]}
        \cup (IF acks < MaxLate
              THEN {[device |-> took, ack |-> "no", late |-> acks + 1]} ELSE {})
        \cup (IF acks > 0
              THEN {[device |-> g, ack |-> "other", late |-> acks - 1],
                    [device |-> took, ack |-> "other", late |-> acks]} ELSE {})

-----------------------------------------------------------------------------
(* Boot.                                                                    *)

\* load_settings
Loaded(s) == [key \in Keys |-> IF s[key] = None THEN Conf[key] ELSE s[key]]

\* icm20948_open leaves the sensor in bank 0 with the rate of the configuration.
IcmOpen == [bank |-> 0, div |-> [r \in Registers |-> ConfRate], beta |-> ConfBeta]

\* gps_open: the module confirmed the rate of the configuration.
GpsOpen == [rate |-> ConfRate]

\* main up to the loop: devices that are not found stay closed, and main does
\* not look at what apply_imu_rate and gps_set_rate return.
Booted(flash, acks) ==
  LET loaded == Loaded(flash)
  IN  {[icm |-> IF i.device = None THEN None ELSE [i.device EXCEPT !.beta = loaded.beta],
        gps |-> g.device, late |-> g.late, icm_set |-> i.ok, gps_set |-> g.ack] :
         i \in UNION {ApplyImuRate(d, loaded.imu_rate) : d \in {None, IcmOpen}},
         g \in SendRate(GpsOpen, loaded.gps_rate, acks)
                 \cup {[device |-> None, ack |-> "own", late |-> acks]}}

Init ==
  /\ stored = [key \in Keys |-> None]
  /\ settings = Loaded(stored)
  /\ combined = settings.beta
  /\ requests = 0
  /\ \E b \in Booted(stored, 0) :
       /\ icm = b.icm /\ gps = b.gps /\ late = b.late
       /\ icm_set = b.icm_set /\ gps_set = b.gps_set

\* A reboot by command, or power off and on: the RAM is lost, the GPS module
\* is configured from the start.
Reboot ==
  /\ settings' = Loaded(stored)
  /\ combined' = settings'.beta
  /\ requests' = 0
  /\ \E b \in Booted(stored, 0) :
       /\ icm' = b.icm /\ gps' = b.gps /\ late' = b.late
       /\ icm_set' = b.icm_set /\ gps_set' = b.gps_set
  /\ UNCHANGED stored

-----------------------------------------------------------------------------
(* on_setting.                                                              *)

Request ==
  /\ requests < MaxRequests
  /\ requests' = requests + 1

Refuse ==
  /\ Request
  /\ UNCHANGED <<settings, stored, icm, gps, combined, late, icm_set, gps_set>>

\* storage_save succeeded, and the value is the setting.
Keep(key, value) ==
  /\ stored' = [stored EXCEPT ![key] = value]
  /\ settings' = [settings EXCEPT ![key] = value]

\* Mutant: the setting is taken over although the save failed.
Undo_KeepsSetting(key, value) ==
  /\ settings' = [settings EXCEPT ![key] = value]
  /\ UNCHANGED stored

\* The setting stays as it was.
Undo(key, value) == UNCHANGED <<settings, stored>>

\* A value out of range, or a key that is not known.
OutOfRange == Refuse

\* Mutant: the old rate does not go back to the IMUs.
ImuRateTakenBack_NoRollback(hz) ==
  /\ Request
  /\ \E first \in ApplyImuRate(icm, hz) :
       icm' = first.device /\ icm_set' = first.ok
  /\ Undo("imu_rate", hz)
  /\ UNCHANGED <<gps, combined, late, gps_set>>

\* An IMU or the flash refuses the rate, and the old one is applied again.
ImuRateTakenBack(hz) ==
  /\ Request
  /\ \E first \in ApplyImuRate(icm, hz) :
       \E back \in ApplyImuRate(first.device, settings.imu_rate) :
         icm' = back.device /\ icm_set' = back.ok
  /\ Undo("imu_rate", hz)
  /\ UNCHANGED <<gps, combined, late, gps_set>>

SetImuRate(hz) ==
  \/ /\ Request
     /\ \E first \in ApplyImuRate(icm, hz) :
          first.ok /\ icm' = first.device /\ icm_set' = TRUE
     /\ Keep("imu_rate", hz)
     /\ UNCHANGED <<gps, combined, late, gps_set>>
  \/ ImuRateTakenBack(hz)

NoGps == gps = None /\ Refuse

GpsOutcome(o) == gps' = o.device /\ late' = o.late /\ gps_set' = o.ack

GpsRateSaved(hz) ==
  /\ gps # None
  /\ Request
  /\ \E sent \in SendRate(gps, hz, late) : sent.ack # "no" /\ GpsOutcome(sent)
  /\ Keep("gps_rate", hz)
  /\ UNCHANGED <<icm, combined, icm_set>>

\* No ACK: nothing is taken back.
GpsRateUnconfirmed(hz) ==
  /\ gps # None
  /\ Request
  /\ \E sent \in SendRate(gps, hz, late) : sent.ack = "no" /\ GpsOutcome(sent)
  /\ Undo("gps_rate", hz)
  /\ UNCHANGED <<icm, combined, icm_set>>

\* Mutant: the old rate is not sent again.
GpsRateTakenBack_NoRollback(hz) ==
  /\ gps # None
  /\ Request
  /\ \E sent \in SendRate(gps, hz, late) : sent.ack # "no" /\ GpsOutcome(sent)
  /\ Undo("gps_rate", hz)
  /\ UNCHANGED <<icm, combined, icm_set>>

\* The flash refuses the rate, and the old one is sent again.
GpsRateTakenBack(hz) ==
  /\ gps # None
  /\ Request
  /\ \E sent \in SendRate(gps, hz, late) :
       /\ sent.ack # "no"
       /\ \E back \in SendRate(sent.device, settings.gps_rate, sent.late) : GpsOutcome(back)
  /\ Undo("gps_rate", hz)
  /\ UNCHANGED <<icm, combined, icm_set>>

SetGpsRate(hz) ==
  NoGps \/ GpsRateSaved(hz) \/ GpsRateUnconfirmed(hz) \/ GpsRateTakenBack(hz)

ApplyBeta(beta) ==
  /\ icm' = IF icm = None THEN None ELSE [icm EXCEPT !.beta = beta]
  /\ combined' = beta

\* The flash refuses the gain.
BetaTakenBack(beta) ==
  /\ Request
  /\ ApplyBeta(settings.beta)
  /\ Undo("beta", beta)
  /\ UNCHANGED <<gps, late, icm_set, gps_set>>

SetBeta(beta) ==
  \/ /\ Request
     /\ ApplyBeta(beta)
     /\ Keep("beta", beta)
     /\ UNCHANGED <<gps, late, icm_set, gps_set>>
  \/ BetaTakenBack(beta)

-----------------------------------------------------------------------------
\* gps_step between two requests: gps_poll reads, and ignores, a late ACK.
GpsPoll ==
  /\ gps # None
  /\ late > 0
  /\ late' = late - 1
  /\ UNCHANGED <<settings, stored, icm, gps, combined, icm_set, gps_set, requests>>

Next ==
  \/ Reboot
  \/ OutOfRange
  \/ \E hz \in Rates : SetImuRate(hz)
  \/ \E hz \in Rates : SetGpsRate(hz)
  \/ \E beta \in Betas : SetBeta(beta)
  \/ GpsPoll

Spec == Init /\ [][Next]_vars

-----------------------------------------------------------------------------
IcmState == [bank : {0, 2}, div : [Registers -> Rates], beta : Betas]

TypeOK ==
  /\ settings \in [Keys -> Rates \cup Betas]
  /\ \A key \in Keys : settings[key] \in Values(key)
  /\ stored \in [Keys -> Rates \cup Betas \cup {None}]
  /\ \A key \in Keys : stored[key] \in Values(key) \cup {None}
  /\ icm \in IcmState \cup {None}
  /\ gps \in [rate : Rates] \cup {None}
  /\ combined \in Betas
  /\ late \in 0 .. MaxLate
  /\ icm_set \in BOOLEAN /\ gps_set \in {"own", "other", "no"}

\* A restart changes no setting: what the Pico runs with is what it will load.
RestartKeepsSettings == settings = Loaded(stored)

\* Unless its last write failed, the ICM samples at the rate that is set, also
\* after a rate that was refused half way, and is in the bank that the reads use.
IcmFollows ==
  icm # None /\ icm_set =>
    icm.bank = 0 /\ \A r \in Registers : icm.div[r] = settings.imu_rate

\* Both filters run with the gain that is set.
BetaFollows ==
  combined = settings.beta /\ (icm # None => icm.beta = settings.beta)

\* A refused or failed setting leaves neither the sensor nor a filter behind
\* (do_setting).
ImuFollows == IcmFollows /\ BetaFollows

\* When the last rate message was ended by its own ACK, the module has the rate
\* that is set, whatever was refused or went unanswered before.
GpsRateFollows ==
  gps # None /\ gps_set = "own" => gps.rate = settings.gps_rate
=============================================================================
