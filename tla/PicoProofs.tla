----------------------------- MODULE PicoProofs -----------------------------
(***************************************************************************)
(* The settings of the Pico, and the GPS of the Pico.                       *)
(*                                                                          *)
(* The invariants of PicoSettings hold for all rates and gains and any      *)
(* number of requests.  Each action is one request, so that the argument is *)
(* about the outcomes of the device operators; the lemmas state what the    *)
(* rest needs to know of them.                                              *)
(*                                                                          *)
(* Those of Gps hold for every checksum, all payloads and all garbage, any   *)
(* number of damaged frames, fixes and faults, and any number of attempts.  *)
(* The argument relates the parser's state to the frames on the line: where *)
(* a frame it is in would begin and what it has seen of it (CandidateOK),   *)
(* and that it is in step with a frame that comes behind quiet ones          *)
(* (StepOK).  The set-up is right because an ACK is sent only by a module   *)
(* that has done the command (AcksOK), and because an attempt without a     *)
(* fault keeps the parser in step and the awaited ACK on the line (CleanOK). *)
(***************************************************************************)
EXTENDS PicoSettings, Gps, SequenceTheorems, TLAPS

Flash == {s \in [Keys -> Rates \cup Betas \cup {None}] :
            \A key \in Keys : s[key] \in Values(key) \cup {None}}
Chosen == {s \in [Keys -> Rates \cup Betas] : \A key \in Keys : s[key] \in Values(key)}

IcmDevice == IcmState \cup {None}
GpsDevice == [rate : Rates] \cup {None}
Acks == 0 .. MaxLate
AckKind == {"own", "other", "no"}

\* All registers are written for hz and the bank of the reads is selected.
Sampling(i, hz) == i.bank = 0 /\ \A r \in Registers : i.div[r] = hz

Inv ==
  /\ TypeOK
  /\ RestartKeepsSettings
  /\ IcmFollows
  /\ BetaFollows
  /\ GpsRateFollows

-----------------------------------------------------------------------------
(* The flash.                                                               *)

LEMMA KeyValues ==
  /\ "imu_rate" \in Keys /\ "gps_rate" \in Keys /\ "beta" \in Keys
  /\ Values("imu_rate") = Rates /\ Values("gps_rate") = Rates
  /\ Values("beta") = Betas
  /\ \A key \in Keys : Values(key) \subseteq Rates \cup Betas
BY DEF Keys, Values

LEMMA ConfValues == \A key \in Keys : Conf[key] \in Values(key)
BY PicoSettingsAssumption DEF Keys, Values, Conf

\* What load_settings makes of the flash is in range, with or without a saved
\* value.
LEMMA LoadedIsChosen ==
  ASSUME NEW s \in Flash
  PROVE  Loaded(s) \in Chosen
BY ConfValues, KeyValues DEF Loaded, Flash, Chosen

\* A value that was saved is loaded, and the other keys are as before.
LEMMA LoadedAfterSave ==
  ASSUME NEW s \in Flash, NEW key \in Keys, NEW value \in Values(key)
  PROVE  /\ [s EXCEPT ![key] = value] \in Flash
         /\ Loaded([s EXCEPT ![key] = value]) = [Loaded(s) EXCEPT ![key] = value]
<1>1. value # None /\ value \in Rates \cup Betas
  BY PicoSettingsAssumption, KeyValues
<1>2. [s EXCEPT ![key] = value] \in Flash
  BY <1>1 DEF Flash
<1> QED BY <1>1, <1>2 DEF Loaded, Flash

-----------------------------------------------------------------------------
(* The devices.                                                             *)

LEMMA DividerRange == \A r \in Registers : DividerOf(r) \in 1 .. 3
<1>1. DOMAIN Dividers = 1 .. 3
  BY DEF Dividers
<1>2. TAKE r \in Registers
<1>3. \E i \in DOMAIN Dividers : Dividers[i] = r
  BY DEF Registers
<1> QED BY <1>1, <1>3 DEF DividerOf

\* Writing dividers keeps the type and the gain, and all three set the rate.
LEMMA WithDividersOK ==
  ASSUME NEW i \in IcmState, NEW hz \in Rates, NEW n \in 0 .. 3
  PROVE  /\ WithDividers(i, hz, n) \in IcmState
         /\ WithDividers(i, hz, n).beta = i.beta
         /\ n = 3 => \A r \in Registers : WithDividers(i, hz, n).div[r] = hz
<1>1. \A r \in Registers : DividerOf(r) <= 3
  BY DividerRange
<1> QED BY <1>1 DEF WithDividers, IcmState

\* apply_imu_rate: a device stays one, keeps its gain, and has the rate when the
\* call succeeds.
LEMMA ApplyImuRateOK ==
  ASSUME NEW i \in IcmDevice, NEW hz \in Rates, NEW o \in ApplyImuRate(i, hz)
  PROVE  /\ o.device \in IcmDevice /\ o.ok \in BOOLEAN
         /\ o.device # None => i # None /\ o.device.beta = i.beta
         /\ o.ok /\ o.device # None => Sampling(o.device, hz)
<1>1. CASE i = None
  <2>1. o = Outcome(i, TRUE)
    BY <1>1 DEF ApplyImuRate
  <2>2. o.device = i /\ o.ok = TRUE
    BY <2>1 DEF Outcome
  <2> QED BY <1>1, <2>2
<1>2. CASE i # None
  <2>1. i \in IcmState
    BY <1>2 DEF IcmDevice
  <2>2. CASE o = Outcome([WithDividers(i, hz, 3) EXCEPT !.bank = 0], TRUE)
    <3>1. /\ WithDividers(i, hz, 3) \in IcmState
          /\ WithDividers(i, hz, 3).beta = i.beta
          /\ \A r \in Registers : WithDividers(i, hz, 3).div[r] = hz
      BY <2>1, WithDividersOK
    <3> QED BY <1>2, <2>2, <3>1 DEF Outcome, IcmState, IcmDevice, Sampling
  <2>3. CASE o = Outcome(i, FALSE)
    BY <1>2, <2>3, <2>1 DEF Outcome, IcmDevice
  <2>4. ASSUME NEW n \in 0 .. 3,
               o = Outcome([WithDividers(i, hz, n) EXCEPT !.bank = 2], FALSE)
        PROVE  /\ o.device \in IcmState /\ o.ok = FALSE
               /\ o.device.beta = i.beta
    <3>1. WithDividers(i, hz, n) \in IcmState /\ WithDividers(i, hz, n).beta = i.beta
      BY <2>1, WithDividersOK
    <3> QED BY <2>4, <3>1 DEF Outcome, IcmState
  <2>5. o \in WriteRate(i, hz)
    BY <1>2 DEF ApplyImuRate
  <2> QED BY <1>2, <2>2, <2>3, <2>4, <2>5 DEF WriteRate, IcmDevice
<1> QED BY <1>1, <1>2

\* send_rate: a message that its own ACK ended is in the module.
LEMMA SendRateOK ==
  ASSUME NEW g \in [rate : Rates], NEW hz \in Rates, NEW acks \in Acks,
         NEW o \in SendRate(g, hz, acks)
  PROVE  /\ o.device \in [rate : Rates] /\ o.late \in Acks /\ o.ack \in AckKind
         /\ o.ack = "own" => o.device.rate = hz
BY PicoSettingsAssumption DEF SendRate, Acks, AckKind

\* Every boot leaves the devices with what was loaded, unless a write failed.
LEMMA BootedOK ==
  ASSUME NEW s \in Flash, NEW b \in Booted(s, 0)
  PROVE  /\ b.icm \in IcmDevice /\ b.gps \in GpsDevice /\ b.late \in Acks
         /\ b.icm_set \in BOOLEAN /\ b.gps_set \in AckKind
         /\ b.icm # None => b.icm.beta = Loaded(s).beta
         /\ b.icm # None /\ b.icm_set => Sampling(b.icm, Loaded(s).imu_rate)
         /\ b.gps # None /\ b.gps_set = "own" => b.gps.rate = Loaded(s).gps_rate
<1> DEFINE loaded == Loaded(s)
<1>1. loaded.imu_rate \in Rates /\ loaded.gps_rate \in Rates /\ loaded.beta \in Betas
  BY LoadedIsChosen, KeyValues DEF Chosen
<1>2. PICK i \in UNION {ApplyImuRate(d, loaded.imu_rate) : d \in {None, IcmOpen}},
           g \in SendRate(GpsOpen, loaded.gps_rate, 0)
                   \cup {[device |-> None, ack |-> "own", late |-> 0]} :
        b = [icm |-> IF i.device = None THEN None ELSE [i.device EXCEPT !.beta = loaded.beta],
             gps |-> g.device, late |-> g.late, icm_set |-> i.ok, gps_set |-> g.ack]
  BY DEF Booted
<1>3. IcmOpen \in IcmState /\ GpsOpen \in [rate : Rates] /\ 0 \in Acks
  BY PicoSettingsAssumption DEF IcmOpen, GpsOpen, IcmState, Acks
<1>4. PICK d \in {None, IcmOpen} : i \in ApplyImuRate(d, loaded.imu_rate)
  BY <1>2
<1>5. d \in IcmDevice
  BY <1>3 DEF IcmDevice
<1>6. /\ i.device \in IcmDevice /\ i.ok \in BOOLEAN
      /\ i.ok /\ i.device # None => Sampling(i.device, loaded.imu_rate)
  BY <1>1, <1>4, <1>5, ApplyImuRateOK
<1>7. /\ b.icm \in IcmDevice /\ b.icm_set = i.ok
      /\ b.icm # None => b.icm.beta = loaded.beta
      /\ b.icm # None /\ b.icm_set => Sampling(b.icm, loaded.imu_rate)
  BY <1>1, <1>2, <1>6 DEF IcmDevice, IcmState, Sampling
<1>8. /\ b.gps \in GpsDevice /\ b.late \in Acks /\ b.gps_set \in AckKind
      /\ b.gps # None /\ b.gps_set = "own" => b.gps.rate = loaded.gps_rate
  <2>1. CASE g \in SendRate(GpsOpen, loaded.gps_rate, 0)
    <3>1. /\ g.device \in [rate : Rates] /\ g.late \in Acks /\ g.ack \in AckKind
          /\ g.ack = "own" => g.device.rate = loaded.gps_rate
      BY <1>1, <1>3, <2>1, SendRateOK
    <3> QED BY <1>2, <3>1 DEF GpsDevice
  <2>2. CASE g = [device |-> None, ack |-> "own", late |-> 0]
    BY <1>2, <1>3, <2>2 DEF GpsDevice, AckKind
  <2> QED BY <1>2, <2>1, <2>2
<1> QED BY <1>6, <1>7, <1>8

-----------------------------------------------------------------------------
(* The invariant.                                                           *)

\* What is known before a step, in the terms of the lemmas.
LEMMA InvFacts ==
  ASSUME Inv
  PROVE  /\ settings \in Chosen /\ stored \in Flash
         /\ settings = Loaded(stored)
         /\ settings.imu_rate \in Rates /\ settings.gps_rate \in Rates
         /\ settings.beta \in Betas
         /\ icm \in IcmDevice /\ gps \in GpsDevice /\ late \in Acks
         /\ combined = settings.beta
         /\ icm # None => icm.beta = settings.beta
<1>1. settings \in Chosen /\ stored \in Flash
  BY DEF Inv, TypeOK, Chosen, Flash
<1>2. settings.imu_rate \in Rates /\ settings.gps_rate \in Rates /\ settings.beta \in Betas
  BY <1>1, KeyValues DEF Chosen
<1> QED BY <1>1, <1>2 DEF Inv, TypeOK, RestartKeepsSettings, BetaFollows,
                          IcmDevice, GpsDevice, Acks

\* The parts of the next invariant, in the same terms.
LEMMA InvNext ==
  ASSUME settings' \in Chosen, stored' \in Flash,
         settings' = Loaded(stored'),
         icm' \in IcmDevice, gps' \in GpsDevice, late' \in Acks,
         icm_set' \in BOOLEAN, gps_set' \in AckKind,
         combined' = settings'.beta,
         icm' # None => icm'.beta = settings'.beta,
         icm' # None /\ icm_set' => Sampling(icm', settings'.imu_rate),
         gps' # None /\ gps_set' = "own" => gps'.rate = settings'.gps_rate
  PROVE  Inv'
<1>1. combined' \in Betas
  BY KeyValues DEF Chosen
<1>2. TypeOK'
  BY <1>1 DEF TypeOK, Chosen, Flash, IcmDevice, GpsDevice, Acks, AckKind
<1> QED BY <1>2 DEF Inv, RestartKeepsSettings, IcmFollows, BetaFollows,
                    GpsRateFollows, Sampling

\* storage_save succeeded: flash and setting stay the same.
LEMMA KeepOK ==
  ASSUME Inv, NEW key \in Keys, NEW value \in Values(key), Keep(key, value)
  PROVE  /\ settings' \in Chosen /\ stored' \in Flash /\ settings' = Loaded(stored')
         /\ settings' = [settings EXCEPT ![key] = value]
<1>1. settings \in Chosen /\ stored \in Flash /\ settings = Loaded(stored)
  BY InvFacts
<1>2. stored' \in Flash /\ settings' = Loaded(stored')
  BY <1>1, LoadedAfterSave DEF Keep
<1> QED BY <1>2, LoadedIsChosen DEF Keep

-----------------------------------------------------------------------------
(* The actions.                                                             *)

\* What the devices have after a boot is what BootedOK says of it.
LEMMA RebootStep == ASSUME Inv, Reboot PROVE Inv'
<1>1. stored \in Flash /\ stored' = stored /\ settings' = Loaded(stored)
  BY InvFacts DEF Reboot
<1>2. PICK b \in Booted(stored, 0) :
        /\ icm' = b.icm /\ gps' = b.gps /\ late' = b.late
        /\ icm_set' = b.icm_set /\ gps_set' = b.gps_set
  BY DEF Reboot
<1>3. settings' \in Chosen
  BY <1>1, LoadedIsChosen
<1>4. /\ b.icm \in IcmDevice /\ b.gps \in GpsDevice /\ b.late \in Acks
      /\ b.icm_set \in BOOLEAN /\ b.gps_set \in AckKind
      /\ b.icm # None => b.icm.beta = Loaded(stored).beta
      /\ b.icm # None /\ b.icm_set => Sampling(b.icm, Loaded(stored).imu_rate)
      /\ b.gps # None /\ b.gps_set = "own" => b.gps.rate = Loaded(stored).gps_rate
  BY <1>1, <1>2, BootedOK
<1>5. combined' = settings'.beta
  BY DEF Reboot
<1> QED BY <1>1, <1>2, <1>3, <1>4, <1>5, InvNext

\* The rest of the invariant, when the step leaves it alone.
LEMMA Kept ==
  ASSUME Inv
  PROVE  /\ icm_set \in BOOLEAN /\ gps_set \in AckKind
         /\ icm # None /\ icm_set => Sampling(icm, settings.imu_rate)
         /\ gps # None /\ gps_set = "own" => gps.rate = settings.gps_rate
BY DEF Inv, TypeOK, AckKind, IcmFollows, GpsRateFollows, Sampling

LEMMA ImuRateStep == ASSUME Inv, NEW hz \in Rates, SetImuRate(hz) PROVE Inv'
<1> USE InvFacts, Kept
<1>1. CASE ImuRateTakenBack(hz)
  <2>1. PICK first \in ApplyImuRate(icm, hz) :
          \E back \in ApplyImuRate(first.device, settings.imu_rate) :
            icm' = back.device /\ icm_set' = back.ok
    BY <1>1 DEF ImuRateTakenBack
  <2>2. PICK back \in ApplyImuRate(first.device, settings.imu_rate) :
          icm' = back.device /\ icm_set' = back.ok
    BY <2>1
  <2>3. /\ first.device \in IcmDevice
        /\ first.device # None => icm # None /\ first.device.beta = icm.beta
    BY <2>1, ApplyImuRateOK
  <2>4. /\ icm' \in IcmDevice /\ icm_set' \in BOOLEAN
        /\ icm' # None => first.device # None /\ icm'.beta = first.device.beta
        /\ icm_set' /\ icm' # None => Sampling(icm', settings.imu_rate)
    BY <2>2, <2>3, ApplyImuRateOK
  <2>5. UNCHANGED <<settings, stored, gps, combined, late, gps_set>>
    BY <1>1 DEF ImuRateTakenBack, Undo
  <2> QED BY <2>3, <2>4, <2>5, InvNext
<1>2. CASE ~ImuRateTakenBack(hz)
  <2>1. PICK first \in ApplyImuRate(icm, hz) :
          first.ok /\ icm' = first.device /\ icm_set' = TRUE
    BY <1>2 DEF SetImuRate
  <2>2. Keep("imu_rate", hz) /\ UNCHANGED <<gps, combined, late, gps_set>>
    BY <1>2 DEF SetImuRate
  <2>3. /\ settings' \in Chosen /\ stored' \in Flash /\ settings' = Loaded(stored')
        /\ settings' = [settings EXCEPT !["imu_rate"] = hz]
    BY <2>2, KeepOK, KeyValues
  <2>4. /\ settings'.imu_rate = hz
        /\ settings'.gps_rate = settings.gps_rate /\ settings'.beta = settings.beta
    BY <2>3, KeyValues DEF Chosen
  <2>5. /\ icm' \in IcmDevice
        /\ icm' # None => icm # None /\ icm'.beta = icm.beta
        /\ icm' # None => Sampling(icm', hz)
    BY <2>1, ApplyImuRateOK
  <2> QED BY <2>1, <2>2, <2>3, <2>4, <2>5, InvNext
<1> QED BY <1>1, <1>2

LEMMA GpsRateStep == ASSUME Inv, NEW hz \in Rates, SetGpsRate(hz) PROVE Inv'
<1> USE InvFacts, Kept
<1>1. CASE NoGps
  <2>1. UNCHANGED <<settings, stored, icm, gps, combined, late, icm_set, gps_set>>
    BY <1>1 DEF NoGps, Refuse
  <2> QED BY <2>1, InvNext
<1>2. ASSUME gps # None
      PROVE  gps \in [rate : Rates]
  BY <1>2 DEF GpsDevice
<1>3. CASE GpsRateSaved(hz)
  <2>1. PICK sent \in SendRate(gps, hz, late) : sent.ack # "no" /\ GpsOutcome(sent)
    BY <1>3 DEF GpsRateSaved
  <2>2. /\ gps' \in [rate : Rates] /\ late' \in Acks /\ gps_set' \in AckKind
        /\ gps_set' = "own" => gps'.rate = hz
    BY <1>2, <1>3, <2>1, SendRateOK DEF GpsRateSaved, GpsOutcome
  <2>3. Keep("gps_rate", hz) /\ UNCHANGED <<icm, combined, icm_set>>
    BY <1>3 DEF GpsRateSaved
  <2>4. /\ settings' \in Chosen /\ stored' \in Flash /\ settings' = Loaded(stored')
        /\ settings' = [settings EXCEPT !["gps_rate"] = hz]
    BY <2>3, KeepOK, KeyValues
  <2>5. /\ settings'.gps_rate = hz
        /\ settings'.imu_rate = settings.imu_rate /\ settings'.beta = settings.beta
    BY <2>4, KeyValues DEF Chosen
  <2>6. gps' \in GpsDevice
    BY <2>2 DEF GpsDevice
  <2> QED BY <2>2, <2>3, <2>4, <2>5, <2>6, InvNext
<1>4. CASE GpsRateUnconfirmed(hz)
  <2>1. PICK sent \in SendRate(gps, hz, late) : sent.ack = "no" /\ GpsOutcome(sent)
    BY <1>4 DEF GpsRateUnconfirmed
  <2>2. gps' \in GpsDevice /\ late' \in Acks /\ gps_set' = "no"
    BY <1>2, <1>4, <2>1, SendRateOK DEF GpsRateUnconfirmed, GpsOutcome, GpsDevice
  <2>3. UNCHANGED <<settings, stored, icm, combined, icm_set>>
    BY <1>4 DEF GpsRateUnconfirmed, Undo
  <2>4. gps_set' \in AckKind
    BY <2>2 DEF AckKind
  <2> QED BY <2>2, <2>3, <2>4, InvNext
<1>5. CASE GpsRateTakenBack(hz)
  <2>1. PICK sent \in SendRate(gps, hz, late) :
          \E back \in SendRate(sent.device, settings.gps_rate, sent.late) : GpsOutcome(back)
    BY <1>5 DEF GpsRateTakenBack
  <2>2. PICK back \in SendRate(sent.device, settings.gps_rate, sent.late) : GpsOutcome(back)
    BY <2>1
  <2>3. sent.device \in [rate : Rates] /\ sent.late \in Acks
    BY <1>2, <1>5, <2>1, SendRateOK DEF GpsRateTakenBack
  <2>4. /\ gps' \in [rate : Rates] /\ late' \in Acks /\ gps_set' \in AckKind
        /\ gps_set' = "own" => gps'.rate = settings.gps_rate
    BY <2>2, <2>3, SendRateOK DEF GpsOutcome
  <2>5. UNCHANGED <<settings, stored, icm, combined, icm_set>>
    BY <1>5 DEF GpsRateTakenBack, Undo
  <2>6. gps' \in GpsDevice
    BY <2>4 DEF GpsDevice
  <2> QED BY <2>4, <2>5, <2>6, InvNext
<1> QED BY <1>1, <1>3, <1>4, <1>5 DEF SetGpsRate

LEMMA BetaStep == ASSUME Inv, NEW beta \in Betas, SetBeta(beta) PROVE Inv'
<1> USE InvFacts, Kept
\* Both filters get the gain g, and the ICM is otherwise as it was.
<1>1. ASSUME NEW g \in Betas, ApplyBeta(g)
      PROVE  /\ icm' \in IcmDevice /\ combined' = g
             /\ icm' # None => /\ icm # None /\ icm'.beta = g
                               /\ \A hz \in Rates : Sampling(icm, hz) => Sampling(icm', hz)
  BY <1>1 DEF ApplyBeta, IcmDevice, IcmState, Sampling
<1>2. CASE BetaTakenBack(beta)
  <2>1. ApplyBeta(settings.beta)
    BY <1>2 DEF BetaTakenBack
  <2>2. UNCHANGED <<settings, stored, gps, late, icm_set, gps_set>>
    BY <1>2 DEF BetaTakenBack, Undo
  <2> QED BY <1>1, <2>1, <2>2, InvNext
<1>3. CASE ~BetaTakenBack(beta)
  <2>1. /\ ApplyBeta(beta) /\ Keep("beta", beta)
        /\ UNCHANGED <<gps, late, icm_set, gps_set>>
    BY <1>3 DEF SetBeta
  <2>2. /\ settings' \in Chosen /\ stored' \in Flash /\ settings' = Loaded(stored')
        /\ settings' = [settings EXCEPT !["beta"] = beta]
    BY <2>1, KeepOK, KeyValues
  <2>3. /\ settings'.beta = beta
        /\ settings'.imu_rate = settings.imu_rate
        /\ settings'.gps_rate = settings.gps_rate
    BY <2>2, KeyValues DEF Chosen
  <2> QED BY <1>1, <2>1, <2>2, <2>3, InvNext
<1> QED BY <1>2, <1>3

-----------------------------------------------------------------------------
LEMMA InitInv == Init => Inv
<1> SUFFICES ASSUME Init PROVE Inv
  OBVIOUS
<1>1. stored \in Flash
  BY DEF Init, Flash
<1>2. settings = Loaded(stored) /\ settings \in Chosen /\ combined = settings.beta
  BY <1>1, LoadedIsChosen DEF Init
<1>3. combined \in Betas
  BY <1>2, KeyValues DEF Chosen
<1>4. PICK b \in Booted(stored, 0) :
        /\ icm = b.icm /\ gps = b.gps /\ late = b.late
        /\ icm_set = b.icm_set /\ gps_set = b.gps_set
  BY DEF Init
<1>5. /\ b.icm \in IcmDevice /\ b.gps \in GpsDevice /\ b.late \in Acks
      /\ b.icm_set \in BOOLEAN /\ b.gps_set \in AckKind
      /\ b.icm # None => b.icm.beta = Loaded(stored).beta
      /\ b.icm # None /\ b.icm_set => Sampling(b.icm, Loaded(stored).imu_rate)
      /\ b.gps # None /\ b.gps_set = "own" => b.gps.rate = Loaded(stored).gps_rate
  BY <1>1, <1>4, BootedOK
<1>6. TypeOK
  BY <1>1, <1>2, <1>3, <1>4, <1>5
     DEF TypeOK, Flash, Chosen, IcmDevice, GpsDevice, Acks, AckKind
<1> QED BY <1>2, <1>4, <1>5, <1>6
        DEF Inv, RestartKeepsSettings, IcmFollows, BetaFollows, GpsRateFollows, Sampling

LEMMA StepInv == Inv /\ [Next]_vars => Inv'
<1> SUFFICES ASSUME Inv, [Next]_vars PROVE Inv'
  OBVIOUS
<1> USE InvFacts, Kept
<1>1. CASE Reboot
  BY <1>1, RebootStep
<1>2. CASE OutOfRange
  <2>1. UNCHANGED <<settings, stored, icm, gps, combined, late, icm_set, gps_set>>
    BY <1>2 DEF OutOfRange, Refuse
  <2> QED BY <2>1, InvNext
<1>3. ASSUME NEW hz \in Rates, SetImuRate(hz) PROVE Inv'
  BY <1>3, ImuRateStep
<1>4. ASSUME NEW hz \in Rates, SetGpsRate(hz) PROVE Inv'
  BY <1>4, GpsRateStep
<1>5. ASSUME NEW beta \in Betas, SetBeta(beta) PROVE Inv'
  BY <1>5, BetaStep
<1>6. CASE GpsPoll
  <2>1. late' \in Acks
    BY <1>6, PicoSettingsAssumption DEF GpsPoll, Acks
  <2>2. UNCHANGED <<settings, stored, icm, gps, combined, icm_set, gps_set>>
    BY <1>6 DEF GpsPoll
  <2> QED BY <2>1, <2>2, InvNext
<1>7. CASE UNCHANGED vars
  <2>1. UNCHANGED <<settings, stored, icm, gps, combined, late, icm_set, gps_set>>
    BY <1>7 DEF vars
  <2> QED BY <2>1, InvNext
<1> QED BY <1>1, <1>2, <1>3, <1>4, <1>5, <1>6, <1>7 DEF Next

\* The invariant of PicoSettings, for every number of rates, gains and requests.
THEOREM SettingsInvariant == Spec => []Inv
BY InitInv, StepInv, PTL DEF Spec

\* Settings, flash and devices keep their types; values stay in range
\* (do_setting, load_settings).
THEOREM SettingsTypeCorrect == Spec => []TypeOK
<1>1. Inv => TypeOK
  BY DEF Inv
<1> QED BY <1>1, SettingsInvariant, PTL

\* A restart changes no setting (do_setting stores a value before it is taken
\* over, load_settings).
THEOREM RestartKeeps == Spec => []RestartKeepsSettings
<1>1. Inv => RestartKeepsSettings
  BY DEF Inv
<1> QED BY <1>1, SettingsInvariant, PTL

\* The ICM-20948 and the filters have the value of their setting unless the
\* last write failed, whatever failed before (do_setting and its rollbacks).
THEOREM DevicesFollow == Spec => []ImuFollows
<1>1. Inv => ImuFollows
  BY DEF Inv, ImuFollows
<1> QED BY <1>1, SettingsInvariant, PTL

\* The GPS module has the rate of its setting unless its last write failed
\* (do_setting and its rollbacks).
THEOREM GpsFollows == Spec => []GpsRateFollows
<1>1. Inv => GpsRateFollows
  BY DEF Inv
<1> QED BY <1>1, SettingsInvariant, PTL

-----------------------------------------------------------------------------
(* The parser of the GPS: what is on the line, and what the parser has of it.  *)

Symbol == [val : Byte, of : Nat]
Fates == {"whole", "damaged", "garbage"}
Sent == [body : Bodies, fate : Fates, first : Nat, last : Nat]
UbxStates == {"sync1", "sync2", "class", "length", "payload", "checksum"}

\* The length of a body that is complete but for its payload.
BodyLen == 2 + ubx.body[2]

\* What is in the body by each state.
ParserOK ==
  /\ ubx \in [state : UbxStates, body : Seq(Byte)]
  /\ Len(ubx.body) <= 2 + MaxPayload
  /\ ubx.state = "class" => ubx.body = <<>>
  /\ ubx.state = "length" => Len(ubx.body) = 1
  /\ ubx.state \in {"payload", "checksum"} => Len(ubx.body) >= 2 /\ ubx.body[2] <= MaxPayload
  /\ ubx.state = "payload" => Len(ubx.body) < BodyLen
  /\ ubx.state = "checksum" => Len(ubx.body) = BodyLen

\* Frames lie on the line one behind the other.
FramesOK ==
  /\ frames \in Seq(Sent)
  /\ line \in Seq(Symbol) /\ read \in Nat
  /\ \A i \in 1 .. Len(line) : line[i].of \in 0 .. Len(frames)
  /\ \A f \in 1 .. Len(frames) :
       1 <= frames[f].first /\ frames[f].first <= frames[f].last + 1
         /\ frames[f].last <= read + Len(line)
  /\ \A f, g \in 1 .. Len(frames) : f < g => frames[f].last < frames[g].first
  /\ \A p \in 1 .. read + Len(line) :
       \E f \in 1 .. Len(frames) : frames[f].first <= p /\ p <= frames[f].last

\* What is to be read of a whole frame is as it was sent.
WholeOK ==
  \A f \in 1 .. Len(frames) :
    frames[f].fate = "whole" =>
      /\ frames[f].last = frames[f].first + Len(frames[f].body) + 2
      /\ \A p \in frames[f].first .. frames[f].last :
           p > read => line[p - read] = Frame(f, frames[f].body)[p - frames[f].first + 1]

\* Where the frame the parser is in would begin, if it is one, and what the parser
\* has seen of it.
Start == IF ubx.state = "sync2" THEN read ELSE read - 1 - Len(ubx.body)
Seen(k) == IF k = 0 THEN Sync1 ELSE IF k = 1 THEN Sync2 ELSE ubx.body[k - 1]

CandidateOK ==
  ubx.state # "sync1" =>
    /\ 1 <= Start
    /\ \A c \in cuts : c < Start
    /\ \A f \in 1 .. Len(frames) :
         frames[f].fate = "whole" =>
           \A p \in frames[f].first .. frames[f].last :
             Start <= p /\ p <= read =>
               Frame(f, frames[f].body)[p - frames[f].first + 1].val = Seen(p - Start)

\* The parser has read k symbols of a frame with this body.
StateAt(body, k) ==
  IF k = 0 THEN "sync1" ELSE IF k = 1 THEN "sync2" ELSE IF k = 2 THEN "class"
  ELSE IF k = 3 THEN "length" ELSE IF k < Len(body) + 2 THEN "payload" ELSE "checksum"
InStep(body, k) ==
  /\ ubx.state = StateAt(body, k)
  /\ k >= 2 => /\ Len(ubx.body) = k - 2
               /\ \A i \in 1 .. k - 2 : ubx.body[i] = body[i]

\* The frame f comes after quiet ones, and the parser was not reset in it so far.
Clear(f) ==
  /\ frames[f].fate = "whole"
  /\ \A g \in 1 .. f - 1 : frames[g].last + Grasp >= frames[f].first => Quiet(frames[g])

Begun(f) == frames[f].first <= read + 1 /\ read < frames[f].last

StepOK ==
  \A f \in 1 .. Len(frames) :
    Clear(f) /\ Begun(f) /\ cuts \cap (frames[f].first .. read) = {} =>
      InStep(frames[f].body, read + 1 - frames[f].first)

TakenOK ==
  \A f \in 1 .. Len(frames) :
    /\ Clear(f) /\ frames[f].last <= read
    /\ cuts \cap (frames[f].first .. frames[f].last - 1) = {}
    => frames[f].last \in taken

StreamInv == ParserOK /\ FramesOK /\ WholeOK /\ cuts \subseteq 0 .. read
RecoverInv == StreamInv /\ CandidateOK /\ StepOK /\ TakenOK

(* The set-up.                                                               *)

Ready == [baud |-> "conf", rate |-> TRUE, pvt |-> TRUE]
Configuring == Waiting \cup {"rate", "msg"}
Has(c) == Configured(c) = module

\* An ACK was sent by a module that has done the command.
AcksOK ==
  \A f \in 1 .. Len(frames) : \A c \in Commands :
    frames[f].body = AckBody(AckAck, c) => Has(c)

ProgressOK ==
  /\ at \in {"rate", "wait rate", "msg", "wait msg", "open"} => Has(Prt)
  /\ at \in {"msg", "wait msg", "open"} => Has(Rate)
  /\ at = "open" => Has(Msg)

\* What is still to be read, in an attempt without a fault: frames as they were sent,
\* none of them a refusal;
UnreadOK ==
  \A f \in 1 .. Len(frames) :
    frames[f].last > read => frames[f].fate = "whole" /\ frames[f].body[1] # AckNak
\* before the parser is reset, none that it has begun;
UnbegunOK == \A f \in 1 .. Len(frames) : frames[f].last > read => frames[f].first > read
\* after that, the parser is in step with them;
InStepOK ==
  /\ \A f \in 1 .. Len(frames) : Begun(f) => InStep(frames[f].body, read + 1 - frames[f].first)
  /\ line = <<>> => ubx.state = "sync1"
\* and the ACK that is waited for is among them.
AwaitedOK ==
  \E f \in 1 .. Len(frames) :
    frames[f].last > read /\ frames[f].body = AckBody(AckAck, Awaited)

CleanOK ==
  clean =>
    /\ at # "failed" /\ (at = "switch" => attempt = 0)
    /\ at \in {"repeat", "wait prt"} => Has(Prt)
    /\ at \in Configuring \cup {"prt", "repeat"} => UnreadOK
    /\ at \in {"prt", "repeat"} => UnbegunOK
    /\ at \in Configuring => InStepOK
    /\ at \in Waiting => AwaitedOK

SetupInv == AcksOK /\ ProgressOK /\ CleanOK
GpsInv == GpsTypeOK /\ RecoverInv /\ SetupInv
-----------------------------------------------------------------------------
(* Bodies and frames.                                                         *)

LEMMA GpsConstants ==
  /\ MaxByte \in Nat /\ MaxPayload \in Nat /\ MaxFaults \in Nat /\ Retries \in Nat
  /\ 1 <= MaxPayload /\ MaxPayload <= MaxByte
  /\ Sync1 \in Byte /\ Sync2 \in Byte /\ Sync1 # Sync2
  /\ Byte \subseteq Nat /\ 0 \in Byte
BY GpsAssumption DEF Byte

LEMMA AckFacts ==
  ASSUME NEW kind \in {AckAck, AckNak}, NEW c \in Commands
  PROVE  /\ AckBody(kind, c) \in Bodies /\ AckBody(kind, c) \in Seq(Byte)
         /\ Len(AckBody(kind, c)) = 3
         /\ AckBody(kind, c)[1] = kind /\ AckBody(kind, c)[2] = 1
         /\ AckBody(kind, c)[3] = c
<1>1. kind \in Byte /\ c \in Byte /\ 1 \in Byte
  BY GpsAssumption DEF Byte
<1>2. AckBody(kind, c) \in Bodies
  BY DEF Bodies
<1> QED BY <1>1, <1>2 DEF AckBody

LEMMA FixFacts ==
  ASSUME NEW fix \in Fixes
  PROVE  /\ FixBody(fix) \in Bodies /\ FixBody(fix) \in Seq(Byte)
         /\ Len(FixBody(fix)) = 2 + Len(fix) /\ Len(fix) \in 0 .. MaxPayload
         /\ FixBody(fix)[1] = NavPvt /\ FixBody(fix)[2] = Len(fix)
<1>1. fix \in Seq(Byte) /\ Len(fix) \in Nat /\ Len(fix) <= MaxPayload
  BY GpsAssumption
<1>2. NavPvt \in Byte /\ Len(fix) \in Byte
  BY <1>1, GpsAssumption DEF Byte
<1>3. <<NavPvt, Len(fix)>> \in Seq(Byte) /\ Len(<<NavPvt, Len(fix)>>) = 2
  BY <1>2
<1>4. /\ FixBody(fix) \in Seq(Byte) /\ Len(FixBody(fix)) = 2 + Len(fix)
      /\ FixBody(fix)[1] = NavPvt /\ FixBody(fix)[2] = Len(fix)
  BY <1>1, <1>3, ConcatProperties DEF FixBody
<1> QED BY <1>1, <1>4 DEF Bodies

LEMMA BodyFacts ==
  ASSUME NEW body \in Bodies
  PROVE  /\ body \in Seq(Byte) /\ Len(body) \in Nat /\ Len(body) = 2 + body[2]
         /\ body[1] \in Byte /\ body[2] \in 0 .. MaxPayload
         /\ Checksum(body) \in Byte
<1>1. /\ body \in Seq(Byte) /\ Len(body) = 2 + body[2] /\ body[2] \in 0 .. MaxPayload
  <2>1. ASSUME NEW kind \in {AckAck, AckNak}, NEW c \in Commands, body = AckBody(kind, c)
        PROVE  body \in Seq(Byte) /\ Len(body) = 2 + body[2] /\ body[2] \in 0 .. MaxPayload
    <3>1. body \in Seq(Byte) /\ Len(body) = 3 /\ body[2] = 1
      BY <2>1, AckFacts
    <3> QED BY <3>1, GpsConstants
  <2>2. CASE \E fix \in Fixes : body = FixBody(fix)
    BY <2>2, FixFacts
  <2> QED BY <2>1, <2>2 DEF Bodies
<1>2. Len(body) \in Nat /\ Len(body) >= 2
  BY <1>1, GpsConstants
<1>3. body[1] \in Byte
  BY <1>1, <1>2
<1>4. Checksum(body) \in Byte
  BY GpsAssumption
<1> QED BY <1>1, <1>2, <1>3, <1>4

\* A frame of n has its marks, its body and a checksum that knows n.
LEMMA FrameFacts ==
  ASSUME NEW n \in Nat, NEW body \in Bodies
  PROVE  /\ Frame(n, body) \in Seq(Symbol)
         /\ Len(Frame(n, body)) = Len(body) + 3
         /\ Frame(n, body)[1].val = Sync1 /\ Frame(n, body)[2].val = Sync2
         /\ \A i \in 1 .. Len(body) : Frame(n, body)[i + 2].val = body[i]
         /\ Frame(n, body)[Len(body) + 3] = [val |-> Checksum(body), of |-> n]
         /\ \A i \in 1 .. Len(body) + 3 : Frame(n, body)[i].of \in 0 .. n
<1> DEFINE bytes == <<Sync1, Sync2>> \o body
           sum == [val |-> Checksum(body), of |-> n]
<1>1. body \in Seq(Byte) /\ Len(body) \in Nat /\ Checksum(body) \in Byte
  BY BodyFacts
<1>2. <<Sync1, Sync2>> \in Seq(Byte) /\ Len(<<Sync1, Sync2>>) = 2
  BY GpsConstants
<1>3. /\ bytes \in Seq(Byte) /\ Len(bytes) = Len(body) + 2
      /\ bytes[1] = Sync1 /\ bytes[2] = Sync2
      /\ \A i \in 1 .. Len(body) : bytes[i + 2] = body[i]
  <2>1. /\ bytes \in Seq(Byte) /\ Len(bytes) = 2 + Len(body)
        /\ \A i \in 1 .. 2 + Len(body) :
             bytes[i] = IF i <= 2 THEN <<Sync1, Sync2>>[i] ELSE body[i - 2]
    BY <1>1, <1>2, ConcatProperties
  <2>2. bytes[1] = Sync1 /\ bytes[2] = Sync2
    BY <1>1, <2>1
  <2>3. ASSUME NEW i \in 1 .. Len(body)
        PROVE  bytes[i + 2] = body[i]
    <3>1. i + 2 \in 1 .. 2 + Len(body) /\ ~(i + 2 <= 2) /\ (i + 2) - 2 = i
      BY <1>1
    <3> QED BY <2>1, <3>1
  <2> QED BY <1>1, <2>1, <2>2, <2>3
<1> HIDE DEF bytes
<1>4. /\ Plain(bytes) \in Seq(Symbol) /\ Len(Plain(bytes)) = Len(body) + 2
      /\ \A i \in 1 .. Len(body) + 2 : Plain(bytes)[i] = [val |-> bytes[i], of |-> 0]
  <2>1. DOMAIN bytes = 1 .. Len(body) + 2
    BY <1>3
  <2>2. Plain(bytes) = [i \in 1 .. Len(body) + 2 |-> [val |-> bytes[i], of |-> 0]]
    BY <2>1 DEF Plain
  <2>3. \A i \in 1 .. Len(body) + 2 : [val |-> bytes[i], of |-> 0] \in Symbol
    BY <1>3, <2>1 DEF Symbol
  <2> QED BY <1>1, <2>2, <2>3
<1>5. sum \in Symbol
  BY <1>1 DEF Symbol
<1>6. Frame(n, body) = Append(Plain(bytes), sum)
  BY DEF Frame, bytes
<1>7. /\ Frame(n, body) \in Seq(Symbol) /\ Len(Frame(n, body)) = Len(body) + 3
      /\ \A i \in 1 .. Len(body) + 2 : Frame(n, body)[i] = Plain(bytes)[i]
      /\ Frame(n, body)[Len(body) + 3] = sum
  BY <1>1, <1>4, <1>5, <1>6, AppendProperties
<1>8. ASSUME NEW i \in 1 .. Len(body)
      PROVE  Frame(n, body)[i + 2].val = body[i]
  <2>1. i + 2 \in 1 .. Len(body) + 2
    BY <1>1
  <2>2. Frame(n, body)[i + 2] = [val |-> bytes[i + 2], of |-> 0]
    BY <1>4, <1>7, <2>1
  <2> QED BY <1>3, <2>2
<1>9. ASSUME NEW i \in 1 .. Len(body) + 3
      PROVE  Frame(n, body)[i].of \in 0 .. n
  <2>1. CASE i = Len(body) + 3
    BY <1>7, <2>1
  <2>2. CASE i # Len(body) + 3
    <3>1. i \in 1 .. Len(body) + 2
      BY <1>1, <2>2
    <3> QED BY <1>4, <1>7, <3>1
  <2> QED BY <2>1, <2>2
<1>10. Frame(n, body)[1].val = Sync1 /\ Frame(n, body)[2].val = Sync2
  <2>1. 1 \in 1 .. Len(body) + 2 /\ 2 \in 1 .. Len(body) + 2
    BY <1>1
  <2>2. /\ Frame(n, body)[1] = [val |-> bytes[1], of |-> 0]
        /\ Frame(n, body)[2] = [val |-> bytes[2], of |-> 0]
    BY <1>4, <1>7, <2>1
  <2> QED BY <1>3, <2>2
<1> QED BY <1>7, <1>8, <1>9, <1>10

LEMMA FrameTyped ==
  ASSUME NEW n \in Nat, NEW body \in Bodies
  PROVE  /\ Frame(n, body) \in Seq(Symbol) /\ Len(Frame(n, body)) = Len(body) + 3
         /\ \A i \in 1 .. Len(body) + 3 : Frame(n, body)[i].of \in 0 .. n
BY FrameFacts

LEMMA FrameValues ==
  ASSUME NEW n \in Nat, NEW body \in Bodies
  PROVE  /\ Frame(n, body)[1].val = Sync1 /\ Frame(n, body)[2].val = Sync2
         /\ \A i \in 1 .. Len(body) : Frame(n, body)[i + 2].val = body[i]
         /\ Frame(n, body)[Len(body) + 3] = [val |-> Checksum(body), of |-> n]
BY FrameFacts

\* What the Pico gets instead of a frame is symbols of this frame, and bytes.
LEMMA DamagedFacts ==
  ASSUME NEW n \in Nat, NEW frame \in Seq(Symbol),
         \A i \in 1 .. Len(frame) : frame[i].of \in 0 .. n,
         NEW s \in Damaged(frame)
  PROVE  s \in Seq(Symbol) /\ \A i \in 1 .. Len(s) : s[i].of \in 0 .. n
<1>1. CASE \E i \in DOMAIN frame, b \in Noise : s = ReplaceAt(frame, i, [val |-> b, of |-> 0])
  <2>1. PICK i \in DOMAIN frame, b \in Noise : s = ReplaceAt(frame, i, [val |-> b, of |-> 0])
    BY <1>1
  <2>2. [val |-> b, of |-> 0] \in Symbol
    BY GpsAssumption DEF Symbol
  <2>3. s = [frame EXCEPT ![i] = [val |-> b, of |-> 0]]
    BY <2>1 DEF ReplaceAt
  <2>4. s \in Seq(Symbol) /\ Len(s) = Len(frame)
    BY <2>2, <2>3
  <2>5. \A j \in 1 .. Len(s) : s[j] = IF j = i THEN [val |-> b, of |-> 0] ELSE frame[j]
    BY <2>3, <2>4
  <2> QED BY <2>4, <2>5
<1>2. ASSUME NEW a \in 1 .. Len(frame), NEW b \in 1 .. Len(frame),
             s = SubSeq(frame, 1, a - 1) \o SubSeq(frame, b + 1, Len(frame))
      PROVE  s \in Seq(Symbol) /\ \A i \in 1 .. Len(s) : s[i].of \in 0 .. n
  <2> DEFINE u == SubSeq(frame, 1, a - 1)
             v == SubSeq(frame, b + 1, Len(frame))
  <2>2. /\ u \in Seq(Symbol) /\ Len(u) = a - 1
        /\ \A i \in 1 .. Len(u) : u[i].of \in 0 .. n
    <3>1. u \in Seq(Symbol) /\ Len(u) = a - 1 /\ \A i \in 1 .. a - 1 : u[i] = frame[i]
      BY SubSeqProperties
    <3> QED BY <3>1
  <2>3. /\ v \in Seq(Symbol) /\ Len(v) = Len(frame) - b
        /\ \A i \in 1 .. Len(v) : v[i].of \in 0 .. n
    <3>1. /\ v \in Seq(Symbol) /\ Len(v) = Len(frame) - b
          /\ \A i \in 1 .. Len(frame) - b : v[i] = frame[b + i]
      BY SubSeqProperties
    <3>2. \A i \in 1 .. Len(frame) - b : b + i \in 1 .. Len(frame)
      OBVIOUS
    <3> QED BY <3>1, <3>2
  <2> HIDE DEF u, v
  <2>4. /\ u \o v \in Seq(Symbol) /\ Len(u \o v) = Len(u) + Len(v)
        /\ \A i \in 1 .. Len(u) + Len(v) :
             (u \o v)[i] = IF i <= Len(u) THEN u[i] ELSE v[i - Len(u)]
    BY <2>2, <2>3, ConcatProperties
  <2>5. ASSUME NEW i \in 1 .. Len(u \o v)
        PROVE  (u \o v)[i].of \in 0 .. n
    <3>1. CASE i <= Len(u)
      BY <2>2, <2>3, <2>4, <3>1
    <3>2. CASE ~(i <= Len(u))
      <4>1. i - Len(u) \in 1 .. Len(v)
        BY <2>2, <2>3, <2>4, <3>2
      <4> QED BY <2>3, <2>4, <3>2, <4>1
    <3> QED BY <3>1, <3>2
  <2>6. s = u \o v
    BY <1>2 DEF u, v
  <2> QED BY <2>4, <2>5, <2>6
<1>3. CASE s \in {SubSeq(frame, 1, r[1] - 1) \o SubSeq(frame, r[2] + 1, Len(frame)) :
                    r \in {p \in (DOMAIN frame) \X (DOMAIN frame) : p[1] <= p[2]}}
  <2>1. PICK r \in (DOMAIN frame) \X (DOMAIN frame) :
               s = SubSeq(frame, 1, r[1] - 1) \o SubSeq(frame, r[2] + 1, Len(frame))
    BY <1>3
  <2>2. r[1] \in 1 .. Len(frame) /\ r[2] \in 1 .. Len(frame)
    OBVIOUS
  <2> QED BY <1>2, <2>1, <2>2
<1> DEFINE R == {ReplaceAt(frame, i, [val |-> b, of |-> 0]) : i \in DOMAIN frame, b \in Noise}
           C == {SubSeq(frame, 1, r[1] - 1) \o SubSeq(frame, r[2] + 1, Len(frame)) :
                   r \in {p \in (DOMAIN frame) \X (DOMAIN frame) : p[1] <= p[2]}}
<1>4. Damaged(frame) = (R \ {frame}) \cup C
  BY DEF Damaged
<1>5. s \in R \/ s \in C
  <2> HIDE DEF R, C
  <2> QED BY <1>4
<1>6. CASE s \in R
  BY <1>1, <1>6
<1>7. CASE s \in C
  BY <1>3, <1>7
<1> HIDE DEF R, C
<1> QED BY <1>5, <1>6, <1>7

LEMMA GarbageFacts ==
  ASSUME NEW bytes \in Garbage
  PROVE  Plain(bytes) \in Seq(Symbol) /\ \A i \in 1 .. Len(Plain(bytes)) : Plain(bytes)[i].of = 0
<1>1. bytes \in Seq(Byte) /\ Len(bytes) \in Nat /\ DOMAIN bytes = 1 .. Len(bytes)
  BY GpsAssumption
<1>2. Plain(bytes) = [i \in 1 .. Len(bytes) |-> [val |-> bytes[i], of |-> 0]]
  BY <1>1 DEF Plain
<1>3. \A i \in 1 .. Len(bytes) : [val |-> bytes[i], of |-> 0] \in Symbol
  BY <1>1 DEF Symbol
<1> QED BY <1>1, <1>2, <1>3

-----------------------------------------------------------------------------
(* What the module puts on the line.                                          *)

Emission ==
  \/ UNCHANGED <<line, frames>>
  \/ \E body \in Bodies, fate \in Fates, symbols \in Seq(Symbol) :
       /\ Put(body, fate, symbols)
       /\ \A i \in 1 .. Len(symbols) : symbols[i].of \in 0 .. Len(frames) + 1
       /\ fate = "whole" => symbols = Frame(Len(frames) + 1, body)

LEMMA EmitFacts ==
  ASSUME NEW body \in Bodies, NEW baud, NEW p, frames \in Seq(Sent),
         Emit(body, baud, p)
  PROVE  Emission
<1> DEFINE n == Len(frames) + 1
           frame == Frame(n, body)
<1>1. n \in Nat
  OBVIOUS
<1>2. frame \in Seq(Symbol) /\ \A i \in 1 .. Len(frame) : frame[i].of \in 0 .. n
  BY <1>1, FrameTyped, BodyFacts
<1>3. CASE Put(body, "whole", frame)
  BY <1>2, <1>3 DEF Emission, Fates
<1>4. ASSUME NEW symbols \in Damaged(frame), Put(body, "damaged", symbols)
      PROVE  Emission
  <2> HIDE DEF frame, n
  <2>1. symbols \in Seq(Symbol) /\ \A i \in 1 .. Len(symbols) : symbols[i].of \in 0 .. n
    BY <1>1, <1>2, DamagedFacts
  <2> QED BY <1>4, <2>1 DEF Emission, Fates, n
<1>5. ASSUME NEW bytes \in Garbage, Put(body, "garbage", Plain(bytes))
      PROVE  Emission
  <2>1. /\ Plain(bytes) \in Seq(Symbol)
        /\ \A i \in 1 .. Len(Plain(bytes)) : Plain(bytes)[i].of \in 0 .. n
    BY <1>1, GarbageFacts
  <2> QED BY <1>5, <2>1 DEF Emission, Fates
<1> QED BY <1>3, <1>4, <1>5 DEF Emit

LEMMA SendEmits ==
  ASSUME NEW c \in Commands, NEW p, frames \in Seq(Sent), Send(c, p)
  PROVE  Emission
<1>1. CASE Accept(c, p)
  <2>1. AckBody(AckAck, c) \in Bodies
    BY AckFacts
  <2> QED BY <1>1, <2>1, EmitFacts DEF Accept
<1>2. CASE RefuseCommand(c, p)
  <2> DEFINE body == AckBody(AckNak, c)
             frame == Frame(Len(frames) + 1, body)
  <2>1. body \in Bodies /\ Len(frames) + 1 \in Nat
    BY AckFacts
  <2>2. /\ frame \in Seq(Symbol)
        /\ \A i \in 1 .. Len(frame) : frame[i].of \in 0 .. Len(frames) + 1
    BY <2>1, FrameTyped, BodyFacts
  <2>3. Put(body, "whole", frame)
    BY <1>2 DEF RefuseCommand
  <2> QED BY <2>1, <2>2, <2>3 DEF Emission, Fates
<1>3. CASE NotHeard(p)
  BY <1>3 DEF NotHeard, Emission
<1> QED BY <1>1, <1>2, <1>3 DEF Send

LEMMA FixEmits ==
  ASSUME frames \in Seq(Sent), SendFix
  PROVE  Emission
<1>1. PICK fix \in Fixes : Emit(FixBody(fix), module.baud, port)
  BY DEF SendFix
<1>2. FixBody(fix) \in Bodies
  BY FixFacts
<1> QED BY <1>1, <1>2, EmitFacts

\* The frames that were there stay, and the new one begins behind all of them.
LEMMA PutFacts ==
  ASSUME FramesOK, NEW body \in Bodies, NEW fate \in Fates, NEW symbols \in Seq(Symbol),
         Put(body, fate, symbols), read' = read
  PROVE  /\ frames' \in Seq(Sent) /\ Len(frames') = Len(frames) + 1
         /\ \A f \in 1 .. Len(frames) : frames'[f] = frames[f]
         /\ frames'[Len(frames) + 1] =
              [body |-> body, fate |-> fate, first |-> read + Len(line) + 1,
               last |-> read + Len(line) + Len(symbols)]
         /\ line' \in Seq(Symbol) /\ Len(line') = Len(line) + Len(symbols)
         /\ Len(frames) \in Nat /\ Len(line) \in Nat /\ Len(symbols) \in Nat
         /\ \A i \in 1 .. Len(line) : line'[i] = line[i]
         /\ \A i \in 1 .. Len(symbols) : line'[Len(line) + i] = symbols[i]
<1> DEFINE r == [body |-> body, fate |-> fate, first |-> read + Len(line) + 1,
                 last |-> read + Len(line) + Len(symbols)]
<1>1. /\ frames \in Seq(Sent) /\ line \in Seq(Symbol) /\ read \in Nat
      /\ Len(frames) \in Nat /\ Len(line) \in Nat /\ Len(symbols) \in Nat
  BY DEF FramesOK
<1>2. r \in Sent
  BY <1>1 DEF Sent
<1>3. frames' = Append(frames, r) /\ line' = line \o symbols
  BY DEF Put
<1> HIDE DEF r
<1>4. /\ frames' \in Seq(Sent) /\ Len(frames') = Len(frames) + 1
      /\ \A f \in 1 .. Len(frames) : frames'[f] = frames[f]
      /\ frames'[Len(frames) + 1] = r
  BY <1>1, <1>2, <1>3, AppendProperties
<1>5. /\ line' \in Seq(Symbol) /\ Len(line') = Len(line) + Len(symbols)
      /\ \A i \in 1 .. Len(line) + Len(symbols) :
           line'[i] = IF i <= Len(line) THEN line[i] ELSE symbols[i - Len(line)]
  BY <1>1, <1>3, ConcatProperties
<1>6. \A i \in 1 .. Len(line) : line'[i] = line[i]
  BY <1>1, <1>5
<1>7. ASSUME NEW i \in 1 .. Len(symbols)
      PROVE  line'[Len(line) + i] = symbols[i]
  <2>1. /\ Len(line) + i \in 1 .. Len(line) + Len(symbols)
        /\ ~(Len(line) + i <= Len(line)) /\ (Len(line) + i) - Len(line) = i
    BY <1>1
  <2> QED BY <1>5, <2>1
<1> QED BY <1>1, <1>4, <1>5, <1>6, <1>7 DEF r

LEMMA EmitFrames ==
  ASSUME FramesOK, WholeOK, Emission, read' = read
  PROVE  FramesOK' /\ WholeOK'
<1>1. CASE UNCHANGED <<line, frames>>
  BY <1>1 DEF FramesOK, WholeOK
<1>2. ASSUME NEW body \in Bodies, NEW fate \in Fates, NEW symbols \in Seq(Symbol),
             Put(body, fate, symbols),
             \A i \in 1 .. Len(symbols) : symbols[i].of \in 0 .. Len(frames) + 1,
             fate = "whole" => symbols = Frame(Len(frames) + 1, body)
      PROVE  FramesOK' /\ WholeOK'
  <2> DEFINE n == Len(frames) + 1
             end == read + Len(line)
  <2>1. /\ frames' \in Seq(Sent) /\ Len(frames') = n
        /\ \A f \in 1 .. Len(frames) : frames'[f] = frames[f]
        /\ frames'[n].body = body /\ frames'[n].fate = fate
        /\ frames'[n].first = end + 1 /\ frames'[n].last = end + Len(symbols)
        /\ line' \in Seq(Symbol) /\ Len(line') = Len(line) + Len(symbols)
        /\ Len(frames) \in Nat /\ Len(line) \in Nat /\ Len(symbols) \in Nat
        /\ \A i \in 1 .. Len(line) : line'[i] = line[i]
        /\ \A i \in 1 .. Len(symbols) : line'[Len(line) + i] = symbols[i]
    <3>1. /\ frames' \in Seq(Sent) /\ Len(frames') = Len(frames) + 1
          /\ \A f \in 1 .. Len(frames) : frames'[f] = frames[f]
          /\ frames'[Len(frames) + 1] =
               [body |-> body, fate |-> fate, first |-> read + Len(line) + 1,
                last |-> read + Len(line) + Len(symbols)]
          /\ line' \in Seq(Symbol) /\ Len(line') = Len(line) + Len(symbols)
          /\ Len(frames) \in Nat /\ Len(line) \in Nat /\ Len(symbols) \in Nat
          /\ \A i \in 1 .. Len(line) : line'[i] = line[i]
          /\ \A i \in 1 .. Len(symbols) : line'[Len(line) + i] = symbols[i]
      BY <1>2, PutFacts
    <3> QED BY <3>1
  <2>2. /\ \A f \in 1 .. Len(frames) :
             frames[f].first \in Nat /\ frames[f].last \in Nat /\ frames[f].body \in Bodies
        /\ read \in Nat
    <3>1. frames \in Seq(Sent) /\ read \in Nat
      BY DEF FramesOK
    <3>2. \A f \in 1 .. Len(frames) : frames[f] \in Sent
      BY <3>1
    <3> QED BY <3>1, <3>2 DEF Sent
  <2>3. end \in Nat /\ n \in Nat /\ read + Len(line') = end + Len(symbols)
    BY <2>1, <2>2
  <2> HIDE DEF end
  <2>4. \A f \in 1 .. n : f = n \/ f \in 1 .. Len(frames)
    BY <2>1
  <2>5. \A f \in 1 .. Len(frames) :
          /\ 1 <= frames[f].first /\ frames[f].first <= frames[f].last + 1
          /\ frames[f].last <= end
    BY DEF FramesOK, end
  <2>6. \A i \in 1 .. Len(line') : line'[i].of \in 0 .. n
    <3>1. ASSUME NEW i \in 1 .. Len(line')
          PROVE  line'[i].of \in 0 .. n
      <4>1. CASE i \in 1 .. Len(line)
        <5>1. line[i].of \in 0 .. Len(frames)
          BY <4>1 DEF FramesOK
        <5> QED BY <2>1, <4>1, <5>1
      <4>2. CASE i \notin 1 .. Len(line)
        <5>1. PICK j \in 1 .. Len(symbols) : i = Len(line) + j
          <6>1. i - Len(line) \in 1 .. Len(symbols) /\ i = Len(line) + (i - Len(line))
            BY <2>1, <4>2
          <6> QED BY <6>1
        <5> QED BY <1>2, <2>1, <5>1
      <4> QED BY <4>1, <4>2
    <3> QED BY <3>1
  <2>7. \A f \in 1 .. n :
          /\ 1 <= frames'[f].first /\ frames'[f].first <= frames'[f].last + 1
          /\ frames'[f].last <= end + Len(symbols)
    <3>1. ASSUME NEW f \in 1 .. Len(frames)
          PROVE  /\ 1 <= frames'[f].first /\ frames'[f].first <= frames'[f].last + 1
                 /\ frames'[f].last <= end + Len(symbols)
      <4>1. frames'[f] = frames[f]
        BY <2>1
      <4>2. /\ frames[f].first \in Nat /\ frames[f].last \in Nat
            /\ 1 <= frames[f].first /\ frames[f].first <= frames[f].last + 1
            /\ frames[f].last <= end
        BY <2>2, <2>5
      <4> QED BY <2>1, <2>3, <4>1, <4>2
    <3>2. /\ 1 <= frames'[n].first /\ frames'[n].first <= frames'[n].last + 1
          /\ frames'[n].last <= end + Len(symbols)
      BY <2>1, <2>3
    <3> QED BY <2>4, <3>1, <3>2
  <2>8. \A f, g \in 1 .. n : f < g => frames'[f].last < frames'[g].first
    <3>1. ASSUME NEW f \in 1 .. n, NEW g \in 1 .. n, f < g
          PROVE  frames'[f].last < frames'[g].first
      <4>1. f \in 1 .. Len(frames)
        BY <2>1, <3>1
      <4>2. CASE g = n
        <5>1. frames'[f].last = frames[f].last /\ frames[f].last <= end
          BY <2>1, <2>5, <4>1
        <5>2. frames'[g].first = end + 1
          BY <2>1, <4>2
        <5>3. frames[f].last \in Nat /\ end \in Nat
          BY <2>2, <2>3, <4>1
        <5> HIDE DEF end, n
        <5> QED BY <5>1, <5>2, <5>3
      <4>3. CASE g \in 1 .. Len(frames)
        BY <2>1, <3>1, <4>1, <4>3 DEF FramesOK
      <4> QED BY <2>4, <4>2, <4>3
    <3> QED BY <3>1
  <2>9. \A p \in 1 .. end + Len(symbols) :
          \E f \in 1 .. n : frames'[f].first <= p /\ p <= frames'[f].last
    <3>1. ASSUME NEW p \in 1 .. end + Len(symbols)
          PROVE  \E f \in 1 .. n : frames'[f].first <= p /\ p <= frames'[f].last
      <4>1. CASE p <= end
        <5>1. p \in 1 .. end
          BY <2>3, <4>1
        <5>2. PICK f \in 1 .. Len(frames) : frames[f].first <= p /\ p <= frames[f].last
          BY <5>1 DEF FramesOK, end
        <5>3. f \in 1 .. n
          BY <2>1
        <5> QED BY <2>1, <5>2, <5>3
      <4>2. CASE ~(p <= end)
        BY <2>1, <2>3, <4>2
      <4> QED BY <4>1, <4>2
    <3> QED BY <3>1
  <2>10. FramesOK'
    BY <2>1, <2>2, <2>3, <2>6, <2>7, <2>8, <2>9 DEF FramesOK
  <2>11. ASSUME NEW f \in 1 .. n, frames'[f].fate = "whole"
         PROVE  /\ frames'[f].last = frames'[f].first + Len(frames'[f].body) + 2
                /\ \A p \in frames'[f].first .. frames'[f].last :
                     p > read => line'[p - read] = Frame(f, frames'[f].body)[p - frames'[f].first + 1]
    <3>1. CASE f = n
      <4>1. symbols = Frame(n, body) /\ Len(symbols) = Len(body) + 3 /\ Len(body) \in Nat
        <5>1. symbols = Frame(n, body)
          BY <1>2, <2>1, <2>11, <3>1
        <5> QED BY <2>3, <5>1, FrameFacts, BodyFacts
      <4>2. end + Len(symbols) = (end + 1) + Len(body) + 2
        BY <2>3, <4>1
      <4>3. ASSUME NEW p \in end + 1 .. end + Len(symbols)
            PROVE  line'[p - read] = symbols[p - (end + 1) + 1]
        <5>1. /\ p - end \in 1 .. Len(symbols) /\ p - read = Len(line) + (p - end)
              /\ p - (end + 1) + 1 = p - end
          BY <2>1, <2>2, <2>3 DEF end
        <5> QED BY <2>1, <5>1
      <4> QED BY <2>1, <3>1, <4>1, <4>2, <4>3
    <3>2. CASE f \in 1 .. Len(frames)
      <4>1. /\ frames[f].last = frames[f].first + Len(frames[f].body) + 2
            /\ \A p \in frames[f].first .. frames[f].last :
                 p > read => line[p - read] = Frame(f, frames[f].body)[p - frames[f].first + 1]
        BY <2>1, <2>11, <3>2 DEF WholeOK
      <4>2. ASSUME NEW p \in frames[f].first .. frames[f].last, p > read
            PROVE  line'[p - read] = line[p - read]
        <5>1. p - read \in 1 .. Len(line)
          BY <2>1, <2>2, <2>5, <3>2, <4>2 DEF end
        <5> QED BY <2>1, <5>1
      <4> QED BY <2>1, <3>2, <4>1, <4>2
    <3> QED BY <2>4, <3>1, <3>2
  <2>12. WholeOK'
    BY <2>1, <2>11 DEF WholeOK
  <2> QED BY <2>10, <2>12
<1> QED BY <1>1, <1>2 DEF Emission

-----------------------------------------------------------------------------
(* Recovery.                                                                  *)

LEMMA FrameTypes ==
  ASSUME FramesOK
  PROVE  /\ Len(frames) \in Nat /\ Len(line) \in Nat /\ read \in Nat
         /\ \A f \in 1 .. Len(frames) :
              /\ frames[f] \in Sent
              /\ frames[f].body \in Bodies /\ frames[f].fate \in Fates
              /\ frames[f].first \in Nat /\ frames[f].last \in Nat
<1>1. frames \in Seq(Sent) /\ read \in Nat /\ line \in Seq(Symbol)
  BY DEF FramesOK
<1>2. \A f \in 1 .. Len(frames) : frames[f] \in Sent
  BY <1>1
<1> QED BY <1>1, <1>2 DEF Sent

LEMMA CandidateFacts ==
  ASSUME ParserOK, CandidateOK, read \in Nat, ubx.state # "sync1"
  PROVE  /\ Start \in Nat /\ 1 <= Start /\ Start <= read /\ read <= Start + Grasp
         /\ ubx.body \in Seq(Byte) /\ Len(ubx.body) \in Nat
         /\ ubx.state # "sync2" => Len(ubx.body) = read - 1 - Start
<1>1. /\ ubx.body \in Seq(Byte) /\ Len(ubx.body) \in Nat
      /\ Len(ubx.body) <= 2 + MaxPayload /\ 1 <= Start
  BY DEF ParserOK, CandidateOK
<1>2. MaxPayload \in Nat /\ Grasp = MaxPayload + 3
  BY GpsConstants DEF Grasp
<1>3. CASE ubx.state = "sync2"
  <2>1. Start = read
    BY <1>3 DEF Start
  <2> QED BY <1>1, <1>2, <1>3, <2>1
<1>4. CASE ubx.state # "sync2"
  <2>1. Start = read - 1 - Len(ubx.body)
    BY <1>4 DEF Start
  <2> QED BY <1>1, <1>2, <2>1
<1> QED BY <1>3, <1>4

\* A quiet frame has a first sync byte at its beginning only.
LEMMA QuietFacts ==
  ASSUME FramesOK, WholeOK, NEW g \in 1 .. Len(frames), Quiet(frames[g]),
         NEW p \in frames[g].first .. frames[g].last,
         Frame(g, frames[g].body)[p - frames[g].first + 1].val = Sync1
  PROVE  p = frames[g].first
<1> DEFINE body == frames[g].body
           k == p - frames[g].first + 1
<1>1. /\ body \in Bodies /\ g \in Nat /\ frames[g].first \in Nat
      /\ frames[g].last \in Nat /\ Len(body) \in Nat
  BY FrameTypes, BodyFacts
<1>2. frames[g].last = frames[g].first + Len(body) + 2
  BY DEF WholeOK, Quiet
<1>3. k \in 1 .. Len(body) + 3
  <2> DEFINE a == frames[g].first
             m == Len(body)
  <2>1. p \in Nat /\ a \in Nat /\ m \in Nat /\ a <= p /\ p <= a + m + 2
    BY <1>1, <1>2
  <2> HIDE DEF a, m
  <2>2. p - a + 1 \in 1 .. m + 3
    BY <2>1
  <2> QED BY <2>2 DEF a, m
<1>s. Frame(g, body)[k].val = Sync1
  OBVIOUS
<1>f. /\ Frame(g, body)[2].val = Sync2
      /\ \A i \in 1 .. Len(body) : Frame(g, body)[i + 2].val = body[i]
      /\ Frame(g, body)[Len(body) + 3].val = Checksum(body)
      /\ Frame(0, body)[Len(body) + 3].val = Checksum(body)
  <2>1. 0 \in Nat /\ g \in Nat /\ body \in Bodies
    BY <1>1
  <2> HIDE DEF body
  <2>2. Frame(0, body)[Len(body) + 3] = [val |-> Checksum(body), of |-> 0]
    BY <2>1, FrameValues
  <2>3. /\ Frame(g, body)[2].val = Sync2
        /\ \A i \in 1 .. Len(body) : Frame(g, body)[i + 2].val = body[i]
        /\ Frame(g, body)[Len(body) + 3] = [val |-> Checksum(body), of |-> g]
    BY <2>1, FrameValues
  <2> QED BY <2>2, <2>3
<1>q. /\ \A i \in DOMAIN body : body[i] # Sync1
      /\ Frame(0, body)[3 + Len(body)].val # Sync1
  BY DEF Quiet
<1>d. DOMAIN body = 1 .. Len(body)
  BY <1>1, BodyFacts
<1> HIDE DEF k, body
<1>4. CASE k = 2
  BY <1>3, <1>s, <1>4, <1>f, GpsConstants
<1>5. CASE k \in 3 .. Len(body) + 2
  <2>1. k - 2 \in 1 .. Len(body) /\ (k - 2) + 2 = k
    BY <1>1, <1>5
  <2> QED BY <1>3, <1>s, <1>d, <1>f, <1>q, <2>1
<1>6. CASE k = Len(body) + 3
  <2>1. 3 + Len(body) = Len(body) + 3
    BY <1>1
  <2> QED BY <1>3, <1>s, <1>6, <1>f, <1>q, <2>1
<1>7. CASE k = 1
  BY <1>1, <1>7 DEF k
<1>8. k = 1 \/ k = 2 \/ k \in 3 .. Len(body) + 2 \/ k = Len(body) + 3
  BY <1>1, <1>3
<1> QED BY <1>4, <1>5, <1>6, <1>7, <1>8

\* A frame that covers what has been read lies in front of one that is not begun.
LEMMA CoverFacts ==
  ASSUME FramesOK, NEW f \in 1 .. Len(frames), frames[f].first = read + 1,
         NEW p \in 1 .. read
  PROVE  \E g \in 1 .. f - 1 :
           /\ g \in 1 .. Len(frames) /\ frames[g].first <= p /\ p <= frames[g].last
           /\ frames[g].last <= read
<1>1. /\ Len(frames) \in Nat /\ Len(line) \in Nat /\ read \in Nat
      /\ \A g \in 1 .. Len(frames) : frames[g].first \in Nat /\ frames[g].last \in Nat
  BY FrameTypes
<1>2. p \in 1 .. read + Len(line)
  BY <1>1
<1>3. PICK g \in 1 .. Len(frames) : frames[g].first <= p /\ p <= frames[g].last
  BY <1>2 DEF FramesOK
<1>4. f <= g => read < frames[g].first
  <2>1. frames[f].first <= frames[f].last + 1
    BY DEF FramesOK
  <2>2. f < g => frames[f].last < frames[g].first
    BY DEF FramesOK
  <2> QED BY <1>1, <2>1, <2>2
<1>5. g < f
  BY <1>1, <1>3, <1>4
<1>6. frames[g].last < frames[f].first
  BY <1>5 DEF FramesOK
<1>7. g \in 1 .. f - 1
  BY <1>1, <1>5
<1>8. frames[g].last <= read
  <2>1. frames[g].last \in Nat /\ read \in Nat /\ frames[g].last < read + 1
    BY <1>1, <1>6
  <2> QED BY <2>1
<1> QED BY <1>3, <1>7, <1>8

AtFrame == 
  \A f \in 1 .. Len(frames) :
    Clear(f) /\ frames[f].first = read + 1 => ubx.state = "sync1"

\* When a frame begins behind as many quiet symbols as a false frame can swallow,
\* the parser is not in one.
LEMMA FrameFound == StreamInv /\ CandidateOK => AtFrame
<1> SUFFICES ASSUME StreamInv, CandidateOK, NEW f \in 1 .. Len(frames), Clear(f),
                    frames[f].first = read + 1, ubx.state # "sync1"
             PROVE  FALSE
  BY DEF AtFrame
<1>1. /\ ParserOK /\ FramesOK /\ WholeOK /\ read \in Nat
      /\ \A g \in 1 .. Len(frames) :
           frames[g].first \in Nat /\ frames[g].last \in Nat /\ frames[g].body \in Bodies
  BY FrameTypes DEF StreamInv
<1>2. /\ Start \in Nat /\ 1 <= Start /\ Start <= read /\ read <= Start + Grasp
      /\ ubx.body \in Seq(Byte) /\ Len(ubx.body) \in Nat
      /\ ubx.state # "sync2" => Len(ubx.body) = read - 1 - Start
  BY <1>1, CandidateFacts
<1>3. Grasp \in Nat /\ Grasp >= 3
  BY GpsConstants DEF Grasp
<1>4. PICK g \in 1 .. f - 1 :
        /\ g \in 1 .. Len(frames) /\ frames[g].first <= Start /\ Start <= frames[g].last
        /\ frames[g].last <= read
  <2>1. Start \in 1 .. read
    BY <1>2
  <2> QED BY <1>1, <2>1, CoverFacts
<1>5. CASE Quiet(frames[g])
  <2> DEFINE body == frames[g].body
  <2>1. /\ frames[g].fate = "whole" /\ body \in Bodies /\ g \in Nat
        /\ frames[g].last = frames[g].first + Len(body) + 2
    BY <1>1, <1>5 DEF Quiet, WholeOK
  <2>2. \A p \in frames[g].first .. frames[g].last :
          Start <= p /\ p <= read =>
            Frame(g, body)[p - frames[g].first + 1].val = Seen(p - Start)
    BY <2>1, <1>4 DEF CandidateOK
  <2>3. Start = frames[g].first
    <3>1. Frame(g, body)[Start - frames[g].first + 1].val = Seen(Start - Start)
      BY <1>1, <1>2, <1>4, <2>2
    <3>2. Frame(g, body)[Start - frames[g].first + 1].val = Sync1
      BY <1>2, <3>1 DEF Seen
    <3>3. Start \in frames[g].first .. frames[g].last
      BY <1>1, <1>2, <1>4
    <3> QED BY <1>1, <1>4, <1>5, <3>2, <3>3, QuietFacts
  <2>4. Len(body) \in Nat /\ Len(body) = 2 + body[2] /\ body[2] \in Nat
    BY <2>1, BodyFacts
  <2>5. Start + 4 <= read /\ Start + 3 \in frames[g].first .. frames[g].last
    <3>1. Len(body) >= 2 /\ Start + Len(body) + 2 <= read
      BY <1>4, <2>1, <2>3, <2>4
    <3>2. frames[g].last = Start + Len(body) + 2
      BY <2>1, <2>3
    <3>3. Start \in Nat /\ read \in Nat /\ Len(body) \in Nat
      BY <1>1, <1>2, <2>4
    <3> HIDE DEF body
    <3>4. Start + 4 <= read
      BY <3>1, <3>3
    <3>5. Start + 3 \in Start .. Start + Len(body) + 2
      BY <3>1, <3>3
    <3> QED BY <2>3, <3>2, <3>4, <3>5
  <2>6. ubx.state \in {"payload", "checksum"} /\ Len(ubx.body) = read - 1 - Start
    <3>1. ubx.state # "sync2"
      BY <1>2, <2>5 DEF Start
    <3>2. Len(ubx.body) >= 3
      BY <1>1, <1>2, <2>5, <3>1
    <3>3. ubx.state # "class"
      <4>1. ubx.body = <<>> => Len(ubx.body) = 0
        OBVIOUS
      <4> QED BY <1>1, <3>2, <4>1 DEF ParserOK
    <3>4. ubx.state # "length"
      <4>1. ubx.state = "length" => Len(ubx.body) = 1
        BY <1>1 DEF ParserOK
      <4>2. 3 # 1 /\ ~(3 <= 1)
        OBVIOUS
      <4> QED BY <3>2, <4>1, <4>2
    <3>5. ubx.state \in UbxStates
      BY <1>1 DEF ParserOK
    <3> QED BY <1>2, <3>1, <3>3, <3>4, <3>5 DEF UbxStates
  <2>7. ubx.body[2] = body[2]
    <3>1. Frame(g, body)[(Start + 3) - frames[g].first + 1].val = Seen((Start + 3) - Start)
      BY <1>1, <1>2, <2>2, <2>5
    <3>2. (Start + 3) - Start = 3 /\ (Start + 3) - frames[g].first + 1 = 2 + 2
      BY <1>2, <2>3
    <3>3. 2 \in 1 .. Len(body)
      BY <2>4
    <3>4. Frame(g, body)[2 + 2].val = body[2]
      BY <2>1, <3>3, FrameValues
    <3>5. Seen(3) = ubx.body[2]
      BY DEF Seen
    <3> QED BY <3>1, <3>2, <3>4, <3>5
  <2>8. Len(ubx.body) <= 2 + ubx.body[2]
    <3>1. Len(ubx.body) < BodyLen \/ Len(ubx.body) = BodyLen
      BY <1>1, <2>6 DEF ParserOK
    <3> QED BY <1>2, <2>4, <2>7, <3>1 DEF BodyLen
  <2>9. Len(ubx.body) <= Len(body) /\ Len(ubx.body) = read - 1 - Start
    BY <2>4, <2>6, <2>7, <2>8
  <2>10. Start + Len(body) + 2 <= read
    BY <1>4, <2>1, <2>3
  <2>11. Start \in Nat /\ read \in Nat /\ Len(body) \in Nat /\ Len(ubx.body) \in Nat
    BY <1>1, <1>2, <2>4
  <2> HIDE DEF body
  <2> QED BY <2>9, <2>10, <2>11
<1>6. CASE ~Quiet(frames[g])
  <2>1. frames[g].last + Grasp < read + 1
    BY <1>1, <1>3, <1>4, <1>6 DEF Clear
  <2>2. frames[g].last = Start /\ read = Start + Grasp
    <3> DEFINE z == frames[g].last
    <3>1. Grasp \in Nat
      BY GpsConstants DEF Grasp
    <3>2. /\ z \in Nat /\ Start \in Nat /\ read \in Nat
          /\ z + Grasp < read + 1 /\ Start <= z /\ read <= Start + Grasp
      BY <1>1, <1>2, <1>4, <2>1
    <3> HIDE DEF z
    <3>3. z = Start /\ read = Start + Grasp
      BY <3>1, <3>2
    <3> QED BY <3>3 DEF z
  <2>3. Start + 1 \in 1 .. read /\ Start # read
    BY <1>2, <1>3, <2>2
  <2>4. PICK h \in 1 .. f - 1 :
          /\ h \in 1 .. Len(frames) /\ frames[h].first <= Start + 1
          /\ Start + 1 <= frames[h].last /\ frames[h].last <= read
    BY <1>1, <2>3, CoverFacts
  <2>5. frames[h].first = Start + 1
    <3>1. h # g
      BY <1>2, <2>2, <2>4
    <3>2. ~(h < g)
      <4>1. h < g => frames[h].last < frames[g].first
        BY <1>1, <1>4, <2>4 DEF FramesOK
      <4>2. /\ Start + 1 <= frames[h].last /\ frames[g].first <= Start
            /\ frames[h].last \in Nat /\ frames[g].first \in Nat /\ Start \in Nat
        BY <1>1, <1>2, <1>4, <2>4
      <4> QED BY <4>1, <4>2
    <3>3. g < h
      BY <3>1, <3>2
    <3>4. frames[g].last < frames[h].first
      BY <1>1, <1>4, <2>4, <3>3 DEF FramesOK
    <3> QED BY <1>1, <1>2, <2>2, <2>4, <3>4
  <2>6. Quiet(frames[h])
    <3>1. frames[h].last + Grasp >= read + 1
      BY <1>1, <1>2, <1>3, <2>2, <2>4
    <3> QED BY <2>4, <3>1 DEF Clear
  <2>7. Frame(h, frames[h].body)[(Start + 1) - frames[h].first + 1].val = Seen((Start + 1) - Start)
    <3>1. frames[h].fate = "whole" /\ Start + 1 \in frames[h].first .. frames[h].last
      BY <1>1, <1>2, <2>4, <2>6 DEF Quiet
    <3>2. Start <= Start + 1 /\ Start + 1 <= read
      BY <1>2, <2>3
    <3> QED BY <2>4, <3>1, <3>2 DEF CandidateOK
  <2>8. (Start + 1) - frames[h].first + 1 = 1 /\ (Start + 1) - Start = 1
    BY <1>2, <2>5
  <2>9. Frame(h, frames[h].body)[1].val = Sync1 /\ h \in Nat
    <3>1. frames[h].body \in Bodies /\ h \in Nat
      BY <1>1, <2>4
    <3> QED BY <3>1, FrameValues
  <2> QED BY <2>7, <2>8, <2>9, GpsConstants DEF Seen
<1> QED BY <1>5, <1>6

\* The parser takes one symbol.
LEMMA ParsedFacts ==
  ASSUME ubx \in [state : UbxStates, body : Seq(Byte)], NEW s \in Symbol
  PROVE  /\ ubx.state = "sync1" =>
              Parsed(s) = IF s.val = Sync1 THEN [state |-> "sync2", body |-> ubx.body] ELSE ubx
         /\ ubx.state = "sync2" =>
              Parsed(s) = [state |-> IF s.val = Sync2 THEN "class" ELSE "sync1", body |-> <<>>]
         /\ ubx.state = "class" =>
              Parsed(s) = [state |-> "length", body |-> Append(ubx.body, s.val)]
         /\ ubx.state = "length" =>
              Parsed(s) = [state |-> IF ~(s.val <= MaxPayload) THEN "sync1"
                                     ELSE IF s.val = 0 THEN "checksum" ELSE "payload",
                           body |-> Append(ubx.body, s.val)]
         /\ ubx.state = "payload" =>
              Parsed(s) = [state |-> IF Len(ubx.body) - 1 < ubx.body[2]
                                     THEN "payload" ELSE "checksum",
                           body |-> Append(ubx.body, s.val)]
         /\ ubx.state = "checksum" =>
              Parsed(s) = [state |-> "sync1", body |-> ubx.body]
<1>1. ASSUME ubx.state = "sync1"
      PROVE  Parsed(s) = IF s.val = Sync1 THEN [state |-> "sync2", body |-> ubx.body] ELSE ubx
  BY <1>1 DEF Parsed
<1>2. ASSUME ubx.state = "sync2"
      PROVE  Parsed(s) = [state |-> IF s.val = Sync2 THEN "class" ELSE "sync1", body |-> <<>>]
  BY <1>2 DEF Parsed
<1>3. ASSUME ubx.state = "class"
      PROVE  Parsed(s) = [state |-> "length", body |-> Append(ubx.body, s.val)]
  BY <1>3 DEF Parsed
<1>4. ASSUME ubx.state = "length"
      PROVE  Parsed(s) = [state |-> IF ~(s.val <= MaxPayload) THEN "sync1"
                                    ELSE IF s.val = 0 THEN "checksum" ELSE "payload",
                          body |-> Append(ubx.body, s.val)]
  BY <1>4 DEF Parsed, PayloadFits
<1>5. ASSUME ubx.state = "payload"
      PROVE  Parsed(s) = [state |-> IF Len(ubx.body) - 1 < ubx.body[2]
                                    THEN "payload" ELSE "checksum",
                          body |-> Append(ubx.body, s.val)]
  BY <1>5 DEF Parsed
<1>6. ASSUME ubx.state = "checksum"
      PROVE  Parsed(s) = [state |-> "sync1", body |-> ubx.body]
  BY <1>6 DEF Parsed, AfterChecksum
<1> QED BY <1>1, <1>2, <1>3, <1>4, <1>5, <1>6

LEMMA ParserStep ==
  ASSUME ParserOK, NEW s \in Symbol, ubx' = Parsed(s)
  PROVE  ParserOK'
<1>1. /\ ubx \in [state : UbxStates, body : Seq(Byte)]
      /\ ubx.body \in Seq(Byte) /\ Len(ubx.body) \in Nat /\ Len(ubx.body) <= 2 + MaxPayload
      /\ s.val \in Byte /\ s.val \in Nat /\ MaxPayload \in Nat
  <2>1. /\ ubx \in [state : UbxStates, body : Seq(Byte)] /\ Len(ubx.body) <= 2 + MaxPayload
    BY DEF ParserOK
  <2>2. s.val \in Byte
    BY DEF Symbol
  <2>3. ubx.body \in Seq(Byte) /\ Len(ubx.body) \in Nat
    BY <2>1
  <2>4. s.val \in Nat /\ MaxPayload \in Nat
    BY <2>2, GpsConstants
  <2> QED BY <2>1, <2>2, <2>3, <2>4
<1> DEFINE b == Append(ubx.body, s.val)
<1>2. /\ b \in Seq(Byte) /\ Len(b) = Len(ubx.body) + 1
      /\ \A i \in 1 .. Len(ubx.body) : b[i] = ubx.body[i]
      /\ b[Len(ubx.body) + 1] = s.val
  BY <1>1, AppendProperties
<1> HIDE DEF b
<1>3. CASE ubx.state = "sync1"
  <2>1. ubx' = IF s.val = Sync1 THEN [state |-> "sync2", body |-> ubx.body] ELSE ubx
    BY <1>1, <1>3, ParsedFacts
  <2> QED BY <1>1, <1>3, <2>1 DEF ParserOK, UbxStates
<1>4. CASE ubx.state = "sync2"
  <2>1. ubx' = [state |-> IF s.val = Sync2 THEN "class" ELSE "sync1", body |-> <<>>]
    BY <1>1, <1>4, ParsedFacts
  <2>2. <<>> \in Seq(Byte) /\ Len(<<>>) = 0
    OBVIOUS
  <2> QED BY <1>1, <2>1, <2>2 DEF ParserOK, UbxStates
<1>5. CASE ubx.state = "class"
  <2>1. ubx' = [state |-> "length", body |-> b]
    BY <1>1, <1>5, ParsedFacts DEF b
  <2>2. Len(b) = 1
    BY <1>2, <1>5 DEF ParserOK
  <2>3. ubx'.body = b /\ ubx'.state = "length"
    BY <2>1
  <2>4. ubx' \in [state : UbxStates, body : Seq(Byte)]
    BY <1>2, <2>1 DEF UbxStates
  <2>5. Len(ubx'.body) <= 2 + MaxPayload /\ Len(ubx'.body) = 1
    <3>1. Len(ubx'.body) = 1
      BY <2>2, <2>3
    <3>2. 1 <= 2 + MaxPayload
      BY GpsConstants
    <3> QED BY <3>1, <3>2
  <2> QED BY <2>3, <2>4, <2>5 DEF ParserOK
<1>6. CASE ubx.state = "length"
  <2>1. ubx' = [state |-> IF ~(s.val <= MaxPayload) THEN "sync1"
                          ELSE IF s.val = 0 THEN "checksum" ELSE "payload", body |-> b]
    BY <1>1, <1>6, ParsedFacts DEF b
  <2>2. Len(b) = 2 /\ b[2] = s.val
    BY <1>2, <1>6 DEF ParserOK
  <2>3. ubx'.body = b /\ ubx' \in [state : UbxStates, body : Seq(Byte)]
    BY <1>2, <2>1 DEF UbxStates
  <2>4. /\ ubx'.state \in {"sync1", "payload", "checksum"}
        /\ ubx'.state \in {"payload", "checksum"} => s.val <= MaxPayload
        /\ ubx'.state = "payload" => s.val # 0
        /\ ubx'.state = "checksum" => s.val = 0
    BY <2>1
  <2>5. /\ Len(ubx'.body) <= 2 + MaxPayload
        /\ ubx'.state \in {"payload", "checksum"} => Len(ubx'.body) >= 2 /\ ubx'.body[2] <= MaxPayload
        /\ ubx'.state = "payload" => Len(ubx'.body) < 2 + ubx'.body[2]
        /\ ubx'.state = "checksum" => Len(ubx'.body) = 2 + ubx'.body[2]
    <3>1. Len(ubx'.body) = 2 /\ ubx'.body[2] = s.val
      BY <2>2, <2>3
    <3>2. /\ ubx'.state = "payload" => 2 < 2 + s.val
          /\ ubx'.state = "checksum" => 2 = 2 + s.val
          /\ 2 <= 2 + MaxPayload
      BY <1>1, <2>4
    <3> QED BY <2>4, <3>1, <3>2
  <2> QED BY <2>3, <2>4, <2>5 DEF ParserOK, BodyLen
<1>7. CASE ubx.state = "payload"
  <2>1. ubx' = [state |-> IF Len(ubx.body) - 1 < ubx.body[2] THEN "payload" ELSE "checksum",
                body |-> b]
    BY <1>1, <1>7, ParsedFacts DEF b
  <2>2. /\ Len(ubx.body) >= 2 /\ ubx.body[2] <= MaxPayload
        /\ Len(ubx.body) < 2 + ubx.body[2]
    BY <1>7 DEF ParserOK, BodyLen
  <2>3. ubx.body[2] \in Nat /\ b[2] = ubx.body[2]
    <3>1. 2 \in 1 .. Len(ubx.body)
      BY <1>1, <2>2
    <3>2. ubx.body[2] \in Byte
      BY <1>1, <3>1
    <3> QED BY <1>2, <3>1, <3>2, GpsConstants
  <2>4. ubx'.body = b /\ ubx' \in [state : UbxStates, body : Seq(Byte)]
    BY <1>2, <2>1 DEF UbxStates
  <2>5. /\ ubx'.state \in {"payload", "checksum"}
        /\ ubx'.state = "payload" => Len(ubx.body) - 1 < ubx.body[2]
        /\ ubx'.state = "checksum" => ~(Len(ubx.body) - 1 < ubx.body[2])
    BY <2>1
  <2>6. /\ Len(b) <= 2 + MaxPayload /\ Len(b) >= 2
        /\ ubx'.state = "payload" => Len(b) < 2 + b[2]
        /\ ubx'.state = "checksum" => Len(b) = 2 + b[2]
    BY <1>1, <1>2, <2>2, <2>3, <2>5
  <2> QED BY <2>2, <2>3, <2>4, <2>5, <2>6 DEF ParserOK, BodyLen
<1>8. CASE ubx.state = "checksum"
  <2>1. ubx' = [state |-> "sync1", body |-> ubx.body]
    BY <1>1, <1>8, ParsedFacts
  <2> QED BY <1>1, <2>1 DEF ParserOK, UbxStates
<1> QED BY <1>1, <1>3, <1>4, <1>5, <1>6, <1>7, <1>8 DEF UbxStates

\* A parser in step with a frame stays in step, and takes it with its checksum.
LEMMA InStepKept ==
  ASSUME ParserOK, NEW n \in Nat, NEW body \in Bodies, NEW k \in 0 .. Len(body) + 1,
         InStep(body, k), ubx' = Parsed(Frame(n, body)[k + 1])
  PROVE  InStep(body, k + 1)'
<1> DEFINE s == Frame(n, body)[k + 1]
           b == Append(ubx.body, s.val)
<1>1. /\ ubx \in [state : UbxStates, body : Seq(Byte)]
      /\ ubx.body \in Seq(Byte) /\ Len(ubx.body) \in Nat
      /\ MaxPayload \in Nat
  BY GpsConstants DEF ParserOK
<1>2. /\ body \in Seq(Byte) /\ Len(body) \in Nat /\ Len(body) = 2 + body[2]
      /\ body[2] \in Nat /\ body[2] <= MaxPayload
  BY BodyFacts, GpsConstants
<1>3. /\ Frame(n, body) \in Seq(Symbol) /\ Len(Frame(n, body)) = Len(body) + 3
      /\ Frame(n, body)[1].val = Sync1 /\ Frame(n, body)[2].val = Sync2
      /\ \A i \in 1 .. Len(body) : Frame(n, body)[i + 2].val = body[i]
  <2>1. Frame(n, body) \in Seq(Symbol) /\ Len(Frame(n, body)) = Len(body) + 3
    BY FrameTyped
  <2>2. /\ Frame(n, body)[1].val = Sync1 /\ Frame(n, body)[2].val = Sync2
        /\ \A i \in 1 .. Len(body) : Frame(n, body)[i + 2].val = body[i]
    BY FrameValues
  <2> QED BY <2>1, <2>2
<1>4. s \in Symbol
  <2> DEFINE m == Len(body)
  <2>1. m \in Nat /\ k \in 0 .. m + 1
    BY <1>2
  <2> HIDE DEF m
  <2>2. k + 1 \in 1 .. m + 3
    BY <2>1
  <2> QED BY <1>3, <2>2 DEF m
<1>5. CASE k = 0
  <2>1. ubx.state = "sync1" /\ s.val = Sync1
    BY <1>3, <1>5 DEF InStep, StateAt
  <2>2. ubx'.state = "sync2"
    BY <1>1, <1>4, <2>1, ParsedFacts
  <2> QED BY <1>5, <2>2 DEF InStep, StateAt
<1>6. CASE k = 1
  <2>1. ubx.state = "sync2" /\ s.val = Sync2
    BY <1>3, <1>6 DEF InStep, StateAt
  <2>2. ubx'.state = "class" /\ ubx'.body = <<>>
    BY <1>1, <1>4, <2>1, ParsedFacts
  <2> QED BY <1>6, <2>2 DEF InStep, StateAt
<1>7. CASE k >= 2
  <2>1. /\ Len(ubx.body) = k - 2 /\ \A i \in 1 .. k - 2 : ubx.body[i] = body[i]
    BY <1>7 DEF InStep, StateAt
  <2>2. s.val = body[k - 1] /\ s.val \in Byte
    <3>1. k - 1 \in 1 .. Len(body) /\ (k - 1) + 2 = k + 1
      BY <1>2, <1>7
    <3>2. Frame(n, body)[(k - 1) + 2].val = body[k - 1]
      BY <1>3, <3>1
    <3>3. s.val = body[k - 1]
      BY <3>1, <3>2
    <3>4. body[k - 1] \in Byte
      BY <1>2, <3>1
    <3> QED BY <3>3, <3>4
  <2>3. /\ b \in Seq(Byte) /\ Len(b) = k - 1 /\ \A i \in 1 .. k - 1 : b[i] = body[i]
    <3>1. /\ b \in Seq(Byte) /\ Len(b) = Len(ubx.body) + 1
          /\ \A i \in 1 .. Len(ubx.body) : b[i] = ubx.body[i]
          /\ b[Len(ubx.body) + 1] = s.val
      BY <1>1, <2>2, AppendProperties
    <3>2. Len(ubx.body) + 1 = k - 1
      BY <2>1
    <3>3. ASSUME NEW i \in 1 .. k - 1
          PROVE  b[i] = body[i]
      <4>1. CASE i = k - 1
        BY <2>2, <3>1, <3>2, <4>1
      <4>2. CASE i # k - 1
        <5>1. i \in 1 .. k - 2
          BY <4>2
        <5> QED BY <2>1, <3>1, <5>1
      <4> QED BY <4>1, <4>2
    <3> QED BY <3>1, <3>2, <3>3
  <2> HIDE DEF b
  <2>4. ubx'.body = b /\ ubx'.state = IF k = 2 THEN "length"
                                       ELSE IF k < Len(body) + 1 THEN "payload"
                                       ELSE "checksum"
    <3>1. CASE k = 2
      <4>1. ubx.state = "class"
        BY <3>1 DEF InStep, StateAt
      <4> QED BY <1>1, <1>4, <3>1, <4>1, ParsedFacts DEF b
    <3>2. CASE k = 3
      <4>1. ubx.state = "length"
        BY <3>2 DEF InStep, StateAt
      <4>2. ubx'.body = b /\ ubx'.state = IF ~(s.val <= MaxPayload) THEN "sync1"
                                          ELSE IF s.val = 0 THEN "checksum" ELSE "payload"
        BY <1>1, <1>4, <4>1, ParsedFacts DEF b
      <4>3. s.val = body[2]
        BY <2>2, <3>2
      <4> HIDE DEF s
      <4>4. ubx'.state = IF body[2] = 0 THEN "checksum" ELSE "payload"
        BY <1>2, <4>2, <4>3
      <4>5. k < Len(body) + 1 <=> body[2] # 0
        BY <1>2, <3>2
      <4> QED BY <3>2, <4>2, <4>4, <4>5
    <3>3. CASE k > 3
      <4>1. ubx.state = "payload" /\ Len(ubx.body) = k - 2
        <5>1. k <= Len(body) + 1 /\ k < Len(body) + 2
          BY <1>2
        <5>2. StateAt(body, k) = "payload"
          BY <3>3, <5>1 DEF StateAt
        <5> QED BY <2>1, <5>2 DEF InStep
      <4>2. ubx'.body = b /\ ubx'.state = IF Len(ubx.body) - 1 < ubx.body[2]
                                          THEN "payload" ELSE "checksum"
        BY <1>1, <1>4, <4>1, ParsedFacts DEF b
      <4>3. ubx.body[2] = body[2]
        BY <2>1, <3>3
      <4>4. Len(ubx.body) - 1 < ubx.body[2] <=> k < Len(body) + 1
        BY <1>2, <4>1, <4>3
      <4> QED BY <3>3, <4>2, <4>4
    <3> QED BY <1>7, <3>1, <3>2, <3>3
  <2>5. ubx'.state = StateAt(body, k + 1)
    <3>1. /\ k + 1 # 0 /\ k + 1 # 1 /\ k + 1 # 2 /\ (k + 1 = 3 <=> k = 2)
          /\ k + 1 < Len(body) + 2 <=> k < Len(body) + 1
      BY <1>2, <1>7
    <3> QED BY <2>4, <3>1 DEF StateAt
  <2>6. (k + 1) - 2 = k - 1
    OBVIOUS
  <2> QED BY <2>3, <2>4, <2>5, <2>6 DEF InStep
<1> QED BY <1>5, <1>6, <1>7

\* A symbol read: what the other invariants of the stream are told of it.
LEMMA ReadFrames ==
  ASSUME FramesOK, WholeOK, line # <<>>, line' = Tail(line), read' = read + 1,
         frames' = frames
  PROVE  /\ FramesOK' /\ WholeOK'
         /\ Head(line) \in Symbol /\ Head(line).of \in 0 .. Len(frames)
         /\ \A f \in 1 .. Len(frames) :
              frames[f].fate = "whole" =>
                \A k \in 1 .. Len(frames[f].body) + 3 :
                  frames[f].first + k = read + 2 =>
                    Head(line) = Frame(f, frames[f].body)[k]
<1>1. /\ Len(frames) \in Nat /\ Len(line) \in Nat /\ read \in Nat /\ line \in Seq(Symbol)
      /\ \A f \in 1 .. Len(frames) :
           frames[f].first \in Nat /\ frames[f].last \in Nat
  BY FrameTypes DEF FramesOK
<1>2. /\ Len(line) >= 1 /\ Head(line) = line[1] /\ Head(line) \in Symbol
      /\ Tail(line) \in Seq(Symbol) /\ Len(Tail(line)) = Len(line) - 1
      /\ \A i \in 1 .. Len(line) - 1 : Tail(line)[i] = line[i + 1]
  <2>1. line # <<>> /\ Len(line) # 0
    BY <1>1
  <2> QED BY <1>1, <2>1, HeadTailProperties
<1>3. /\ line' \in Seq(Symbol) /\ Len(line') = Len(line) - 1 /\ read' \in Nat
      /\ read' + Len(line') = read + Len(line)
      /\ \A i \in 1 .. Len(line') : line'[i] = line[i + 1]
  BY <1>1, <1>2
<1>4. FramesOK'
  <2>1. ASSUME NEW i \in 1 .. Len(line')
        PROVE  line'[i].of \in 0 .. Len(frames)
    <3>1. i + 1 \in 1 .. Len(line)
      BY <1>1, <1>3
    <3> QED BY <1>3, <3>1 DEF FramesOK
  <2> QED BY <1>3, <2>1 DEF FramesOK
<1>5. WholeOK'
  <2> SUFFICES ASSUME NEW f \in 1 .. Len(frames), frames[f].fate = "whole",
                      NEW p \in frames[f].first .. frames[f].last, p > read'
               PROVE  line'[p - read'] = Frame(f, frames[f].body)[p - frames[f].first + 1]
    BY DEF WholeOK
  <2>1. frames[f].last <= read + Len(line)
    BY DEF FramesOK
  <2>2. /\ p > read /\ p - read' \in 1 .. Len(line') /\ (p - read') + 1 = p - read
    <3> DEFINE z == frames[f].last
               n == Len(line)
    <3>1. /\ z \in Nat /\ n \in Nat /\ read \in Nat /\ read' = read + 1
          /\ p \in Nat /\ p <= z /\ p > read' /\ z <= read + n /\ Len(line') = n - 1
      BY <1>1, <1>3, <2>1
    <3> HIDE DEF z, n
    <3> QED BY <3>1
  <2>3. line[p - read] = Frame(f, frames[f].body)[p - frames[f].first + 1]
    BY <2>2 DEF WholeOK
  <2> QED BY <1>3, <2>2, <2>3
<1>6. ASSUME NEW f \in 1 .. Len(frames), frames[f].fate = "whole",
             NEW k \in 1 .. Len(frames[f].body) + 3, frames[f].first + k = read + 2
      PROVE  Head(line) = Frame(f, frames[f].body)[k]
  <2> DEFINE m == Len(frames[f].body)
             a == frames[f].first
             z == frames[f].last
  <2>1. m \in Nat /\ a \in Nat /\ z \in Nat /\ read \in Nat
    BY <1>1, FrameTypes, BodyFacts
  <2>2. z = a + m + 2 /\ k \in 1 .. m + 3 /\ a + k = read + 2
    BY <1>6 DEF WholeOK
  <2> HIDE DEF m, a, z
  <2>3. /\ read + 1 \in a .. z /\ read + 1 > read
        /\ (read + 1) - a + 1 = k /\ (read + 1) - read = 1
    BY <2>1, <2>2
  <2>4. line[(read + 1) - read] = Frame(f, frames[f].body)[(read + 1) - a + 1]
    BY <1>6, <2>3 DEF WholeOK, a, z
  <2> QED BY <1>2, <2>3, <2>4
<1>7. Head(line).of \in 0 .. Len(frames)
  BY <1>1, <1>2 DEF FramesOK
<1> QED BY <1>2, <1>4, <1>5, <1>6, <1>7

LEMMA CandidateRead ==
  ASSUME StreamInv, CandidateOK, ReadSymbol, frames' = frames, cuts' = cuts
  PROVE  StreamInv' /\ CandidateOK'
<1> DEFINE s == Head(line)
           b == Append(ubx.body, s.val)
<1>1. /\ ParserOK /\ FramesOK /\ WholeOK /\ cuts \subseteq 0 .. read
      /\ line # <<>> /\ line' = Tail(line) /\ read' = read + 1 /\ ubx' = Parsed(s)
      /\ read \in Nat
  BY DEF StreamInv, ReadSymbol, FramesOK
<1>2. /\ FramesOK' /\ WholeOK' /\ s \in Symbol
      /\ \A f \in 1 .. Len(frames) :
           frames[f].fate = "whole" =>
             \A k \in 1 .. Len(frames[f].body) + 3 :
               frames[f].first + k = read + 2 => s = Frame(f, frames[f].body)[k]
  BY <1>1, ReadFrames
<1> HIDE DEF s
<1>3. ParserOK'
  BY <1>1, <1>2, ParserStep
<1>4. StreamInv'
  <2>1. cuts' \subseteq 0 .. read'
    BY <1>1
  <2> QED BY <1>2, <1>3, <2>1 DEF StreamInv
<1>5. /\ ubx \in [state : UbxStates, body : Seq(Byte)] /\ ubx.body \in Seq(Byte)
      /\ Len(ubx.body) \in Nat
  BY <1>1 DEF ParserOK
<1>6. ASSUME NEW f \in 1 .. Len(frames), frames[f].fate = "whole",
             NEW p \in frames[f].first .. frames[f].last, p = read'
      PROVE  s = Frame(f, frames[f].body)[p - frames[f].first + 1]
  <2> DEFINE k == p - frames[f].first + 1
             m == Len(frames[f].body)
             a == frames[f].first
             z == frames[f].last
  <2>1. m \in Nat /\ z = a + m + 2 /\ a \in Nat /\ z \in Nat
    BY <1>1, <1>6, FrameTypes, BodyFacts DEF WholeOK
  <2>2. p = read + 1 /\ p \in a .. z
    BY <1>1, <1>6
  <2> HIDE DEF m, a, z
  <2>3. p - a + 1 \in 1 .. m + 3 /\ a + (p - a + 1) = read + 2
    BY <1>1, <2>1, <2>2
  <2>4. k \in 1 .. Len(frames[f].body) + 3 /\ frames[f].first + k = read + 2
    BY <2>3 DEF m, a
  <2> HIDE DEF k
  <2>5. s = Frame(f, frames[f].body)[k]
    BY <1>2, <1>6, <2>4
  <2> QED BY <2>5 DEF k
<1>7. CandidateOK'
  <2> SUFFICES ASSUME ubx'.state # "sync1"
               PROVE  CandidateOK'
    BY DEF CandidateOK
  <2>1. ASSUME 1 <= Start', \A c \in cuts : c < Start',
               \A f \in 1 .. Len(frames) :
                 frames[f].fate = "whole" =>
                   \A p \in frames[f].first .. frames[f].last :
                     Start' <= p /\ p <= read' =>
                       Frame(f, frames[f].body)[p - frames[f].first + 1].val = Seen(p - Start)'
        PROVE  CandidateOK'
    BY <2>1 DEF CandidateOK
  <2>2. CASE ubx.state = "sync1"
    <3>1. s.val = Sync1 /\ ubx'.state = "sync2"
      BY <1>2, <1>5, <1>1, <2>2, ParsedFacts
    <3>2. Start' = read'
      BY <3>1 DEF Start
    <3>3. 1 <= read' /\ \A c \in cuts : c < read'
      BY <1>1
    <3>4. ASSUME NEW f \in 1 .. Len(frames), frames[f].fate = "whole",
                 NEW p \in frames[f].first .. frames[f].last, read' <= p, p <= read'
          PROVE  Frame(f, frames[f].body)[p - frames[f].first + 1].val = Seen(p - Start)'
      <4>1. frames[f].first \in Nat /\ frames[f].last \in Nat
        BY <1>1, FrameTypes
      <4>2. p = read' /\ p - Start' = 0
        BY <1>1, <3>2, <3>4, <4>1
      <4>3. Seen(p - Start)' = Sync1
        BY <4>2 DEF Seen
      <4>4. s = Frame(f, frames[f].body)[p - frames[f].first + 1]
        BY <1>6, <3>4, <4>2
      <4> QED BY <3>1, <4>3, <4>4
    <3> QED BY <2>1, <3>2, <3>3, <3>4
  <2>3. CASE ubx.state # "sync1"
    <3>1. /\ Start \in Nat /\ 1 <= Start /\ Start <= read
          /\ ubx.state # "sync2" => Len(ubx.body) = read - 1 - Start
      BY <1>1, <2>3, CandidateFacts
    <3>2. Start' = Start /\ ubx'.state # "sync2"
      <4>1. CASE ubx.state = "sync2"
        <5>1. ubx'.state # "sync2" /\ ubx'.body = <<>>
          BY <1>1, <1>2, <1>5, <4>1, ParsedFacts
        <5>2. Start = read /\ Start' = read' - 1 - 0
          BY <4>1, <5>1 DEF Start
        <5> QED BY <1>1, <5>1, <5>2
      <4>2. CASE ubx.state \in {"class", "length", "payload"}
        <5>1. ubx'.state # "sync2" /\ ubx'.body = Append(ubx.body, s.val)
          BY <1>1, <1>2, <1>5, <4>2, ParsedFacts
        <5>2. Len(ubx'.body) = Len(ubx.body) + 1
          BY <1>5, <5>1
        <5>3. Start = read - 1 - Len(ubx.body) /\ Start' = read' - 1 - Len(ubx'.body)
          BY <4>2, <5>1 DEF Start
        <5> QED BY <1>1, <1>5, <5>1, <5>2, <5>3
      <4>3. ubx.state # "checksum"
        BY <1>1, <1>2, <1>5, ParsedFacts
      <4> QED BY <1>5, <2>3, <4>1, <4>2, <4>3 DEF UbxStates
    <3>3. \A k \in 0 .. read - Start : Seen(k)' = Seen(k)
      <4> SUFFICES ASSUME NEW k \in 0 .. read - Start
                   PROVE  Seen(k)' = Seen(k)
        OBVIOUS
      <4>1. CASE k \in {0, 1}
        BY <4>1 DEF Seen
      <4>2. CASE k >= 2
        <5>1. ubx.state # "sync2" /\ ubx.state # "class"
          <6>1. ubx.state = "sync2" => Start = read
            BY DEF Start
          <6>2. ubx.state = "class" => Start = read - 1
            BY <1>1, <1>5 DEF Start, ParserOK
          <6> QED BY <1>1, <3>1, <4>2, <6>1, <6>2
        <5>2. ubx.state \in {"length", "payload"}
          <6>1. ubx.state # "checksum"
            BY <1>1, <1>2, <1>5, ParsedFacts
          <6> QED BY <1>5, <2>3, <5>1, <6>1 DEF UbxStates
        <5>3. ubx'.body = Append(ubx.body, s.val)
          BY <1>1, <1>2, <1>5, <5>2, ParsedFacts
        <5>4. k - 1 \in 1 .. Len(ubx.body)
          BY <1>1, <3>1, <4>2, <5>1
        <5>5. ubx'.body[k - 1] = ubx.body[k - 1]
          BY <1>5, <5>3, <5>4
        <5> QED BY <4>2, <5>5 DEF Seen
      <4> QED BY <1>1, <3>1, <4>1, <4>2
    <3>4. ASSUME NEW k \in Nat, k = read + 1 - Start
          PROVE  Seen(k)' = s.val
      <4>1. CASE ubx.state = "sync2"
        <5>1. s.val = Sync2
          BY <1>1, <1>2, <1>5, <4>1, ParsedFacts
        <5>2. Start = read
          BY <4>1 DEF Start
        <5>3. k = 1
          BY <1>1, <3>4, <5>2
        <5> QED BY <5>1, <5>3 DEF Seen
      <4>2. CASE ubx.state # "sync2"
        <5>1. ubx.state \in {"class", "length", "payload"}
          <6>1. ubx.state # "checksum"
            BY <1>1, <1>2, <1>5, ParsedFacts
          <6> QED BY <1>5, <2>3, <4>2, <6>1 DEF UbxStates
        <5>2. ubx'.body = Append(ubx.body, s.val)
          BY <1>1, <1>2, <1>5, <5>1, ParsedFacts
        <5>3. ubx'.body[Len(ubx.body) + 1] = s.val
          BY <1>5, <5>2
        <5>4. k = Len(ubx.body) + 2 /\ k - 1 = Len(ubx.body) + 1 /\ k # 0 /\ k # 1
          BY <1>1, <1>5, <3>1, <3>4, <4>2
        <5> QED BY <5>3, <5>4 DEF Seen
      <4> QED BY <4>1, <4>2
    <3>5. ASSUME NEW f \in 1 .. Len(frames), frames[f].fate = "whole",
                 NEW p \in frames[f].first .. frames[f].last, Start <= p, p <= read'
          PROVE  Frame(f, frames[f].body)[p - frames[f].first + 1].val = Seen(p - Start)'
      <4>1. frames[f].first \in Nat /\ frames[f].last \in Nat
        BY <1>1, FrameTypes
      <4>2. CASE p = read'
        <5>1. p - Start \in Nat /\ p - Start = read + 1 - Start
          BY <1>1, <3>1, <3>5, <4>2
        <5>2. \A k \in Nat : k = p - Start => Seen(k)' = s.val
          BY <3>4, <5>1
        <5>3. Seen(p - Start)' = s.val
          BY <3>2, <5>1, <5>2
        <5>4. s = Frame(f, frames[f].body)[p - frames[f].first + 1]
          BY <1>6, <1>1, <3>5, <4>2
        <5> HIDE DEF s
        <5> QED BY <5>3, <5>4
      <4>3. CASE p # read'
        <5>1. p <= read /\ p - Start \in 0 .. read - Start
          BY <1>1, <3>1, <3>5, <4>1, <4>3
        <5>2. Frame(f, frames[f].body)[p - frames[f].first + 1].val = Seen(p - Start)
          BY <2>3, <3>5, <5>1 DEF CandidateOK
        <5> QED BY <3>2, <3>3, <5>1, <5>2
      <4> QED BY <4>2, <4>3
    <3>6. \A c \in cuts : c < Start
      BY <2>3 DEF CandidateOK
    <3> QED BY <2>1, <3>1, <3>2, <3>5, <3>6
  <2> QED BY <2>2, <2>3
<1> QED BY <1>4, <1>7

\* What is on the line already stays as it is, and what comes is not begun.
LEMMA EmittedFacts ==
  ASSUME FramesOK, Emission, read' = read
  PROVE  /\ Len(frames') \in Nat /\ Len(frames) <= Len(frames')
         /\ \A f \in 1 .. Len(frames) : frames'[f] = frames[f]
         /\ \A f \in 1 .. Len(frames') : f \notin 1 .. Len(frames) =>
              f = Len(frames) + 1 /\ frames'[f].first = read + Len(line) + 1
<1>1. Len(frames) \in Nat
  BY FrameTypes
<1>2. CASE UNCHANGED <<line, frames>>
  BY <1>1, <1>2
<1>3. ASSUME NEW body \in Bodies, NEW fate \in Fates, NEW symbols \in Seq(Symbol),
             Put(body, fate, symbols)
      PROVE  /\ Len(frames') = Len(frames) + 1
             /\ \A f \in 1 .. Len(frames) : frames'[f] = frames[f]
             /\ frames'[Len(frames) + 1].first = read + Len(line) + 1
  <2>1. /\ Len(frames') = Len(frames) + 1
        /\ \A f \in 1 .. Len(frames) : frames'[f] = frames[f]
        /\ frames'[Len(frames) + 1] =
             [body |-> body, fate |-> fate, first |-> read + Len(line) + 1,
              last |-> read + Len(line) + Len(symbols)]
    BY <1>3, PutFacts
  <2> QED BY <2>1
<1>4. CASE ~(UNCHANGED <<line, frames>>)
  <2>1. PICK body \in Bodies, fate \in Fates, symbols \in Seq(Symbol) :
          Put(body, fate, symbols)
    BY <1>4 DEF Emission
  <2>2. /\ Len(frames') = Len(frames) + 1
        /\ \A f \in 1 .. Len(frames) : frames'[f] = frames[f]
        /\ frames'[Len(frames) + 1].first = read + Len(line) + 1
    BY <1>3, <2>1
  <2>3. \A f \in 1 .. Len(frames') : f \notin 1 .. Len(frames) => f = Len(frames) + 1
    BY <1>1, <2>2
  <2> QED BY <1>1, <2>2, <2>3
<1> QED BY <1>2, <1>4

ParserKept == ubx' = ubx /\ cuts' = cuts
ParserReset == ubx' = UbxOpen /\ cuts' = cuts \cup {read}

LEMMA CandidateEmit ==
  ASSUME StreamInv, CandidateOK, Emission, read' = read, ParserKept \/ ParserReset
  PROVE  StreamInv' /\ CandidateOK'
<1>1. ParserOK /\ FramesOK /\ WholeOK /\ cuts \subseteq 0 .. read /\ read \in Nat
  BY DEF StreamInv, FramesOK
<1>2. FramesOK' /\ WholeOK'
  BY <1>1, EmitFrames
<1>3. /\ Len(frames') \in Nat /\ Len(frames) \in Nat /\ Len(line) \in Nat
      /\ \A f \in 1 .. Len(frames) : frames'[f] = frames[f]
      /\ \A f \in 1 .. Len(frames') : f \notin 1 .. Len(frames) =>
           f = Len(frames) + 1 /\ frames'[f].first = read + Len(line) + 1
  BY <1>1, EmittedFacts, FrameTypes
<1>4. CASE ParserReset
  <2>1. ubx' \in [state : UbxStates, body : Seq(Byte)] /\ ubx'.state = "sync1" /\ ubx'.body = <<>>
    BY <1>4 DEF ParserReset, UbxOpen, UbxStates
  <2>2. Len(ubx'.body) = 0 /\ 0 <= 2 + MaxPayload
    BY <2>1, GpsConstants
  <2>3. ParserOK'
    BY <2>1, <2>2 DEF ParserOK
  <2>4. cuts' \subseteq 0 .. read'
    BY <1>1, <1>4 DEF ParserReset
  <2> QED BY <1>2, <2>1, <2>3, <2>4 DEF StreamInv, CandidateOK
<1>5. CASE ParserKept
  <2>1. ParserOK' /\ cuts' \subseteq 0 .. read'
    BY <1>1, <1>5 DEF ParserOK, BodyLen, ParserKept
  <2>2. ASSUME ubx.state # "sync1",
               NEW f \in 1 .. Len(frames'), frames'[f].fate = "whole",
               NEW p \in frames'[f].first .. frames'[f].last, Start <= p, p <= read
        PROVE  Frame(f, frames'[f].body)[p - frames'[f].first + 1].val = Seen(p - Start)
    <3>1. CASE f \in 1 .. Len(frames)
      <4>1. frames'[f] = frames[f]
        BY <1>3, <3>1
      <4> QED BY <2>2, <3>1, <4>1 DEF CandidateOK
    <3>2. CASE f \notin 1 .. Len(frames)
      <4>1. frames'[f].first = read + Len(line) + 1
        BY <1>3, <3>2
      <4> QED BY <1>1, <1>3, <2>2, <4>1
    <3> QED BY <3>1, <3>2
  <2>3. Start' = Start /\ \A k : Seen(k)' = Seen(k)
    BY <1>5 DEF Start, Seen, ParserKept
  <2>4. CandidateOK'
    <3> SUFFICES ASSUME ubx'.state # "sync1"
                 PROVE  /\ 1 <= Start' /\ \A c \in cuts' : c < Start'
                        /\ \A f \in 1 .. Len(frames') :
                             frames'[f].fate = "whole" =>
                               \A p \in frames'[f].first .. frames'[f].last :
                                 Start' <= p /\ p <= read' =>
                                   Frame(f, frames'[f].body)[p - frames'[f].first + 1].val
                                     = Seen(p - Start)'
      BY DEF CandidateOK
    <3>1. ubx.state # "sync1"
      BY <1>5 DEF ParserKept
    <3>2. 1 <= Start /\ \A c \in cuts : c < Start
      BY <3>1 DEF CandidateOK
    <3>3. cuts' = cuts
      BY <1>5 DEF ParserKept
    <3>4. ASSUME NEW f \in 1 .. Len(frames'), frames'[f].fate = "whole",
                 NEW p \in frames'[f].first .. frames'[f].last, Start <= p, p <= read
          PROVE  Frame(f, frames'[f].body)[p - frames'[f].first + 1].val = Seen(p - Start)'
      <4>1. Seen(p - Start)' = Seen(p - Start)
        BY <2>3
      <4> QED BY <2>2, <3>1, <3>4, <4>1
    <3> QED BY <2>3, <3>2, <3>3, <3>4
  <2> QED BY <1>2, <2>1, <2>4 DEF StreamInv
<1> QED BY <1>4, <1>5

\* Whether a frame comes after quiet ones is settled when it is sent.
LEMMA ClearKept ==
  ASSUME NEW n \in Nat, n <= Len(frames'), Len(frames) \in Nat,
         \A f \in 1 .. n : frames'[f] = frames[f], NEW f \in 1 .. n
  PROVE  Clear(f)' = Clear(f)
<1>1. f \in 1 .. n /\ \A g \in 1 .. f - 1 : g \in 1 .. n
  OBVIOUS
<1>2. frames'[f] = frames[f] /\ \A g \in 1 .. f - 1 : frames'[g] = frames[g]
  BY <1>1
<1>3. \A g \in 1 .. f - 1 : Quiet(frames[g])' <=> Quiet(frames[g])
  BY <1>2 DEF Quiet
<1> QED BY <1>2, <1>3 DEF Clear, Grasp

\* All but the checksum of a frame read: its body is in the parser.
LEMMA WholeTaken ==
  ASSUME ParserOK, NEW body \in Bodies, InStep(body, Len(body) + 2)
  PROVE  ubx.body = body /\ ubx.state = "checksum"
<1>1. body \in Seq(Byte) /\ Len(body) \in Nat /\ ubx.body \in Seq(Byte)
  BY BodyFacts DEF ParserOK
<1>2. Len(body) + 2 >= 2 /\ (Len(body) + 2) - 2 = Len(body)
  BY <1>1
<1>3. Len(body) = 2 + body[2] /\ body[2] \in Nat
  BY BodyFacts
<1>4. ubx.state = "checksum"
  BY <1>1, <1>3 DEF InStep, StateAt
<1>5. Len(ubx.body) = Len(body) /\ \A i \in 1 .. Len(body) : ubx.body[i] = body[i]
  BY <1>2 DEF InStep
<1> QED BY <1>1, <1>4, <1>5

\* The symbols of a whole frame, counted: one that is not reached, one that is entered,
\* and its last.
LEMMA CountedBefore ==
  ASSUME NEW first \in Nat, NEW last \in Nat, NEW len \in Nat, NEW r \in Nat,
         last = first + len + 2, r < first
  PROVE  r < last
  OBVIOUS

LEMMA CountedInside ==
  ASSUME NEW first \in Nat, NEW last \in Nat, NEW len \in Nat, NEW r \in Nat,
         last = first + len + 2, first <= r + 1, r + 1 < last
  PROVE  r + 1 - first \in 0 .. len + 1
  OBVIOUS

LEMMA CountedUpTo ==
  ASSUME NEW first \in Nat, NEW last \in Nat, NEW len \in Nat, NEW r \in Nat,
         last = first + len + 2, first <= r + 1, r + 1 <= last
  PROVE  r + 1 - first \in Nat /\ r + 1 - first <= len + 2
  OBVIOUS

LEMMA CountedLast ==
  ASSUME NEW first \in Nat, NEW last \in Nat, NEW len \in Nat, NEW r \in Nat,
         last = first + len + 2, last = r + 1
  PROVE  /\ first <= r + 1 /\ r < last
         /\ r + 1 - first = len + 2
         /\ last - 1 = r
         /\ first + (len + 3) = r + 2
  OBVIOUS

LEMMA RecoverEmit ==
  ASSUME RecoverInv, Emission, read' = read, taken' = taken, ParserKept \/ ParserReset
  PROVE  RecoverInv'
<1>1. /\ StreamInv /\ CandidateOK /\ StepOK /\ TakenOK /\ FramesOK
      /\ StreamInv' /\ CandidateOK' /\ FramesOK' /\ WholeOK'
  BY CandidateEmit DEF RecoverInv, StreamInv
<1>2. AtFrame'
  <2>1. (StreamInv /\ CandidateOK => AtFrame)'
    BY FrameFound, PTL
  <2> QED BY <1>1, <2>1
<1>3. /\ Len(frames') \in Nat /\ Len(frames) \in Nat /\ Len(frames) <= Len(frames')
      /\ Len(line) \in Nat /\ read \in Nat
      /\ \A f \in 1 .. Len(frames) :
           frames'[f] = frames[f] /\ frames[f].first \in Nat /\ frames[f].last \in Nat
      /\ \A f \in 1 .. Len(frames') : f \notin 1 .. Len(frames) =>
           f = Len(frames) + 1 /\ frames'[f].first = read + Len(line) + 1
  BY <1>1, EmittedFacts, FrameTypes
<1>4. \A f \in 1 .. Len(frames) : Clear(f)' = Clear(f)
  BY <1>3, ClearKept
<1>5. ASSUME NEW f \in 1 .. Len(frames'), Clear(f)', frames'[f].first = read + 1
      PROVE  InStep(frames[f].body, read + 1 - frames[f].first)'
  <2>1. ubx'.state = "sync1"
    BY <1>2, <1>5 DEF AtFrame
  <2>2. read' + 1 - frames'[f].first = 0
    BY <1>3, <1>5
  <2> QED BY <2>1, <2>2 DEF InStep, StateAt
<1>6. StepOK'
  <2> SUFFICES ASSUME NEW f \in 1 .. Len(frames'), Clear(f)', Begun(f)',
                      cuts' \cap (frames'[f].first .. read') = {}
               PROVE  InStep(frames[f].body, read + 1 - frames[f].first)'
    BY DEF StepOK
  <2>1. frames'[f].first <= read + 1
    BY DEF Begun
  <2>2. CASE f \notin 1 .. Len(frames)
    <3>1. frames'[f].first = read + Len(line) + 1
      BY <1>3, <2>2
    <3>2. frames'[f].first = read + 1
      BY <1>3, <2>1, <3>1
    <3> QED BY <1>5, <3>2
  <2>3. CASE f \in 1 .. Len(frames) /\ ParserKept
    <3>1. frames'[f] = frames[f] /\ Clear(f)
      BY <1>3, <1>4, <2>3
    <3>2. Begun(f) /\ cuts \cap (frames[f].first .. read) = {}
      BY <2>3, <3>1 DEF Begun, ParserKept
    <3>3. InStep(frames[f].body, read + 1 - frames[f].first)
      BY <1>1, <2>3, <3>1, <3>2 DEF StepOK
    <3> QED BY <2>3, <3>1, <3>3 DEF InStep, ParserKept
  <2>4. CASE f \in 1 .. Len(frames) /\ ParserReset
    <3>1. frames'[f] = frames[f] /\ frames[f].first \in Nat
      BY <1>3, <2>4
    <3>2. read \in cuts'
      BY <2>4 DEF ParserReset
    <3>3. read \notin frames[f].first .. read
      BY <3>1, <3>2
    <3>4. frames'[f].first = read + 1
      BY <1>3, <2>1, <3>1, <3>3
    <3> QED BY <1>5, <3>4
  <2> QED BY <2>2, <2>3, <2>4
<1>7. TakenOK'
  <2> SUFFICES ASSUME NEW f \in 1 .. Len(frames'), Clear(f)', frames'[f].last <= read',
                      cuts' \cap (frames'[f].first .. frames'[f].last - 1) = {}
               PROVE  frames'[f].last \in taken'
    BY DEF TakenOK
  <2>1. CASE f \notin 1 .. Len(frames)
    <3>1. frames'[f].first = read + Len(line) + 1
      BY <1>3, <2>1
    <3>2. frames'[f].fate = "whole"
      BY DEF Clear
    <3>3. frames'[f] \in Sent
      BY <1>1 DEF FramesOK
    <3>4. /\ frames'[f].body \in Bodies
          /\ frames'[f].first \in Nat /\ frames'[f].last \in Nat
      BY <3>3 DEF Sent
    <3>5. Len(frames'[f].body) \in Nat
      BY <3>4, BodyFacts
    <3>6. frames'[f].last = frames'[f].first + Len(frames'[f].body) + 2
      BY <1>1, <3>2 DEF WholeOK
    <3>7. read < frames'[f].first
      BY <1>3, <3>1
    <3>8. read < frames'[f].last
      <4>1. read \in Nat
        BY <1>3
      <4> QED BY <3>4, <3>5, <3>6, <3>7, <4>1, CountedBefore
    <3> QED BY <1>3, <3>4, <3>8
  <2>2. CASE f \in 1 .. Len(frames)
    <3>1. frames'[f] = frames[f] /\ Clear(f)
      BY <1>3, <1>4, <2>2
    <3>2. cuts \subseteq cuts'
      BY DEF ParserKept, ParserReset
    <3>3. cuts \cap (frames[f].first .. frames[f].last - 1) = {} /\ frames[f].last <= read
      BY <3>1, <3>2
    <3> QED BY <1>1, <2>2, <3>1, <3>3 DEF TakenOK
  <2> QED BY <2>1, <2>2
<1> QED BY <1>1, <1>6, <1>7 DEF RecoverInv

LEMMA RecoverRead ==
  ASSUME RecoverInv, ReadSymbol, frames' = frames, cuts' = cuts
  PROVE  RecoverInv'
<1> DEFINE s == Head(line)
<1>1. /\ StreamInv /\ CandidateOK /\ StepOK /\ TakenOK /\ ParserOK /\ FramesOK /\ WholeOK
      /\ StreamInv' /\ CandidateOK'
  BY CandidateRead DEF RecoverInv, StreamInv
<1>2. AtFrame'
  <2>1. (StreamInv /\ CandidateOK => AtFrame)'
    BY FrameFound, PTL
  <2> QED BY <1>1, <2>1
<1>3. /\ Len(frames) \in Nat /\ read \in Nat /\ read' = read + 1
      /\ line # <<>> /\ line' = Tail(line) /\ ubx' = Parsed(s)
      /\ taken' = IF Complete(s) THEN taken \cup {read'} ELSE taken
      /\ \A f \in 1 .. Len(frames) :
           frames[f].first \in Nat /\ frames[f].last \in Nat /\ frames[f].body \in Bodies
  BY <1>1, FrameTypes DEF ReadSymbol
<1>4. \A f \in 1 .. Len(frames) :
        frames[f].fate = "whole" =>
          \A k \in 1 .. Len(frames[f].body) + 3 :
            frames[f].first + k = read + 2 => s = Frame(f, frames[f].body)[k]
  BY <1>1, <1>3, ReadFrames
<1>5. \A f \in 1 .. Len(frames) : Clear(f)' = Clear(f)
  <2>1. \A f \in 1 .. Len(frames) : frames'[f] = frames[f]
    OBVIOUS
  <2> QED BY <1>3, <2>1, ClearKept
<1> HIDE DEF s
<1>6. StepOK'
  <2> SUFFICES ASSUME NEW f \in 1 .. Len(frames), Clear(f)', Begun(f)',
                      cuts \cap (frames[f].first .. read') = {}
               PROVE  InStep(frames[f].body, read + 1 - frames[f].first)'
    BY DEF StepOK
  <2>1. /\ Clear(f) /\ frames[f].fate = "whole" /\ f \in Nat
        /\ frames[f].first <= read' + 1 /\ read' < frames[f].last
    BY <1>5 DEF Begun, Clear
  <2>t. frames[f].first \in Nat /\ frames[f].last \in Nat /\ read \in Nat /\ read' = read + 1
    BY <1>3
  <2>2. CASE frames[f].first = read' + 1
    <3>1. ubx'.state = "sync1"
      BY <1>2, <2>2 DEF AtFrame
    <3>2. read' + 1 - frames[f].first = 0
      BY <1>3, <2>2
    <3> QED BY <3>1, <3>2 DEF InStep, StateAt
  <2>3. CASE frames[f].first # read' + 1
    <3> DEFINE body == frames[f].body
               k == read + 1 - frames[f].first
    <3>1. frames[f].first <= read + 1
      BY <1>3, <2>1, <2>3
    <3>2. frames[f].last = frames[f].first + Len(body) + 2 /\ Len(body) \in Nat /\ body \in Bodies
      BY <1>1, <1>3, <2>1, BodyFacts DEF WholeOK
    <3>3. k \in 0 .. Len(body) + 1
      <4>1. read + 1 < frames[f].last
        BY <2>1, <2>t
      <4> QED BY <2>t, <3>1, <3>2, <4>1, CountedInside
    <3>4. InStep(body, k)
      <4>1. Begun(f)
        BY <1>3, <2>1, <3>1 DEF Begun
      <4>2. cuts \cap (frames[f].first .. read) = {}
        <5>1. frames[f].first .. read \subseteq frames[f].first .. read'
          BY <1>3
        <5> QED BY <5>1
      <4> QED BY <1>1, <2>1, <4>1, <4>2 DEF StepOK
    <3>5. s = Frame(f, body)[k + 1]
      <4>1. frames[f].first + (k + 1) = read + 2
        BY <2>t
      <4>2. k + 1 \in 1 .. Len(body) + 3
        BY <3>2, <3>3
      <4> HIDE DEF k
      <4> QED BY <1>4, <2>1, <4>1, <4>2
    <3>6. read' + 1 - frames[f].first = k + 1
      BY <2>t
    <3> HIDE DEF k
    <3>7. PICK n \in 0 .. Len(body) + 1 : n = k
      BY <3>3
    <3>8. InStep(body, n + 1)'
      BY <1>1, <1>3, <2>1, <3>2, <3>4, <3>5, <3>7, InStepKept
    <3> QED BY <3>6, <3>7, <3>8
  <2> QED BY <2>2, <2>3
<1>7. TakenOK'
  <2> SUFFICES ASSUME NEW f \in 1 .. Len(frames), Clear(f)', frames[f].last <= read',
                      cuts \cap (frames[f].first .. frames[f].last - 1) = {}
               PROVE  frames[f].last \in taken'
    BY DEF TakenOK
  <2>1. Clear(f) /\ frames[f].fate = "whole" /\ f \in Nat
    BY <1>5 DEF Clear
  <2>2. CASE frames[f].last <= read
    BY <1>1, <1>3, <2>1, <2>2 DEF TakenOK
  <2>3. CASE frames[f].last = read + 1
    <3> DEFINE body == frames[f].body
    <3>t. frames[f].first \in Nat /\ frames[f].last \in Nat /\ read \in Nat /\ read' = read + 1
      BY <1>3
    <3>1. frames[f].last = frames[f].first + Len(body) + 2 /\ Len(body) \in Nat /\ body \in Bodies
      BY <1>1, <1>3, <2>1, BodyFacts DEF WholeOK
    <3>2. /\ frames[f].first <= read + 1 /\ read < frames[f].last
          /\ read + 1 - frames[f].first = Len(body) + 2
          /\ frames[f].last - 1 = read
          /\ frames[f].first + (Len(body) + 3) = read + 2
      <4> DEFINE a == frames[f].first
                 z == frames[f].last
                 m == Len(body)
      <4>1. /\ a \in Nat /\ z \in Nat /\ m \in Nat /\ read \in Nat
            /\ z = a + m + 2 /\ z = read + 1
        BY <2>3, <3>1, <3>t
      <4> HIDE DEF a, z, m
      <4>2. /\ a <= read + 1 /\ read < z
            /\ read + 1 - a = m + 2
            /\ z - 1 = read
            /\ a + (m + 3) = read + 2
        BY <4>1, CountedLast
      <4> QED BY <4>2 DEF a, z, m
    <3>3. InStep(body, Len(body) + 2)
      <4>1. Begun(f)
        BY <3>2 DEF Begun
      <4> QED BY <1>1, <2>1, <3>2, <4>1 DEF StepOK
    <3>4. s = [val |-> Checksum(body), of |-> f]
      <4>1. Len(body) + 3 \in 1 .. Len(body) + 3
        BY <3>1
      <4>2. s = Frame(f, body)[Len(body) + 3]
        BY <1>4, <2>1, <3>2, <4>1
      <4> QED BY <2>1, <3>1, <4>2, FrameValues
    <3>5. ubx.body = body /\ ubx.state = "checksum"
      BY <1>1, <3>1, <3>3, WholeTaken
    <3>6. Complete(s)
      <4>1. s.of = f /\ f # 0
        BY <3>4
      <4> QED BY <3>5, <4>1 DEF Complete, ChecksumFits
    <3> QED BY <1>3, <2>3, <3>6
  <2> QED BY <1>3, <2>2, <2>3
<1> QED BY <1>1, <1>6, <1>7 DEF RecoverInv

LEMMA RecoverInit == GpsInit => RecoverInv
<1> SUFFICES ASSUME GpsInit
             PROVE  RecoverInv
  OBVIOUS
<1>1. /\ ubx = [state |-> "sync1", body |-> <<>>] /\ line = <<>> /\ frames = <<>>
      /\ read = 0 /\ cuts = {} /\ taken = {}
  BY DEF GpsInit, UbxOpen
<1>2. Len(frames) = 0 /\ Len(line) = 0 /\ 1 .. 0 = {}
  BY <1>1
<1>3. ParserOK
  <2>1. ubx \in [state : UbxStates, body : Seq(Byte)] /\ Len(ubx.body) = 0
    BY <1>1 DEF UbxStates
  <2>2. 0 <= 2 + MaxPayload
    BY GpsConstants
  <2> QED BY <1>1, <2>1, <2>2 DEF ParserOK
<1>4. FramesOK
  <2>1. frames \in Seq(Sent) /\ line \in Seq(Symbol) /\ read \in Nat /\ read + Len(line) = 0
    BY <1>1, <1>2
  <2> QED BY <1>2, <2>1 DEF FramesOK
<1>5. WholeOK /\ StepOK /\ TakenOK
  BY <1>2 DEF WholeOK, StepOK, TakenOK
<1>6. CandidateOK
  BY <1>1 DEF CandidateOK
<1>7. cuts \subseteq 0 .. read
  BY <1>1
<1> QED BY <1>3, <1>4, <1>5, <1>6, <1>7 DEF RecoverInv, StreamInv

\* What each action does to the line and to the parser.
LEMMA StreamActions ==
  ASSUME FramesOK, [GpsNext]_gps_vars
  PROVE  \/ Emission /\ (ParserKept \/ ParserReset) /\ UNCHANGED <<read, taken>>
         \/ ReadSymbol /\ UNCHANGED <<frames, cuts>>
<1>1. frames \in Seq(Sent)
  BY DEF FramesOK
<1>2. Prt \in Commands /\ Rate \in Commands /\ Msg \in Commands
  BY DEF Commands
<1>3. CASE Begin \/ Timeout \/ UNCHANGED gps_vars
  BY <1>3 DEF Begin, Timeout, gps_vars, Emission, ParserKept
<1>4. CASE SendFix
  <2>1. Emission
    BY <1>1, <1>4, FixEmits
  <2> QED BY <1>4, <2>1 DEF SendFix, ParserKept
<1>5. CASE SwitchBaud
  <2>1. Emission
    BY <1>1, <1>2, <1>5, SendEmits DEF SwitchBaud
  <2> QED BY <1>5, <2>1 DEF SwitchBaud, ParserKept
<1>6. CASE RepeatPrt
  <2>1. Emission
    BY <1>1, <1>2, <1>6, SendEmits DEF RepeatPrt
  <2> QED BY <1>6, <2>1 DEF RepeatPrt, ParserReset
<1>7. CASE ConfigureRate
  <2>1. Emission
    BY <1>1, <1>2, <1>7, SendEmits DEF ConfigureRate
  <2> QED BY <1>7, <2>1 DEF ConfigureRate, ParserKept
<1>8. CASE ConfigureMsg
  <2>1. Emission
    BY <1>1, <1>2, <1>8, SendEmits DEF ConfigureMsg
  <2> QED BY <1>8, <2>1 DEF ConfigureMsg, ParserKept
<1>9. CASE ReadOn \/ Refused \/ Confirmed
  BY <1>9 DEF ReadOn, Refused, Confirmed
<1> QED BY <1>3, <1>4, <1>5, <1>6, <1>7, <1>8, <1>9 DEF GpsNext

LEMMA RecoverStep == RecoverInv /\ [GpsNext]_gps_vars => RecoverInv'
<1> SUFFICES ASSUME RecoverInv, [GpsNext]_gps_vars
             PROVE  RecoverInv'
  OBVIOUS
<1>1. FramesOK
  BY DEF RecoverInv, StreamInv
<1>2. CASE Emission /\ (ParserKept \/ ParserReset) /\ UNCHANGED <<read, taken>>
  BY <1>2, RecoverEmit
<1>3. CASE ReadSymbol /\ UNCHANGED <<frames, cuts>>
  BY <1>3, RecoverRead
<1> QED BY <1>1, <1>2, <1>3, StreamActions

LEMMA RecoverInvariant == GpsSpec => []RecoverInv
BY RecoverInit, RecoverStep, PTL DEF GpsSpec

\* The parser finds its way back after whatever was on the line: a frame that comes
\* whole behind quiet ones is taken, whatever was damaged, cut or garbage before.
THEOREM ParserRecovers == GpsSpec => []Recovers
<1>1. RecoverInv => Recovers
  <2> SUFFICES ASSUME RecoverInv, NEW f \in DOMAIN frames,
                      frames[f].fate = "whole", frames[f].last <= read,
                      \A g \in 1 .. f - 1 :
                        frames[g].last + Grasp >= frames[f].first => Quiet(frames[g]),
                      cuts \cap (frames[f].first .. frames[f].last - 1) = {}
               PROVE  frames[f].last \in taken
    BY DEF Recovers
  <2>1. frames \in Seq(Sent) /\ TakenOK
    BY DEF RecoverInv, StreamInv, FramesOK
  <2>2. f \in 1 .. Len(frames)
    BY <2>1
  <2> QED BY <2>1, <2>2 DEF TakenOK, Clear
<1> QED BY <1>1, RecoverInvariant, PTL

(* The types.                                                                 *)

\* What is left of the types when the parser's are known.
SetupTypes ==
  /\ port \in {"default", "conf"}
  /\ at \in Waiting \cup {"switch", "prt", "repeat", "rate", "msg", "open", "failed"}
  /\ attempt \in 0 .. Retries
  /\ module \in [baud : {"default", "conf"}, rate : BOOLEAN, pvt : BOOLEAN]
  /\ faults \in 0 .. MaxFaults
  /\ clean \in BOOLEAN
  /\ taken \subseteq 1 .. read

\* A fault makes an attempt unclean, and nothing makes it clean again.
Blemish ==
  /\ faults' \in 0 .. MaxFaults
  /\ clean' \in BOOLEAN /\ (clean' => clean)

LEMMA EmitTypes ==
  ASSUME NEW body, NEW baud, NEW p, SetupTypes, Emit(body, baud, p)
  PROVE  Blemish
BY DEF Emit, NoFault, SetupTypes, Blemish

LEMMA FaultTypes ==
  ASSUME SetupTypes, Fault \/ NoFault
  PROVE  Blemish
<1>1. CASE Fault
  <2>1. faults' \in 0 .. MaxFaults
    BY <1>1, GpsConstants DEF SetupTypes, Fault
  <2>2. clean' = FALSE
    BY <1>1 DEF Fault
  <2> QED BY <2>1, <2>2 DEF Blemish
<1>2. CASE NoFault
  BY <1>2 DEF SetupTypes, NoFault, Blemish
<1> QED BY <1>1, <1>2

LEMMA ConfiguredTypes ==
  ASSUME SetupTypes, NEW c \in Commands
  PROVE  Configured(c) \in [baud : {"default", "conf"}, rate : BOOLEAN, pvt : BOOLEAN]
BY GpsAssumption DEF SetupTypes, Configured, Commands

LEMMA SendTypes ==
  ASSUME SetupTypes, NEW c \in Commands, NEW p, Send(c, p)
  PROVE  Blemish /\ module' \in [baud : {"default", "conf"}, rate : BOOLEAN, pvt : BOOLEAN]
<1>1. CASE Accept(c, p)
  <2>1. Blemish
    BY <1>1, EmitTypes DEF Accept
  <2> QED BY <1>1, <2>1, ConfiguredTypes DEF Accept
<1>2. CASE RefuseCommand(c, p) \/ NotHeard(p)
  <2>1. Fault \/ NoFault
    BY <1>2 DEF RefuseCommand, NotHeard
  <2>2. module' = module
    BY <1>2 DEF RefuseCommand, NotHeard
  <2> QED BY <2>1, <2>2, FaultTypes DEF SetupTypes
<1> QED BY <1>1, <1>2 DEF Send

LEMMA SetupTypesStep ==
  ASSUME SetupTypes, FramesOK, [GpsNext]_gps_vars
  PROVE  SetupTypes'
<1>1. /\ read \in Nat /\ Retries \in Nat /\ attempt \in 0 .. Retries /\ taken \subseteq 1 .. read
      /\ Prt \in Commands /\ Rate \in Commands /\ Msg \in Commands
  BY GpsConstants DEF FramesOK, SetupTypes, Commands
<1>2. ASSUME ReadSymbol PROVE taken' \subseteq 1 .. read'
  BY <1>1, <1>2 DEF ReadSymbol
<1>3. ASSUME AttemptFails
      PROVE  at' \in {"switch", "failed"}
  BY <1>3 DEF AttemptFails
<1>4. CASE UNCHANGED gps_vars
  BY <1>4 DEF gps_vars, SetupTypes
<1>5. CASE Begin
  <2>1. attempt' \in 0 .. Retries /\ clean' \in BOOLEAN
    BY <1>1, <1>5 DEF Begin
  <2> QED BY <1>5, <2>1 DEF Begin, SetupTypes, Waiting
<1>6. CASE SwitchBaud \/ ConfigureRate \/ ConfigureMsg
  <2>1. PICK c \in Commands, p \in {"default", "conf"} : Send(c, p)
    BY <1>1, <1>6 DEF SwitchBaud, ConfigureRate, ConfigureMsg
  <2>2. Blemish /\ module' \in [baud : {"default", "conf"}, rate : BOOLEAN, pvt : BOOLEAN]
    BY <2>1, SendTypes
  <2>3. at' \in {"repeat", "wait rate", "wait msg"} /\ UNCHANGED <<port, attempt, read, taken>>
    BY <1>6 DEF SwitchBaud, ConfigureRate, ConfigureMsg
  <2> QED BY <2>2, <2>3 DEF Blemish, SetupTypes, Waiting
<1>7. CASE RepeatPrt
  <2>1. Blemish /\ module' \in [baud : {"default", "conf"}, rate : BOOLEAN, pvt : BOOLEAN]
    BY <1>1, <1>7, SendTypes DEF RepeatPrt
  <2> QED BY <1>7, <2>1 DEF RepeatPrt, Blemish, SetupTypes, Waiting
<1>8. CASE Timeout
  <2>1. Blemish
    BY <1>8, FaultTypes DEF Timeout
  <2>2. at' \in {"switch", "failed"} /\ UNCHANGED <<port, attempt, module, read, taken>>
    BY <1>3, <1>8 DEF Timeout
  <2> QED BY <2>1, <2>2 DEF Blemish, SetupTypes
<1>9. CASE ReadOn
  BY <1>2, <1>9 DEF ReadOn, SetupTypes
<1>10. CASE Refused
  <2>1. /\ at' \in {"switch", "failed"} /\ taken' \subseteq 1 .. read'
        /\ UNCHANGED <<port, attempt, module, faults, clean>>
    BY <1>2, <1>3, <1>10 DEF Refused
  <2> QED BY <2>1 DEF SetupTypes
<1>11. CASE Confirmed
  <2>1. at \in Waiting
    BY <1>11 DEF Confirmed, Answered
  <2>2. at' \in {"rate", "msg", "open"}
    BY <1>11, <2>1 DEF Confirmed, Waiting
  <2>3. taken' \subseteq 1 .. read' /\ UNCHANGED <<port, attempt, module, faults, clean>>
    BY <1>2, <1>11 DEF Confirmed
  <2> QED BY <2>2, <2>3 DEF SetupTypes
<1>12. CASE SendFix
  <2>1. Blemish
    BY <1>12, EmitTypes DEF SendFix
  <2> QED BY <1>12, <2>1 DEF SendFix, SetupTypes, Blemish
<1> QED
  BY <1>4, <1>5, <1>6, <1>7, <1>8, <1>9, <1>10, <1>11, <1>12 DEF GpsNext

LEMMA SetupTypesInit == GpsInit => SetupTypes
BY GpsConstants DEF GpsInit, SetupTypes

LEMMA TypesInvariant == GpsSpec => [](RecoverInv /\ SetupTypes)
<1>1. RecoverInv => FramesOK
  BY DEF RecoverInv, StreamInv
<1> QED BY <1>1, RecoverInit, RecoverStep, SetupTypesInit, SetupTypesStep, PTL DEF GpsSpec

\* Every variable has its type; whatever the line carries, the body the parser
\* collects stays within its array.
THEOREM GpsTypes == GpsSpec => []GpsTypeOK
<1>1. RecoverInv /\ SetupTypes => GpsTypeOK
  <2>1. ASSUME ParserOK
        PROVE  /\ ubx.state \in UbxStates /\ Len(ubx.body) <= 2 + MaxPayload
               /\ ubx.state = "payload" => Len(ubx.body) < 2 + ubx.body[2]
    BY <2>1 DEF ParserOK, BodyLen
  <2> QED BY <2>1 DEF GpsTypeOK, RecoverInv, StreamInv, SetupTypes, UbxStates
<1> QED BY <1>1, TypesInvariant, PTL

-----------------------------------------------------------------------------
(* The set-up succeeds with a module that is set up, and gives up for a reason. *)

LEMMA HasFacts ==
  SetupTypes =>
    /\ Has(Prt) <=> module.baud = "conf"
    /\ Has(Rate) <=> module.rate = TRUE
    /\ Has(Msg) <=> module.pvt = TRUE
BY GpsAssumption DEF SetupTypes, Has, Configured

\* The module keeps what it has.
LEMMA HasKept ==
  ASSUME SetupTypes, SetupTypes', NEW c \in Commands, NEW d \in Commands,
         module' = module \/ module' = Configured(d)
  PROVE  /\ Has(c) => Has(c)'
         /\ module' = Configured(d) => Has(d)'
<1>1. /\ Has(Prt) <=> module.baud = "conf"
      /\ Has(Rate) <=> module.rate = TRUE
      /\ Has(Msg) <=> module.pvt = TRUE
  BY HasFacts
<1>2. /\ Has(Prt)' <=> module'.baud = "conf"
      /\ Has(Rate)' <=> module'.rate = TRUE
      /\ Has(Msg)' <=> module'.pvt = TRUE
  <2>1. (SetupTypes =>
           /\ Has(Prt) <=> module.baud = "conf"
           /\ Has(Rate) <=> module.rate = TRUE
           /\ Has(Msg) <=> module.pvt = TRUE)'
    BY HasFacts, PTL
  <2> QED BY <2>1
<1>3. module \in [baud : {"default", "conf"}, rate : BOOLEAN, pvt : BOOLEAN]
  BY DEF SetupTypes
<1>4. module' = Configured(d) =>
        /\ d = Prt => module'.baud = "conf" /\ module'.rate = module.rate /\ module'.pvt = module.pvt
        /\ d = Rate => module'.baud = module.baud /\ module'.rate = TRUE /\ module'.pvt = module.pvt
        /\ d = Msg => module'.baud = module.baud /\ module'.rate = module.rate /\ module'.pvt = TRUE
  BY <1>3, GpsAssumption DEF Configured
<1>5. (c = Prt \/ c = Rate \/ c = Msg) /\ (d = Prt \/ d = Rate \/ d = Msg)
  BY DEF Commands
<1>6. Has(c) => Has(c)'
  <2>1. CASE module' = module
    BY <1>1, <1>2, <1>5, <2>1
  <2>2. CASE module' = Configured(d)
    BY <1>1, <1>2, <1>4, <1>5, <2>2
  <2> QED BY <2>1, <2>2
<1>7. module' = Configured(d) => Has(d)'
  BY <1>2, <1>4, <1>5
<1> QED BY <1>6, <1>7

\* The module answers with a frame that arrives as it was sent.
Answers(body) ==
  /\ Put(body, "whole", Frame(Len(frames) + 1, body))
  /\ body[1] # AckNak

LEMMA EmitClean ==
  ASSUME NEW body, NEW baud, NEW p, Emit(body, baud, p), clean'
  PROVE  clean /\ baud = p /\ Put(body, "whole", Frame(Len(frames) + 1, body))
BY DEF Emit, NoFault

\* A command in an attempt that stays clean is accepted, or its baud rate is wrong.
LEMMA SendClean ==
  ASSUME NEW c \in Commands, NEW p, Send(c, p), clean'
  PROVE  /\ clean
         /\ \/ module' = Configured(c) /\ Answers(AckBody(AckAck, c))
            \/ module.baud # p /\ UNCHANGED <<module, line, frames>>
<1>1. CASE Accept(c, p)
  <2>1. PICK baud : Emit(AckBody(AckAck, c), baud, p)
    BY <1>1 DEF Accept
  <2>2. AckBody(AckAck, c)[1] # AckNak
    BY AckFacts, GpsAssumption
  <2> QED BY <1>1, <2>1, <2>2, EmitClean DEF Accept, Answers
<1>2. CASE RefuseCommand(c, p)
  BY <1>2 DEF RefuseCommand, Fault
<1>3. CASE NotHeard(p)
  BY <1>3 DEF NotHeard, Fault, NoFault
<1> QED BY <1>1, <1>2, <1>3 DEF Send

\* What a command may do to the module and send.
LEMMA SendSends ==
  ASSUME NEW c \in Commands, NEW p, Send(c, p)
  PROVE  /\ module' = module \/ module' = Configured(c)
         /\ \/ UNCHANGED <<line, frames>>
            \/ \E body \in Bodies : \E fate, symbols :
                 /\ Put(body, fate, symbols)
                 /\ \A d \in Commands :
                      body = AckBody(AckAck, d) => d = c /\ module' = Configured(c)
<1>1. ASSUME NEW kind \in {AckAck, AckNak}, NEW d \in Commands,
             AckBody(kind, c) = AckBody(AckAck, d)
      PROVE  kind = AckAck /\ d = c
  <2>1. AckBody(kind, c)[1] = kind /\ AckBody(kind, c)[3] = c
    BY AckFacts
  <2>2. AckBody(AckAck, d)[1] = AckAck /\ AckBody(AckAck, d)[3] = d
    BY AckFacts
  <2> QED BY <1>1, <2>1, <2>2
<1>2. AckBody(AckAck, c) \in Bodies /\ AckBody(AckNak, c) \in Bodies
  BY AckFacts
<1>3. CASE Accept(c, p)
  <2>1. PICK baud : Emit(AckBody(AckAck, c), baud, p)
    BY <1>3 DEF Accept
  <2>2. PICK fate, symbols : Put(AckBody(AckAck, c), fate, symbols)
    BY <2>1 DEF Emit
  <2> QED BY <1>1, <1>2, <1>3, <2>2 DEF Accept
<1>4. CASE RefuseCommand(c, p)
  <2>1. Put(AckBody(AckNak, c), "whole", Frame(Len(frames) + 1, AckBody(AckNak, c)))
    BY <1>4 DEF RefuseCommand
  <2>2. \A d \in Commands : AckBody(AckNak, c) # AckBody(AckAck, d)
    BY <1>1, GpsAssumption
  <2> QED BY <1>2, <1>4, <2>1, <2>2 DEF RefuseCommand
<1>5. CASE NotHeard(p)
  BY <1>5 DEF NotHeard
<1> QED BY <1>3, <1>4, <1>5 DEF Send

\* A frame that is put on the line without a body of its own leaves the ACKs right.
LEMMA AcksPut ==
  ASSUME AcksOK, FramesOK, \A c \in Commands : Has(c) => Has(c)',
         NEW body \in Bodies, NEW fate, NEW symbols, Put(body, fate, symbols),
         \A c \in Commands : body = AckBody(AckAck, c) => Has(c)'
  PROVE  AcksOK'
<1> DEFINE r == [body |-> body, fate |-> fate, first |-> read + Len(line) + 1,
                 last |-> read + Len(line) + Len(symbols)]
<1>1. frames \in Seq(Sent) /\ Len(frames) \in Nat
  BY FrameTypes DEF FramesOK
<1>2. frames' = Append(frames, r) /\ r.body = body
  BY DEF Put
<1> HIDE DEF r
<1>3. /\ Len(frames') = Len(frames) + 1
      /\ \A f \in 1 .. Len(frames) : frames'[f] = frames[f]
      /\ frames'[Len(frames) + 1] = r
  BY <1>1, <1>2
<1> SUFFICES ASSUME NEW f \in 1 .. Len(frames'), NEW c \in Commands,
                    frames'[f].body = AckBody(AckAck, c)
             PROVE  Has(c)'
  BY DEF AcksOK
<1>4. CASE f = Len(frames) + 1
  BY <1>2, <1>3, <1>4
<1>5. CASE f # Len(frames) + 1
  <2>1. f \in 1 .. Len(frames)
    BY <1>1, <1>3, <1>5
  <2> QED BY <1>3, <2>1 DEF AcksOK
<1> QED BY <1>4, <1>5

LEMMA AcksStep ==
  ASSUME SetupTypes, SetupTypes', FramesOK, AcksOK, [GpsNext]_gps_vars
  PROVE  /\ AcksOK'
         /\ \A c \in Commands : Has(c) => Has(c)'
<1>1. Prt \in Commands /\ Rate \in Commands /\ Msg \in Commands
  BY DEF Commands
<1>2. ASSUME module' = module, frames' = frames
      PROVE  AcksOK' /\ \A c \in Commands : Has(c) => Has(c)'
  <2>1. \A c \in Commands : Has(c) => Has(c)'
    BY <1>1, <1>2, HasKept
  <2> QED BY <1>2, <2>1 DEF AcksOK
<1>3. ASSUME NEW c \in Commands, NEW p, Send(c, p)
      PROVE  AcksOK' /\ \A d \in Commands : Has(d) => Has(d)'
  <2>1. module' = module \/ module' = Configured(c)
    BY <1>3, SendSends
  <2>2. \A d \in Commands : Has(d) => Has(d)'
    BY <1>3, <2>1, HasKept
  <2>3. CASE UNCHANGED <<line, frames>>
    BY <2>2, <2>3 DEF AcksOK
  <2>4. CASE ~(UNCHANGED <<line, frames>>)
    <3>1. PICK body \in Bodies : \E fate, symbols :
            /\ Put(body, fate, symbols)
            /\ \A d \in Commands :
                 body = AckBody(AckAck, d) => d = c /\ module' = Configured(c)
      BY <1>3, <2>4, SendSends
    <3>2. PICK fate, symbols : Put(body, fate, symbols)
      BY <3>1
    <3>3. \A d \in Commands : body = AckBody(AckAck, d) => Has(d)'
      BY <1>3, <3>1, HasKept
    <3> QED BY <2>2, <3>2, <3>3, AcksPut
  <2> QED BY <2>3, <2>4
<1>4. CASE SendFix
  <2>1. PICK fix \in Fixes : Emit(FixBody(fix), module.baud, port)
    BY <1>4 DEF SendFix
  <2>2. PICK fate, symbols : Put(FixBody(fix), fate, symbols)
    BY <2>1 DEF Emit
  <2>3. FixBody(fix) \in Bodies /\ FixBody(fix)[1] = NavPvt
    BY FixFacts
  <2>4. \A c \in Commands : FixBody(fix) # AckBody(AckAck, c)
    BY <2>3, AckFacts, GpsAssumption
  <2>5. \A c \in Commands : Has(c) => Has(c)'
    <3>1. module' = module
      BY <1>4 DEF SendFix
    <3> QED BY <1>1, <3>1, HasKept
  <2> QED BY <2>2, <2>3, <2>4, <2>5, AcksPut
<1>5. CASE Begin \/ Timeout \/ ReadOn \/ Refused \/ Confirmed \/ UNCHANGED gps_vars
  BY <1>2, <1>5 DEF Begin, Timeout, ReadOn, Refused, Confirmed, gps_vars
<1>6. CASE SwitchBaud \/ RepeatPrt \/ ConfigureRate \/ ConfigureMsg
  <2>1. PICK c \in Commands, p \in {"default", "conf"} : Send(c, p)
    BY <1>1, <1>6 DEF SwitchBaud, RepeatPrt, ConfigureRate, ConfigureMsg
  <2> QED BY <1>3, <2>1
<1> QED BY <1>4, <1>5, <1>6 DEF GpsNext

\* What is taken from the line was sent.
LEMMA CompleteSent ==
  ASSUME FramesOK, NEW s, s = Head(line), line # <<>>, Complete(s)
  PROVE  /\ s.of \in 1 .. Len(frames) /\ frames[s.of].body = ubx.body
         /\ ubx.body \in Bodies /\ ubx.state = "checksum"
<1>1. line \in Seq(Symbol) /\ Len(frames) \in Nat
  BY FrameTypes DEF FramesOK
<1>2. s = line[1] /\ Len(line) \in Nat /\ Len(line) >= 1
  BY <1>1
<1>3. s.of \in 0 .. Len(frames)
  BY <1>2 DEF FramesOK
<1>4. s.of # 0 /\ frames[s.of].body = ubx.body /\ ubx.state = "checksum"
  BY DEF Complete, ChecksumFits
<1>5. s.of \in 1 .. Len(frames)
  BY <1>1, <1>3, <1>4
<1> QED BY <1>4, <1>5, FrameTypes

\* The answer to a command names it.
LEMMA AnswerFacts ==
  ASSUME NEW body \in Bodies, NEW c \in Commands,
         body[1] = AckAck, body[2] = 1, body[3] = c
  PROVE  body = AckBody(AckAck, c)
<1>1. CASE \E kind \in {AckAck, AckNak}, d \in Commands : body = AckBody(kind, d)
  <2>1. PICK kind \in {AckAck, AckNak}, d \in Commands : body = AckBody(kind, d)
    BY <1>1
  <2>2. body[1] = kind /\ body[3] = d
    BY <2>1, AckFacts
  <2> QED BY <2>1, <2>2
<1>2. CASE \E fix \in Fixes : body = FixBody(fix)
  <2>1. body[1] = NavPvt
    BY <1>2, FixFacts
  <2> QED BY <2>1, GpsAssumption
<1> QED BY <1>1, <1>2 DEF Bodies

LEMMA AwaitedFacts ==
  ASSUME at \in Waiting
  PROVE  /\ Awaited \in Commands
         /\ at = "wait prt" => Awaited = Prt
         /\ at = "wait rate" => Awaited = Rate
         /\ at = "wait msg" => Awaited = Msg
BY DEF Waiting, Awaited, Commands

LEMMA ProgressStep ==
  ASSUME SetupTypes, SetupTypes', FramesOK, AcksOK, ProgressOK, [GpsNext]_gps_vars
  PROVE  ProgressOK'
<1>1. /\ Prt \in Commands /\ Rate \in Commands /\ Msg \in Commands
      /\ \A c \in Commands : Has(c) => Has(c)'
  BY AcksStep DEF Commands
<1>2. CASE at' = at
  BY <1>1, <1>2 DEF ProgressOK
<1>3. CASE Begin \/ SwitchBaud \/ RepeatPrt
  BY <1>3 DEF Begin, SwitchBaud, RepeatPrt, ProgressOK
<1>4. CASE ConfigureRate
  BY <1>1, <1>4 DEF ConfigureRate, ProgressOK
<1>5. CASE ConfigureMsg
  BY <1>1, <1>5 DEF ConfigureMsg, ProgressOK
<1>6. CASE Timeout \/ Refused
  BY <1>6 DEF Timeout, Refused, AttemptFails, ProgressOK
<1>7. CASE Confirmed
  <2>1. /\ at \in Waiting /\ line # <<>> /\ Complete(Head(line))
        /\ ubx.body[1] = AckAck /\ ubx.body[2] = 1 /\ ubx.body[3] = Awaited
    BY <1>7 DEF Confirmed, Answered, IsAnswer
  <2>2. Awaited \in Commands
    BY <2>1, AwaitedFacts
  <2>3. PICK f \in 1 .. Len(frames) : frames[f].body = ubx.body /\ ubx.body \in Bodies
    BY <2>1, CompleteSent
  <2>4. frames[f].body = AckBody(AckAck, Awaited)
    BY <2>1, <2>2, <2>3, AnswerFacts
  <2>5. Has(Awaited)
    BY <2>2, <2>4 DEF AcksOK
  <2>6. at' = CASE at = "wait prt" -> "rate" [] at = "wait rate" -> "msg" [] at = "wait msg" -> "open"
    BY <1>7 DEF Confirmed
  <2> QED BY <2>1, <2>5, <2>6, <1>1, AwaitedFacts DEF ProgressOK, Waiting
<1>8. CASE UNCHANGED gps_vars \/ SendFix \/ ReadOn
  BY <1>2, <1>8 DEF gps_vars, SendFix, ReadOn
<1> QED BY <1>3, <1>4, <1>5, <1>6, <1>7, <1>8 DEF GpsNext

(* An attempt without a fault.                                                *)

\* The frame of an answer joins those still to be read.
LEMMA UnreadPut ==
  ASSUME FramesOK, NEW body \in Bodies, Answers(body), read' = read
  PROVE  /\ UnreadOK => UnreadOK'
         /\ UnbegunOK => UnbegunOK'
         /\ \E f \in 1 .. Len(frames') : frames'[f].last > read' /\ frames'[f].body = body
<1> DEFINE n == Len(frames) + 1
           symbols == Frame(n, body)
<1>1. /\ Len(frames) \in Nat /\ n \in Nat /\ read \in Nat /\ Len(line) \in Nat
      /\ Len(body) \in Nat
  BY FrameTypes, BodyFacts
<1>2. symbols \in Seq(Symbol) /\ Len(symbols) = Len(body) + 3 /\ "whole" \in Fates
  BY <1>1, FrameTyped DEF Fates
<1>3. Put(body, "whole", symbols) /\ body[1] # AckNak
  BY DEF Answers
<1> HIDE DEF symbols
<1>4. /\ Len(frames') = n /\ \A f \in 1 .. Len(frames) : frames'[f] = frames[f]
      /\ frames'[n] = [body |-> body, fate |-> "whole", first |-> read + Len(line) + 1,
                       last |-> read + Len(line) + Len(symbols)]
  BY <1>2, <1>3, PutFacts
<1>5. /\ frames'[n].body = body /\ frames'[n].fate = "whole"
      /\ frames'[n].first > read /\ frames'[n].last > read
  <2>1. read + Len(line) + 1 > read /\ read + Len(line) + Len(symbols) > read
    BY <1>1, <1>2
  <2> QED BY <1>4, <2>1
<1>6. n \in 1 .. Len(frames') /\ \A f \in 1 .. Len(frames') : f = n \/ f \in 1 .. Len(frames)
  BY <1>1, <1>4
<1> HIDE DEF n
<1>7. UnreadOK => UnreadOK'
  BY <1>3, <1>4, <1>5, <1>6 DEF UnreadOK
<1>8. UnbegunOK => UnbegunOK'
  BY <1>4, <1>5, <1>6 DEF UnbegunOK
<1> QED BY <1>5, <1>6, <1>7, <1>8

LEMMA NoneAdded ==
  ASSUME NEW m \in Nat, NEW n \in Nat, m + n = 0
  PROVE  m = 0
OBVIOUS

LEMMA InStepPut ==
  ASSUME FramesOK, InStepOK, Emission, read' = read, ubx' = ubx
  PROVE  InStepOK'
<1>1. /\ Len(frames) \in Nat /\ Len(line) \in Nat /\ read \in Nat
      /\ \A f \in 1 .. Len(frames) : frames'[f] = frames[f]
      /\ \A f \in 1 .. Len(frames') : f \notin 1 .. Len(frames) =>
           f = Len(frames) + 1 /\ frames'[f].first = read + Len(line) + 1
  BY EmittedFacts, FrameTypes
<1>2. line \in Seq(Symbol)
  BY DEF FramesOK
<1>3. ASSUME NEW f \in 1 .. Len(frames'), Begun(f)'
      PROVE  InStep(frames[f].body, read + 1 - frames[f].first)'
  <2>1. CASE f \in 1 .. Len(frames)
    <3>1. frames'[f] = frames[f] /\ Begun(f)
      BY <1>1, <1>3, <2>1 DEF Begun
    <3>2. InStep(frames[f].body, read + 1 - frames[f].first)
      BY <2>1, <3>1 DEF InStepOK
    <3> QED BY <3>1, <3>2 DEF InStep
  <2>2. CASE f \notin 1 .. Len(frames)
    <3>1. frames'[f].first = read + Len(line) + 1 /\ frames'[f].first <= read + 1
      BY <1>1, <1>3, <2>2 DEF Begun
    <3>2. Len(line) = 0 /\ read' + 1 - frames'[f].first = 0
      BY <1>1, <3>1
    <3>3. ubx'.state = "sync1"
      BY <1>2, <3>2 DEF InStepOK
    <3> QED BY <3>2, <3>3 DEF InStep, StateAt
  <2> QED BY <2>1, <2>2
<1>4. ASSUME line' = <<>>
      PROVE  ubx'.state = "sync1"
  <2>1. line = <<>>
    <3>1. CASE UNCHANGED <<line, frames>>
      BY <1>4, <3>1
    <3>2. CASE ~(UNCHANGED <<line, frames>>)
      <4>1. PICK symbols \in Seq(Symbol) : line' = line \o symbols
        BY <3>2 DEF Emission, Put
      <4>2. Len(line') = Len(line) + Len(symbols) /\ Len(symbols) \in Nat /\ Len(line') = 0
        BY <1>2, <1>4, <4>1, ConcatProperties
      <4>3. Len(line) = 0
        BY <1>1, <4>2, NoneAdded
      <4> QED BY <1>2, <4>3
    <3> QED BY <3>1, <3>2
  <2> QED BY <2>1 DEF InStepOK
<1> QED BY <1>3, <1>4 DEF InStepOK

\* ubx_open in front of frames not begun.
LEMMA InStepReset == FramesOK /\ UnbegunOK /\ ubx.state = "sync1" => InStepOK
<1> SUFFICES ASSUME FramesOK, UnbegunOK, ubx.state = "sync1", NEW f \in 1 .. Len(frames), Begun(f)
             PROVE  InStep(frames[f].body, read + 1 - frames[f].first)
  BY DEF InStepOK
<1>1. read \in Nat /\ frames[f].first \in Nat /\ frames[f].last \in Nat
  BY FrameTypes
<1>2. frames[f].first > read /\ frames[f].first <= read + 1
  BY <1>1 DEF UnbegunOK, Begun
<1>3. read + 1 - frames[f].first = 0
  BY <1>1, <1>2
<1> QED BY <1>3 DEF InStep, StateAt

\* The parser accepts an unread frame with its last symbol, and no sooner.
LEMMA EndOfFrame ==
  ASSUME FramesOK, WholeOK, ParserOK, UnreadOK, InStepOK,
         ReadSymbol, frames' = frames,
         NEW g \in 1 .. Len(frames), frames[g].last = read + 1
  PROVE  /\ Complete(Head(line)) /\ ubx.body = frames[g].body
         /\ ubx'.state = "sync1"
<1> DEFINE s == Head(line)
           body == frames[g].body
<1>1. /\ line # <<>> /\ line' = Tail(line) /\ read' = read + 1 /\ ubx' = Parsed(s)
      /\ read \in Nat /\ g \in Nat /\ g # 0
      /\ frames[g].first \in Nat /\ frames[g].last \in Nat /\ body \in Bodies
      /\ Len(body) \in Nat
  BY FrameTypes, BodyFacts DEF ReadSymbol
<1>2. frames[g].last > read
  BY <1>1
<1>3. frames[g].fate = "whole" /\ frames[g].last = frames[g].first + Len(body) + 2
  BY <1>2 DEF UnreadOK, WholeOK
<1>4. /\ frames[g].first <= read + 1 /\ read < frames[g].last
      /\ read + 1 - frames[g].first = Len(body) + 2
      /\ frames[g].first + (Len(body) + 3) = read + 2
  <2> DEFINE a == frames[g].first
             z == frames[g].last
             m == Len(body)
  <2>1. /\ a \in Nat /\ z \in Nat /\ m \in Nat /\ read \in Nat
        /\ z = a + m + 2 /\ z = read + 1
    BY <1>1, <1>3
  <2> HIDE DEF a, z, m
  <2>2. /\ a <= read + 1 /\ read < z
        /\ read + 1 - a = m + 2
        /\ a + (m + 3) = read + 2
    BY <2>1, CountedLast
  <2> QED BY <2>2 DEF a, z, m
<1>5. InStep(body, Len(body) + 2)
  <2>1. Begun(g)
    BY <1>4 DEF Begun
  <2> QED BY <1>4, <2>1 DEF InStepOK
<1>6. ubx.body = body /\ ubx.state = "checksum"
  BY <1>1, <1>5, WholeTaken
<1>7. s = Frame(g, body)[Len(body) + 3]
  <2>1. Len(body) + 3 \in 1 .. Len(body) + 3
    BY <1>1
  <2> QED BY <1>1, <1>3, <1>4, <2>1, ReadFrames
<1> HIDE DEF s
<1>8. s.of = g
  <2>1. s = [val |-> Checksum(body), of |-> g]
    BY <1>1, <1>7, FrameValues
  <2> QED BY <2>1
<1>9. Complete(s)
  BY <1>1, <1>6, <1>8 DEF Complete, ChecksumFits
<1>10. ubx'.state = "sync1"
  <2>1. ubx \in [state : UbxStates, body : Seq(Byte)]
    BY DEF ParserOK
  <2> QED BY <1>1, <1>6, <2>1 DEF Parsed, AfterChecksum
<1> QED BY <1>6, <1>9, <1>10 DEF s

LEMMA CompleteUnread ==
  ASSUME FramesOK, WholeOK, ParserOK, UnreadOK, InStepOK, line # <<>>,
         ubx.state = "checksum"
  PROVE  \E g \in 1 .. Len(frames) : frames[g].last > read /\ frames[g].body = ubx.body
<1>1. /\ line \in Seq(Symbol) /\ Len(line) \in Nat /\ read \in Nat
      /\ \A f \in 1 .. Len(frames) :
           frames[f].first \in Nat /\ frames[f].last \in Nat /\ frames[f].body \in Bodies
  BY FrameTypes DEF FramesOK
<1>2. Len(line) >= 1
  BY <1>1
<1>3. read + 1 \in 1 .. read + Len(line)
  BY <1>1, <1>2
<1>4. PICK g \in 1 .. Len(frames) : frames[g].first <= read + 1 /\ read + 1 <= frames[g].last
  BY <1>3 DEF FramesOK
<1> DEFINE body == frames[g].body
           k == read + 1 - frames[g].first
<1>5. frames[g].last > read /\ Begun(g)
  BY <1>1, <1>4 DEF Begun
<1>6. frames[g].fate = "whole" /\ frames[g].last = frames[g].first + Len(body) + 2
  BY <1>5 DEF UnreadOK, WholeOK
<1>7. InStep(body, k)
  BY <1>5 DEF InStepOK
<1>8. body \in Bodies /\ Len(body) \in Nat /\ Len(body) >= 2
  <2>1. body \in Bodies
    BY <1>1
  <2>2. Len(body) = 2 + body[2] /\ body[2] \in Nat /\ Len(body) \in Nat
    BY <2>1, BodyFacts
  <2> QED BY <2>1, <2>2
<1>9. k \in Nat /\ k <= Len(body) + 2
  <2>1. frames[g].first \in Nat /\ frames[g].last \in Nat
    BY <1>1
  <2> QED BY <1>1, <1>4, <1>6, <1>8, <2>1, CountedUpTo
<1>10. k = Len(body) + 2
  <2>1. StateAt(body, k) = "checksum"
    BY <1>7 DEF InStep
  <2>2. ~(k < Len(body) + 2)
    <3> HIDE DEF k, body
    <3> QED BY <1>8, <1>9, <2>1 DEF StateAt
  <2> HIDE DEF k, body
  <2> QED BY <1>8, <1>9, <2>2
<1>11. ubx.body = body
  BY <1>7, <1>8, <1>10, WholeTaken
<1> QED BY <1>5, <1>11

LEMMA InStepRead ==
  ASSUME FramesOK, WholeOK, ParserOK, UnreadOK, InStepOK, ReadSymbol, frames' = frames
  PROVE  UnreadOK' /\ InStepOK'
<1> DEFINE s == Head(line)
<1>1. /\ line # <<>> /\ line' = Tail(line) /\ read' = read + 1 /\ ubx' = Parsed(s)
      /\ line \in Seq(Symbol) /\ read \in Nat /\ Len(frames) \in Nat
      /\ \A f \in 1 .. Len(frames) :
           frames[f].first \in Nat /\ frames[f].last \in Nat /\ frames[f].body \in Bodies
  BY FrameTypes DEF FramesOK, ReadSymbol
<1>2. /\ Len(line) \in Nat /\ Len(line) >= 1 /\ Len(line') = Len(line) - 1
  BY <1>1
<1>3. UnreadOK'
  BY <1>1 DEF UnreadOK
\* Where nothing of the next frame is read, the last symbol ended a frame.
<1>4. ASSUME \/ line' = <<>>
             \/ \E f \in 1 .. Len(frames) : frames[f].first = read' + 1
      PROVE  ubx'.state = "sync1"
  <2>1. read + 1 \in 1 .. read + Len(line)
    BY <1>1, <1>2
  <2>2. PICK g \in 1 .. Len(frames) : frames[g].first <= read + 1 /\ read + 1 <= frames[g].last
    BY <2>1 DEF FramesOK
  <2>3. frames[g].last <= read + 1
    <3>1. CASE line' = <<>>
      <4>1. Len(line) = 1
        <5>1. Len(line') = 0
          BY <3>1
        <5> QED BY <1>2, <5>1
      <4>2. frames[g].last <= read + Len(line)
        BY DEF FramesOK
      <4> QED BY <4>1, <4>2
    <3>2. CASE \E f \in 1 .. Len(frames) : frames[f].first = read' + 1
      <4>1. PICK f \in 1 .. Len(frames) : frames[f].first = read + 2
        BY <1>1, <3>2
      <4>2. frames[f].first <= frames[f].last + 1
        BY DEF FramesOK
      <4>3. f # g /\ ~(f < g)
        <5>1. ASSUME f < g PROVE FALSE
          <6>1. frames[f].last < frames[g].first
            BY <5>1 DEF FramesOK
          <6> QED BY <1>1, <2>2, <4>1, <4>2, <6>1
        <5> QED BY <1>1, <2>2, <4>1, <5>1
      <4>4. frames[g].last < frames[f].first
        BY <1>1, <4>3 DEF FramesOK
      <4> QED BY <1>1, <4>1, <4>4
    <3> QED BY <1>4, <3>1, <3>2
  <2>4. frames[g].last = read + 1
    BY <1>1, <2>2, <2>3
  <2> QED BY <2>4, EndOfFrame
<1>5. ASSUME NEW f \in 1 .. Len(frames), Begun(f)'
      PROVE  InStep(frames[f].body, read + 1 - frames[f].first)'
  <2> DEFINE body == frames[f].body
             k == read + 1 - frames[f].first
  <2>t. /\ frames[f].first \in Nat /\ frames[f].last \in Nat /\ frames[f].body \in Bodies
        /\ read \in Nat /\ read' = read + 1 /\ f \in Nat
    BY <1>1
  <2>1. frames[f].first <= read' + 1 /\ read + 1 < frames[f].last /\ read < frames[f].last
    BY <1>5, <2>t DEF Begun
  <2>2. CASE frames[f].first = read' + 1
    <3>1. ubx'.state = "sync1"
      BY <1>4, <2>2
    <3>2. read' + 1 - frames[f].first = 0
      BY <1>1, <2>2
    <3> QED BY <3>1, <3>2 DEF InStep, StateAt
  <2>3. CASE frames[f].first # read' + 1
    <3>1. frames[f].first <= read + 1
      BY <2>t, <2>1, <2>3
    <3>2. Begun(f)
      BY <2>1, <3>1 DEF Begun
    <3>3. InStep(body, k)
      BY <3>2 DEF InStepOK
    <3>4. /\ frames[f].fate = "whole" /\ frames[f].last = frames[f].first + Len(body) + 2
          /\ body \in Bodies /\ Len(body) \in Nat
      BY <2>t, <2>1, BodyFacts DEF UnreadOK, WholeOK
    <3>5. k \in 0 .. Len(body) + 1
      <4> QED BY <2>t, <2>1, <3>1, <3>4, CountedInside
    <3>6. s = Frame(f, body)[k + 1]
      <4>1. frames[f].first + (k + 1) = read + 2
        BY <2>t
      <4>2. k + 1 \in 1 .. Len(body) + 3
        BY <3>4, <3>5
      <4> HIDE DEF k
      <4> QED BY <1>1, <3>4, <4>1, <4>2, ReadFrames
    <3>7. read' + 1 - frames[f].first = k + 1
      BY <2>t
    <3> HIDE DEF k, s
    <3>8. PICK n \in 0 .. Len(body) + 1 : n = k
      BY <3>5
    <3>9. InStep(body, n + 1)'
      BY <1>1, <2>t, <3>3, <3>4, <3>6, <3>8, InStepKept
    <3> QED BY <3>7, <3>8, <3>9
  <2> QED BY <2>2, <2>3
<1> QED BY <1>3, <1>4, <1>5 DEF InStepOK

\* A command that goes out at the baud rate of the module is answered.
LEMMA CleanSend ==
  ASSUME FramesOK, SetupTypes, SetupTypes', NEW c \in Commands, NEW p, Send(c, p),
         read' = read, clean', UnreadOK
  PROVE  /\ clean /\ UnreadOK'
         /\ UnbegunOK => UnbegunOK'
         /\ module.baud = p =>
              /\ module' = Configured(c)
              /\ \E f \in 1 .. Len(frames') :
                   frames'[f].last > read' /\ frames'[f].body = AckBody(AckAck, c)
<1>1. AckBody(AckAck, c) \in Bodies
  BY AckFacts
<1>2. CASE module' = Configured(c) /\ Answers(AckBody(AckAck, c))
  BY <1>1, <1>2, SendClean, UnreadPut
<1>3. CASE module.baud # p /\ UNCHANGED <<module, line, frames>>
  BY <1>3, SendClean DEF UnreadOK, UnbegunOK
<1> QED BY <1>2, <1>3, SendClean

LEMMA AwaitedKept ==
  ASSUME FramesOK, AwaitedOK, Emission, UNCHANGED <<read, at>>
  PROVE  AwaitedOK'
<1>1. PICK f \in 1 .. Len(frames) :
        frames[f].last > read /\ frames[f].body = AckBody(AckAck, Awaited)
  BY DEF AwaitedOK
<1>2. frames'[f] = frames[f] /\ f \in 1 .. Len(frames')
  BY EmittedFacts, FrameTypes
<1>3. Awaited' = Awaited
  BY DEF Awaited
<1> QED BY <1>1, <1>2, <1>3 DEF AwaitedOK

LEMMA CleanSwitch ==
  ASSUME FramesOK, SetupTypes, SetupTypes', CleanOK, SwitchBaud
  PROVE  CleanOK'
<1> SUFFICES ASSUME clean'
             PROVE  Has(Prt)' /\ UnreadOK' /\ UnbegunOK'
  BY DEF SwitchBaud, CleanOK, Configuring, Waiting
<1>1. Send(Prt, "default") /\ read' = read /\ at = "prt" /\ Prt \in Commands
  BY DEF SwitchBaud, Commands
<1>2. clean
  BY <1>1, SendClean
<1>3. UnreadOK /\ UnbegunOK
  BY <1>1, <1>2 DEF CleanOK
<1>4. UnreadOK' /\ UnbegunOK'
  BY <1>1, <1>3, CleanSend
<1>5. Has(Prt)'
  <2>1. CASE module' = Configured(Prt)
    BY <1>1, <2>1, HasKept
  <2>2. CASE module.baud # "default" /\ module' = module
    <3>1. module.baud = "conf"
      BY <2>2 DEF SetupTypes
    <3>2. Has(Prt)
      BY <3>1, HasFacts
    <3> QED BY <1>1, <2>2, <3>2, HasKept
  <2> QED BY <1>1, <2>1, <2>2, SendClean
<1> QED BY <1>4, <1>5

LEMMA CleanRepeat ==
  ASSUME FramesOK, FramesOK', SetupTypes, SetupTypes', CleanOK, RepeatPrt
  PROVE  CleanOK'
<1> SUFFICES ASSUME clean'
             PROVE  Has(Prt)' /\ UnreadOK' /\ InStepOK' /\ AwaitedOK'
  BY DEF RepeatPrt, CleanOK, Configuring, Waiting
<1>1. Send(Prt, "conf") /\ read' = read /\ at = "repeat" /\ at' = "wait prt" /\ Prt \in Commands
  BY DEF RepeatPrt, Commands
<1>2. clean
  BY <1>1, SendClean
<1>3. UnreadOK /\ UnbegunOK /\ Has(Prt)
  BY <1>1, <1>2 DEF CleanOK
<1>4. module.baud = "conf"
  BY <1>3, HasFacts
<1>5. /\ UnreadOK' /\ UnbegunOK' /\ module' = Configured(Prt)
      /\ \E f \in 1 .. Len(frames') :
           frames'[f].last > read' /\ frames'[f].body = AckBody(AckAck, Prt)
  BY <1>1, <1>3, <1>4, CleanSend
<1>6. Has(Prt)'
  BY <1>1, <1>5, HasKept
<1>7. InStepOK'
  <2>1. ubx'.state = "sync1"
    BY DEF RepeatPrt, UbxOpen
  <2>2. (FramesOK /\ UnbegunOK /\ ubx.state = "sync1" => InStepOK)'
    BY InStepReset, PTL
  <2> QED BY <1>5, <2>1, <2>2
<1>8. AwaitedOK'
  <2>1. Awaited' = Prt
    BY <1>1 DEF Awaited
  <2> QED BY <1>5, <2>1 DEF AwaitedOK
<1> QED BY <1>5, <1>6, <1>7, <1>8

\* CFG-RATE and CFG-MSG.
LEMMA CleanConfigure ==
  ASSUME FramesOK, SetupTypes, SetupTypes', ProgressOK, CleanOK,
         ConfigureRate \/ ConfigureMsg
  PROVE  CleanOK'
<1> SUFFICES ASSUME clean'
             PROVE  UnreadOK' /\ InStepOK' /\ AwaitedOK'
  BY DEF ConfigureRate, ConfigureMsg, CleanOK, Configuring, Waiting
<1>1. PICK c \in Commands :
        /\ Send(c, "conf") /\ read' = read /\ ubx' = ubx
        /\ at \in {"rate", "msg"} /\ at' \in Waiting /\ Awaited' = c
  <2>1. Rate \in Commands /\ Msg \in Commands
    BY DEF Commands
  <2>2. CASE ConfigureRate
    BY <2>1, <2>2 DEF ConfigureRate, Awaited, Waiting
  <2>3. CASE ConfigureMsg
    BY <2>1, <2>3 DEF ConfigureMsg, Awaited, Waiting
  <2> QED BY <2>2, <2>3
<1>2. clean
  BY <1>1, SendClean
<1>3. UnreadOK /\ InStepOK
  BY <1>1, <1>2 DEF CleanOK, Configuring
<1>4. module.baud = "conf"
  BY <1>1, HasFacts DEF ProgressOK
<1>5. /\ UnreadOK'
      /\ \E f \in 1 .. Len(frames') :
           frames'[f].last > read' /\ frames'[f].body = AckBody(AckAck, c)
  BY <1>1, <1>3, <1>4, CleanSend
<1>6. Emission
  BY <1>1, SendEmits DEF FramesOK
<1>7. InStepOK'
  BY <1>1, <1>3, <1>6, InStepPut
<1>8. AwaitedOK'
  BY <1>1, <1>5 DEF AwaitedOK
<1> QED BY <1>5, <1>7, <1>8

LEMMA CleanFix ==
  ASSUME FramesOK, SetupTypes, SetupTypes', CleanOK, SendFix
  PROVE  CleanOK'
<1> SUFFICES ASSUME clean'
             PROVE  CleanOK'
  BY DEF CleanOK
<1>1. PICK fix \in Fixes : Emit(FixBody(fix), module.baud, port)
  BY DEF SendFix
<1>2. /\ FixBody(fix) \in Bodies /\ FixBody(fix)[1] # AckNak
      /\ UNCHANGED <<ubx, port, at, attempt, module, read>>
  BY FixFacts, GpsAssumption DEF SendFix
<1>3. clean /\ Answers(FixBody(fix))
  BY <1>1, <1>2, EmitClean DEF Answers
<1>4. Emission
  BY FixEmits DEF FramesOK
<1>5. /\ UnreadOK => UnreadOK'
      /\ UnbegunOK => UnbegunOK'
  BY <1>2, <1>3, UnreadPut
<1>6. InStepOK => InStepOK'
  BY <1>2, <1>4, InStepPut
<1>7. AwaitedOK => AwaitedOK'
  BY <1>2, <1>4, AwaitedKept
<1>8. Has(Prt) => Has(Prt)'
  BY <1>2, HasKept DEF Commands
<1> QED BY <1>2, <1>3, <1>5, <1>6, <1>7, <1>8 DEF CleanOK

\* A new attempt counts as clean when nothing is left to be read.
LEMMA CleanBegin ==
  ASSUME FramesOK, Begin
  PROVE  CleanOK'
<1> SUFFICES ASSUME clean'
             PROVE  UnreadOK' /\ UnbegunOK'
  BY DEF Begin, CleanOK, Configuring, Waiting
<1>1. line = <<>> /\ UNCHANGED <<frames, read>>
  BY DEF Begin
<1>2. read \in Nat /\ Len(line) = 0
  BY <1>1 DEF FramesOK
<1>3. \A f \in 1 .. Len(frames) : frames[f].last \in Nat /\ frames[f].last <= read + Len(line)
  BY FrameTypes DEF FramesOK
<1>4. \A f \in 1 .. Len(frames) : ~(frames[f].last > read)
  BY <1>2, <1>3
<1> QED BY <1>1, <1>4 DEF UnreadOK, UnbegunOK

\* wait_ack does not run out of time while the ACK is on the line.
LEMMA CleanTimeout ==
  ASSUME FramesOK, CleanOK, Timeout
  PROVE  CleanOK'
<1> SUFFICES ASSUME clean'
             PROVE  FALSE
  BY DEF CleanOK
<1>1. line = <<>> /\ clean /\ at \in Waiting
  BY DEF Timeout, Fault, NoFault
<1>2. PICK f \in 1 .. Len(frames) : frames[f].last > read
  BY <1>1 DEF CleanOK, AwaitedOK
<1>3. read \in Nat /\ Len(line) = 0 /\ frames[f].last \in Nat
  BY <1>1, FrameTypes
<1>4. frames[f].last <= read + Len(line)
  BY DEF FramesOK
<1> QED BY <1>2, <1>3, <1>4

LEMMA CleanRead ==
  ASSUME FramesOK, WholeOK, ParserOK, SetupTypes, CleanOK, ReadOn \/ Refused \/ Confirmed
  PROVE  CleanOK'
<1> SUFFICES ASSUME clean'
             PROVE  CleanOK'
  BY DEF CleanOK
<1> DEFINE s == Head(line)
<1>1. /\ ReadSymbol /\ at \in Waiting \cup {"open"} /\ line # <<>> /\ read' = read + 1
      /\ UNCHANGED <<attempt, module, clean, frames>>
  BY DEF ReadOn, Refused, Confirmed, ReadSymbol
<1>2. CASE at = "open"
  <2>1. at' = at
    BY <1>2 DEF ReadOn, Refused, Confirmed, Answered, Waiting
  <2> QED BY <1>2, <2>1 DEF CleanOK, Configuring, Waiting
<1>3. CASE at \in Waiting
  <2>1. UnreadOK /\ InStepOK /\ AwaitedOK
    BY <1>1, <1>3 DEF CleanOK, Configuring
  <2>2. UnreadOK' /\ InStepOK'
    BY <1>1, <2>1, InStepRead
  <2>3. CASE ReadOn
    <3>1. at' = at /\ Awaited' = Awaited
      BY <2>3 DEF ReadOn, Awaited
    <3>2. PICK f \in 1 .. Len(frames) :
            frames[f].last > read /\ frames[f].body = AckBody(AckAck, Awaited)
      BY <2>1 DEF AwaitedOK
    <3>3. frames[f].last # read + 1
      <4> SUFFICES ASSUME frames[f].last = read + 1
                   PROVE  FALSE
        OBVIOUS
      <4>1. Complete(s) /\ ubx.body = AckBody(AckAck, Awaited)
        BY <1>1, <2>1, <3>2, EndOfFrame
      <4>2. Awaited \in Commands
        BY <1>3, AwaitedFacts
      <4>3. ubx.body[1] = AckAck /\ ubx.body[2] = 1 /\ ubx.body[3] = Awaited
        BY <4>1, <4>2, AckFacts
      <4>4. Answered
        BY <1>1, <1>3, <4>1, <4>3 DEF Answered, IsAnswer
      <4> QED BY <2>3, <4>4 DEF ReadOn
    <3>4. frames[f].last > read'
      <4>1. frames[f].last \in Nat /\ read \in Nat
        BY FrameTypes
      <4> QED BY <1>1, <3>2, <3>3, <4>1
    <3>5. AwaitedOK'
      BY <1>1, <3>1, <3>2, <3>4 DEF AwaitedOK
    <3>6. Has(Prt) => Has(Prt)'
      BY <1>1 DEF Has, Configured
    <3> QED BY <1>1, <1>3, <2>2, <3>1, <3>5, <3>6 DEF CleanOK, Waiting
  <2>4. CASE Refused
    <3>1. ubx.body[1] = AckNak /\ ubx.state = "checksum"
      BY <2>4 DEF Refused, Answered, Complete
    <3>2. PICK g \in 1 .. Len(frames) : frames[g].last > read /\ frames[g].body = ubx.body
      BY <1>1, <2>1, <3>1, CompleteUnread
    <3> QED BY <2>1, <3>1, <3>2 DEF UnreadOK
  <2>5. CASE Confirmed
    <3>1. at' \in {"rate", "msg", "open"}
      BY <1>3, <2>5 DEF Confirmed, Waiting
    <3> QED BY <2>2, <3>1 DEF CleanOK, Configuring, Waiting
  <2> QED BY <2>3, <2>4, <2>5
<1> QED BY <1>1, <1>2, <1>3

LEMMA CleanStep ==
  ASSUME FramesOK, FramesOK', WholeOK, ParserOK, SetupTypes, SetupTypes',
         ProgressOK, CleanOK, [GpsNext]_gps_vars
  PROVE  CleanOK'
<1>1. CASE UNCHANGED gps_vars
  BY <1>1 DEF gps_vars, CleanOK, UnreadOK, UnbegunOK, InStepOK, AwaitedOK, Awaited, Begun,
       InStep, Has, Configured
<1> QED
  BY <1>1, CleanBegin, CleanSwitch, CleanRepeat, CleanConfigure, CleanRead, CleanTimeout,
     CleanFix DEF GpsNext

LEMMA SetupInit == GpsInit => SetupInv
<1> SUFFICES ASSUME GpsInit
             PROVE  SetupInv
  OBVIOUS
<1>1. frames = <<>> /\ Len(frames) = 0 /\ 1 .. 0 = {} /\ at = "switch" /\ attempt = 0
  BY DEF GpsInit
<1>2. AcksOK
  BY <1>1 DEF AcksOK
<1> QED BY <1>1, <1>2 DEF SetupInv, ProgressOK, CleanOK, Configuring, Waiting

LEMMA SetupStep ==
  ASSUME RecoverInv, RecoverInv', SetupTypes, SetupTypes', SetupInv, [GpsNext]_gps_vars
  PROVE  SetupInv'
<1>1. /\ FramesOK /\ FramesOK' /\ WholeOK /\ ParserOK
      /\ AcksOK /\ ProgressOK /\ CleanOK
  BY DEF RecoverInv, StreamInv, SetupInv
<1>2. AcksOK'
  BY <1>1, AcksStep
<1>3. ProgressOK'
  BY <1>1, ProgressStep
<1>4. CleanOK'
  BY <1>1, CleanStep
<1> QED BY <1>2, <1>3, <1>4 DEF SetupInv

LEMMA SetupInvariant == GpsSpec => [](SetupTypes /\ SetupInv)
BY TypesInvariant, SetupInit, SetupStep, PTL DEF GpsSpec

\* gps_open succeeds only with a module that is set up, and gives up only when each
\* attempt met a fault or garbage.
THEOREM GpsOpens == GpsSpec => []OpenIsRight
<1>1. SetupTypes /\ SetupInv => OpenIsRight
  <2> SUFFICES ASSUME SetupTypes, SetupInv
               PROVE  OpenIsRight
    OBVIOUS
  <2>1. ASSUME at = "open"
        PROVE  module = [baud |-> "conf", rate |-> TRUE, pvt |-> TRUE]
    <3>1. Has(Prt) /\ Has(Rate) /\ Has(Msg)
      BY <2>1 DEF SetupInv, ProgressOK
    <3>2. module.baud = "conf" /\ module.rate = TRUE /\ module.pvt = TRUE
      BY <3>1, HasFacts
    <3> QED BY <3>2 DEF SetupTypes
  <2>2. ASSUME at = "failed" \/ (at = "switch" /\ attempt > 0)
        PROVE  ~clean
    <3>1. attempt > 0 => attempt # 0
      BY GpsConstants DEF SetupTypes
    <3> QED BY <2>2, <3>1 DEF SetupInv, CleanOK
  <2> QED BY <2>1, <2>2 DEF OpenIsRight
<1> QED BY <1>1, SetupInvariant, PTL
=============================================================================
