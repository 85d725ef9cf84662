--------------------------------- MODULE Gps ---------------------------------
(***************************************************************************)
(* The set-up of the GPS module (src/pico/lib/gps/gps.c) and the parser of   *)
(* its UBX frames (ubx.c).  The Pico sends commands and waits for each ACK;  *)
(* what the module sends arrives byte by byte, and bytes read at the wrong   *)
(* baud rate are garbage.                                                    *)
(*                                                                          *)
(* A symbol of the line is a byte (val); the checksum of a frame also knows  *)
(* its frame (of), and fits the bytes of that frame only.  Class and id,     *)
(* length and checksum take one symbol each.                                 *)
(***************************************************************************)
EXTENDS Naturals, Sequences, SequencesExt, FiniteSetsExt

CONSTANTS
  MaxByte,          \* the largest byte
  MaxPayload,       \* UBX_MAX_PAYLOAD
  Sync1, Sync2,     \* UBX_SYNC1, UBX_SYNC2
  AckAck, AckNak, NavPvt,  \* class and id of the module's messages
  Prt, Rate, Msg,   \* the commands CFG-PRT, CFG-RATE and CFG-MSG
  Fixes,            \* payloads of a NAV-PVT
  Noise,            \* bytes a damaged one may turn into
  Garbage,          \* what the Pico may read of a frame at the wrong baud rate
  Checksum(_),      \* the checksum of a body as a byte (ubx_build): any function will do
  Retries,          \* CONF_GPS_CFG_RETRIES
  MaxFixes,         \* bound: NAV-PVT messages
  MaxDamaged,       \* bound: frames damaged on the line
  MaxFaults         \* bound: commands lost or refused, late ACKs

Byte == 0 .. MaxByte
Commands == {Prt, Rate, Msg}

\* What a frame carries: class and id, length, payload.
AckBody(kind, c) == <<kind, 1, c>>
FixBody(fix) == <<NavPvt, Len(fix)>> \o fix
Bodies ==
  {AckBody(kind, c) : kind \in {AckAck, AckNak}, c \in Commands}
    \cup {FixBody(fix) : fix \in Fixes}

ASSUME GpsAssumption ==
  /\ {MaxByte, MaxPayload, Retries, MaxFixes, MaxDamaged, MaxFaults} \subseteq Nat
  /\ {Sync1, Sync2, AckAck, AckNak, NavPvt} \cup Commands \cup Noise \subseteq Byte
  /\ Sync1 # Sync2
  /\ AckAck # AckNak /\ AckAck # NavPvt /\ AckNak # NavPvt
  /\ Prt # Rate /\ Rate # Msg /\ Prt # Msg
  /\ Fixes \subseteq Seq(Byte) /\ \A f \in Fixes : Len(f) <= MaxPayload
  /\ Garbage \subseteq Seq(Byte) /\ Garbage # {}
  /\ 1 <= MaxPayload /\ MaxPayload <= MaxByte
  /\ \A body \in Bodies : Checksum(body) \in Byte

VARIABLES
  ubx,       \* the parser: its state and the bytes the checksum runs over
  port,      \* the baud rate of the Pico's UART: "default" or "conf"
  at,        \* configure: where it is; "open" and "failed" are its ends
  attempt,   \* attempts begun
  module,    \* the module: baud rate, are rate and messages configured
  line,      \* the symbols on their way to the Pico
  faults,    \* faults so far
  clean,     \* did this attempt meet no fault and no garbage
  frames,    \* what the module sent: body, first and last symbol, fate
  read,      \* number of symbols read
  cuts,      \* where the parser was reset, in symbols read
  taken      \* the last symbols of the frames the parser accepted

gps_vars == <<ubx, port, at, attempt, module, line, faults, clean, frames, read, cuts, taken>>

UbxOpen == [state |-> "sync1", body |-> <<>>]

Waiting == {"wait prt", "wait rate", "wait msg"}

\* The module is as it left the factory, or still set up by an earlier run.
GpsInit ==
  /\ ubx = UbxOpen
  /\ port = "conf"
  /\ at = "switch"
  /\ attempt = 0
  /\ \E done \in BOOLEAN :
       module = [baud |-> IF done THEN "conf" ELSE "default", rate |-> done, pvt |-> done]
  /\ line = <<>>
  /\ faults = 0
  /\ clean = TRUE
  /\ frames = <<>>
  /\ read = 0
  /\ cuts = {}
  /\ taken = {}

(***************************************************************************)
(* The module sends a frame.                                                *)
(***************************************************************************)
Plain(bytes) == [i \in DOMAIN bytes |-> [val |-> bytes[i], of |-> 0]]

\* ubx_build
Frame(n, body) ==
  Append(Plain(<<Sync1, Sync2>> \o body), [val |-> Checksum(body), of |-> n])

\* One byte has another value, or a run of bytes is missing.
Damaged(frame) ==
  ({ReplaceAt(frame, i, [val |-> b, of |-> 0]) : i \in DOMAIN frame, b \in Noise} \ {frame})
  \cup {SubSeq(frame, 1, r[1] - 1) \o SubSeq(frame, r[2] + 1, Len(frame)) :
          r \in {p \in (DOMAIN frame) \X (DOMAIN frame) : p[1] <= p[2]}}

Fault == faults < MaxFaults /\ faults' = faults + 1 /\ clean' = FALSE
NoFault == UNCHANGED <<faults, clean>>

Put(body, fate, symbols) ==
  /\ line' = line \o symbols
  /\ frames' = Append(frames, [body |-> body, fate |-> fate,
                               first |-> read + Len(line) + 1,
                               last |-> read + Len(line) + Len(symbols)])

NumFrames(fate) == Quantify(DOMAIN frames, LAMBDA f : frames[f].fate = fate)

\* The frame as the Pico, listening at the baud rate p, gets it.
Emit(body, baud, p) ==
  LET frame == Frame(Len(frames) + 1, body)
  IN  IF baud = p
      THEN \/ Put(body, "whole", frame) /\ NoFault
           \/ /\ NumFrames("damaged") < MaxDamaged
              /\ \E symbols \in Damaged(frame) : Put(body, "damaged", symbols)
              /\ clean' = FALSE
              /\ UNCHANGED faults
      ELSE /\ \E bytes \in Garbage : Put(body, "garbage", Plain(bytes))
           /\ clean' = FALSE
           /\ UNCHANGED faults

\* Bound: the module sends a fix when the Pico has read what came before.
SendFix ==
  /\ module.pvt
  /\ line = <<>>
  /\ Quantify(DOMAIN frames, LAMBDA f : frames[f].body[1] = NavPvt) < MaxFixes
  /\ \E fix \in Fixes : Emit(FixBody(fix), module.baud, port)
  /\ UNCHANGED <<ubx, port, at, attempt, module, read, cuts, taken>>

(***************************************************************************)
(* The Pico sends a command at the baud rate p, and the module answers.     *)
(***************************************************************************)
Configured(c) ==
  CASE c = Prt -> [module EXCEPT !.baud = "conf"]
    [] c = Rate -> [module EXCEPT !.rate = TRUE]
    [] c = Msg -> [module EXCEPT !.pvt = TRUE]

\* The ACK of a change of the baud rate may come before or after the change.
Accept(c, p) ==
  /\ module.baud = p
  /\ module' = Configured(c)
  /\ \E baud \in {module.baud, module'.baud} : Emit(AckBody(AckAck, c), baud, p)

RefuseCommand(c, p) ==
  /\ module.baud = p
  /\ Fault
  /\ LET body == AckBody(AckNak, c) IN Put(body, "whole", Frame(Len(frames) + 1, body))
  /\ UNCHANGED module

NotHeard(p) ==
  /\ IF module.baud = p THEN Fault ELSE NoFault
  /\ UNCHANGED <<module, line, frames>>

Send(c, p) == Accept(c, p) \/ RefuseCommand(c, p) \/ NotHeard(p)

(***************************************************************************)
(* configure                                                                *)
(***************************************************************************)
\* The module may still be at its default baud rate.  Nothing is read here.
\* An attempt that begins with bytes of the last one does not count as clean.
Begin ==
  /\ at = "switch"
  /\ attempt < Retries
  /\ attempt' = attempt + 1
  /\ port' = "default"
  /\ at' = "prt"
  /\ clean' = (line = <<>>)
  /\ UNCHANGED <<ubx, module, line, faults, frames, read, cuts, taken>>

SwitchBaud ==
  /\ at = "prt"
  /\ at' = "repeat"
  /\ Send(Prt, "default")
  /\ UNCHANGED <<ubx, port, attempt, read, cuts, taken>>

RepeatPrt ==
  /\ at = "repeat"
  /\ at' = "wait prt"
  /\ port' = "conf"
  /\ ubx' = UbxOpen
  /\ cuts' = cuts \cup {read}
  /\ Send(Prt, "conf")
  /\ UNCHANGED <<attempt, read, taken>>

AttemptFails == at' = IF attempt < Retries THEN "switch" ELSE "failed"

\* wait_ack returns -1.  With bytes still to come the ACK was late.
Timeout ==
  /\ at \in Waiting
  /\ IF line = <<>> THEN NoFault ELSE Fault
  /\ AttemptFails
  /\ UNCHANGED <<ubx, port, attempt, module, line, frames, read, cuts, taken>>

(***************************************************************************)
(* ubx_parse                                                                *)
(***************************************************************************)
\* Mutant: a length is not looked at.
PayloadFits_Always(len) == TRUE
PayloadFits(len) == len <= MaxPayload

\* Mutant: the parser waits for another checksum after a wrong one.
AfterChecksum_Waits(fits) == IF fits THEN "sync1" ELSE "checksum"
AfterChecksum(fits) == "sync1"

ChecksumFits(s) == s.of # 0 /\ frames[s.of].body = ubx.body

\* The parser after one more symbol.
Parsed(s) ==
  LET Go(state) == [ubx EXCEPT !.state = state]
      Add(state) == [state |-> state, body |-> Append(ubx.body, s.val)]
  IN  CASE ubx.state = "sync1" -> IF s.val = Sync1 THEN Go("sync2") ELSE ubx
        [] ubx.state = "sync2" ->
             [state |-> IF s.val = Sync2 THEN "class" ELSE "sync1", body |-> <<>>]
        [] ubx.state = "class" -> Add("length")
        [] ubx.state = "length" ->
             Add(IF ~PayloadFits(s.val) THEN "sync1"
                 ELSE IF s.val = 0 THEN "checksum" ELSE "payload")
        [] ubx.state = "payload" ->
             Add(IF Len(ubx.body) - 1 < ubx.body[2] THEN "payload" ELSE "checksum")
        [] ubx.state = "checksum" -> Go(AfterChecksum(ChecksumFits(s)))

Complete(s) == ubx.state = "checksum" /\ ChecksumFits(s)

ReadSymbol ==
  /\ at \in Waiting \cup {"open"}
  /\ line # <<>>
  /\ line' = Tail(line)
  /\ read' = read + 1
  /\ ubx' = Parsed(Head(line))
  /\ taken' = IF Complete(Head(line)) THEN taken \cup {read'} ELSE taken

Awaited == CASE at = "wait prt" -> Prt [] at = "wait rate" -> Rate [] at = "wait msg" -> Msg

\* Mutant: the ACK of any command will do.
IsAnswer_Any(body) == body[1] \in {AckAck, AckNak} /\ body[2] = 1
IsAnswer(body) ==
  body[1] \in {AckAck, AckNak} /\ body[2] = 1 /\ body[3] = Awaited

\* Does this symbol end the frame wait_ack waits for.
Answered == at \in Waiting /\ line # <<>> /\ Complete(Head(line)) /\ IsAnswer(ubx.body)

\* wait_ack and gps_poll: a byte that ends no frame, or one nobody waits for.
\* wait_ack drops a NAV-PVT, gps_poll decodes it.
ReadOn ==
  /\ ReadSymbol
  /\ ~Answered
  /\ UNCHANGED <<port, at, attempt, module, faults, clean, frames, cuts>>

\* ACK-NAK
Refused ==
  /\ Answered
  /\ ubx.body[1] = AckNak
  /\ ReadSymbol
  /\ AttemptFails
  /\ UNCHANGED <<port, attempt, module, faults, clean, frames, cuts>>

\* ACK-ACK: the next step of configure.
Confirmed ==
  /\ Answered
  /\ ubx.body[1] = AckAck
  /\ ReadSymbol
  /\ at' = CASE at = "wait prt" -> "rate" [] at = "wait rate" -> "msg" [] at = "wait msg" -> "open"
  /\ UNCHANGED <<port, attempt, module, faults, clean, frames, cuts>>

ConfigureRate ==
  /\ at = "rate"
  /\ at' = "wait rate"
  /\ Send(Rate, "conf")
  /\ UNCHANGED <<ubx, port, attempt, read, cuts, taken>>

ConfigureMsg ==
  /\ at = "msg"
  /\ at' = "wait msg"
  /\ Send(Msg, "conf")
  /\ UNCHANGED <<ubx, port, attempt, read, cuts, taken>>

GpsNext ==
  \/ Begin \/ SwitchBaud \/ RepeatPrt \/ ConfigureRate \/ ConfigureMsg
  \/ ReadOn \/ Refused \/ Confirmed \/ Timeout
  \/ SendFix

GpsSpec == GpsInit /\ [][GpsNext]_gps_vars

-----------------------------------------------------------------------------
\* Every variable has its type, and a payload never leaves its array of
\* UBX_MAX_PAYLOAD bytes, whatever length the line claims.
GpsTypeOK ==
  /\ ubx.state \in {"sync1", "sync2", "class", "length", "payload", "checksum"}
  /\ Len(ubx.body) <= 2 + MaxPayload
  /\ ubx.state = "payload" => Len(ubx.body) < 2 + ubx.body[2]
  /\ port \in {"default", "conf"}
  /\ at \in Waiting \cup {"switch", "prt", "repeat", "rate", "msg", "open", "failed"}
  /\ attempt \in 0 .. Retries
  /\ module \in [baud : {"default", "conf"}, rate : BOOLEAN, pvt : BOOLEAN]
  /\ faults \in 0 .. MaxFaults
  /\ clean \in BOOLEAN
  /\ taken \subseteq 1 .. read

\* gps_open succeeds only with a module that talks at the configured baud rate
\* with the configured rate and messages on, although ACKs of earlier commands
\* and attempts still come in; and it gives up only when each attempt met a
\* fault or garbage.
OpenIsRight ==
  /\ at = "open" => module = [baud |-> "conf", rate |-> TRUE, pvt |-> TRUE]
  /\ (at = "failed" \/ (at = "switch" /\ attempt > 0)) => ~clean

\* A frame without a first sync byte inside.
Quiet(f) ==
  /\ f.fate = "whole"
  /\ \A i \in DOMAIN f.body : f.body[i] # Sync1
  /\ Frame(0, f.body)[3 + Len(f.body)].val # Sync1

\* The longest a frame that is none can keep the parser, behind its sync bytes.
Grasp == 2 + MaxPayload + 1

\* The parser finds its way back: a whole frame is accepted when the symbols just
\* before it, as many as a false frame can swallow, came from quiet frames (and
\* ubx_open did not cut it).  The sync bytes of a frame inside a swallowed one
\* are gone, which is why nothing is said for sooner.
Recovers ==
  \A f \in DOMAIN frames :
    /\ frames[f].fate = "whole" /\ frames[f].last <= read
    /\ \A g \in 1 .. f - 1 : frames[g].last + Grasp >= frames[f].first => Quiet(frames[g])
    /\ cuts \cap (frames[f].first .. frames[f].last - 1) = {}
    => frames[f].last \in taken
=============================================================================
