------------------------------- MODULE Storage -------------------------------
(***************************************************************************)
(* The settings and calibrations in flash (src/pico/lib/storage): one       *)
(* region with a header and tagged entries back to back.  A save builds the *)
(* whole new region in RAM, erases the flash and programs it; the power may *)
(* go at any moment of that.  An entry is its tag and its value, or Damaged *)
(* when not all its bytes are there: the CRC tells.                         *)
(***************************************************************************)
EXTENDS Naturals, Sequences, FiniteSets

CONSTANTS
  Tags, Values,   \* what may be saved
  Damaged,        \* bytes that are no value
  Nothing,        \* storage_load returned -1
  Size,           \* words an entry of each tag takes, with its head
  RegionSize,     \* words for entries: CONF_STORAGE_SIZE without the header
  MaxPowerLosses  \* bound

ASSUME StorageAssumption ==
  /\ Size \in [Tags -> Nat \ {0}]
  /\ RegionSize \in Nat
  /\ MaxPowerLosses \in Nat
  /\ Damaged \notin Values /\ Nothing \notin Values

VARIABLES
  flash,         \* the region: is its header valid, and the entries found in it
  save,          \* the save that is running, at stage "idle", "erase" or "program"
  saved,         \* last value of each tag whose save returned 0
  unsure,        \* values of each tag whose save was cut off after that
  power_losses

vars == <<flash, save, saved, unsure, power_losses>>

Entry == [tag : Tags, val : Values \cup {Damaged}]
Region == [valid : BOOLEAN, entries : Seq(Entry)]
Erased == [valid |-> FALSE, entries |-> <<>>]
Idle == [stage |-> "idle"]

-----------------------------------------------------------------------------
\* find_entry: the entry with this tag, the last one if there are several.
FindEntry(entries, tag) == {i \in DOMAIN entries : entries[i].tag = tag
                              /\ \A j \in DOMAIN entries :
                                   entries[j].tag = tag => j <= i}

\* Mutant: a damaged entry is loaded.
Load_NoCrc(tag) ==
  LET found == FindEntry(flash.entries, tag)
  IN  IF ~flash.valid \/ found = {} THEN Nothing
      ELSE flash.entries[CHOOSE i \in found : TRUE].val

Load(tag) ==
  LET found == FindEntry(flash.entries, tag)
  IN  IF ~flash.valid \/ found = {} THEN Nothing
      ELSE LET e == flash.entries[CHOOSE i \in found : TRUE]
           IN  IF e.val = Damaged THEN Nothing ELSE e.val

\* The words of the region that entries take, each as its entry and its number.
Words(entries) == UNION {{i} \X (1 .. Size[entries[i].tag]) : i \in DOMAIN entries}

Occupied(entries) == Cardinality(Words(entries))

\* Mutant: an old entry with the same tag stays in the image.
Others_KeepsOld(tag) == IF flash.valid THEN flash.entries ELSE <<>>

\* The k-th number of S, by size.
Nth(S, k) == CHOOSE i \in S : Cardinality({j \in S : j <= i}) = k

\* The entries of a valid region that the new image keeps, one behind the other.
Others(tag) ==
  LET kept == {i \in DOMAIN flash.entries : flash.valid /\ flash.entries[i].tag # tag}
  IN  [k \in 1 .. Cardinality(kept) |-> flash.entries[Nth(kept, k)]]

\* Mutant: the room for the new entry itself is forgotten.
Fits_WithoutItself(tag) == Occupied(Others(tag)) <= RegionSize

Fits(tag) == Occupied(Others(tag)) + Size[tag] <= RegionSize

Image(tag, val) ==
  [valid |-> TRUE,
   entries |-> Append(Others(tag), [tag |-> tag, val |-> val])]

\* What is left of an image when only its first bytes were programmed: the
\* header, some whole entries and the beginning of one more.
Programmed(img) ==
  {Erased} \cup
  {[valid |-> TRUE, entries |-> SubSeq(img.entries, 1, n)] :
     n \in 0 .. Len(img.entries)} \cup
  {[valid |-> TRUE, entries |-> [SubSeq(img.entries, 1, n) EXCEPT ![n].val = Damaged]] :
     n \in 1 .. Len(img.entries)}

\* What an erase that was cut off may leave: the value of any entry may be damaged.
\* The CRC covers the value only; the words in front of it (tag, length) are taken
\* to read as they were or to end the list.
HalfErased(r) ==
  {Erased} \cup
  {[valid |-> TRUE,
    entries |-> [i \in 1 .. n |->
                   [r.entries[i] EXCEPT !.val = IF i \in damaged THEN Damaged ELSE @]]] :
     n \in 0 .. Len(r.entries), damaged \in SUBSET DOMAIN r.entries}

-----------------------------------------------------------------------------
Init ==
  /\ flash = Erased
  /\ save = Idle
  /\ saved = [t \in Tags |-> Nothing]
  /\ unsure = [t \in Tags |-> {}]
  /\ power_losses = 0

\* storage_save up to flash_safe_execute.  Without memory or room, or when the
\* other core cannot be held, it returns -1 and leaves the flash alone.
SaveBegin(tag, val) ==
  /\ save.stage = "idle"
  /\ Fits(tag)
  /\ save' = [stage |-> "erase", tag |-> tag, val |-> val, img |-> Image(tag, val)]
  /\ UNCHANGED <<flash, saved, unsure, power_losses>>

\* flash_write_cb
Erase ==
  /\ save.stage = "erase"
  /\ flash' = Erased
  /\ save' = [save EXCEPT !.stage = "program"]
  /\ UNCHANGED <<saved, unsure, power_losses>>

Program ==
  /\ save.stage = "program"
  /\ flash' = save.img
  /\ save' = Idle
  /\ saved' = [saved EXCEPT ![save.tag] = save.val]
  /\ unsure' = [unsure EXCEPT ![save.tag] = {}]
  /\ UNCHANGED power_losses

PowerLoss ==
  /\ save.stage \in {"erase", "program"}
  /\ power_losses < MaxPowerLosses
  /\ flash' \in IF save.stage = "erase" THEN {flash} \cup HalfErased(flash)
                ELSE Programmed(save.img)
  /\ save' = Idle
  /\ unsure' = [unsure EXCEPT ![save.tag] = @ \cup {save.val}]
  /\ power_losses' = power_losses + 1
  /\ UNCHANGED saved

Next ==
  \/ \E tag \in Tags, val \in Values : SaveBegin(tag, val)
  \/ Erase
  \/ Program
  \/ PowerLoss

Spec == Init /\ [][Next]_vars

-----------------------------------------------------------------------------
\* The entries found in the region lie inside it.
TypeOK ==
  /\ flash \in Region
  /\ Occupied(flash.entries) <= RegionSize
  /\ saved \in [Tags -> Values \cup {Nothing}]
  /\ unsure \in [Tags -> SUBSET Values]
  /\ save.stage \in {"idle", "erase", "program"}

\* storage_load finds the last saved value of a tag, that of a save the power
\* cut off, or nothing: never a damaged value, nor one that was replaced.  As
\* long as the power stays on, a save changes its own tag and no other.
LoadIsSaved ==
  \A t \in Tags :
    /\ Load(t) \in {saved[t], Nothing} \cup unsure[t]
    /\ save.stage = "idle" /\ power_losses = 0 => Load(t) = saved[t]

\* An entry in the region can always be replaced: saving the same tag over and
\* over, or after a power loss, does not use up the region.
CanBeReplaced ==
  \A t \in Tags : flash.valid /\ FindEntry(flash.entries, t) # {} => Fits(t)
=============================================================================
