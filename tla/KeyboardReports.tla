-------------------------- MODULE KeyboardReports --------------------------
(***************************************************************************)
(* What the keyboard is sent for a configuration (rgb.py, reports_for and  *)
(* below), and what its controller makes of it.  The reports are modelled  *)
(* byte by byte up to their padding, because what is wrong with an         *)
(* encoding shows only when something decodes it.  The controller is not   *)
(* in the repository: it is modelled from the reports the code builds.     *)
(*                                                                         *)
(* LightingPage takes the whole sequence for one step that works or does   *)
(* not; here it is sent report by report.                                  *)
(***************************************************************************)
EXTENDS Integers, SequencesExt

CONSTANTS
  Zones,         \* RGB_ZONE_COUNT
  ReportSize,    \* RGB_FEATURE_REPORT_SIZE
  Shades,        \* bound: the colours configurations are made of
  Percents,      \* bound: their brightness
  Asked,         \* bound: the configurations asked for
  MaxHidFaults   \* bound: reports that are not sent whole

LevelMax == 9    \* RGB_RAW_BRIGHTNESS_MAX

Byte == 0..255
Colour == [1..3 -> Byte]

\* A report has room for a group per zone (511 bytes of 960).
ASSUME KeyboardAssumption ==
  /\ Zones \in 2..255
  /\ ReportSize \in Nat /\ 7 + 21 * Zones <= ReportSize
  /\ Shades \subseteq Colour /\ Shades # {} /\ IsFiniteSet(Shades)
  /\ Percents \subseteq 0..100
  /\ MaxHidFaults \in Nat

VARIABLES
  keyboard,   \* what is lit: by zone a colour, and the level; and what it keeps
  wanted,     \* the configuration being sent, or sent last
  unsent,     \* the reports still to send
  shown,      \* the last sequence was sent whole
  hidFaults   \* faults so far

keyboardVars == <<keyboard, wanted, unsent, shown, hidFaults>>

-----------------------------------------------------------------------------
(* Configurations *)

\* Python rounds a half to the even neighbour.
RoundHalfToEven(n, d) ==
  LET q == n \div d  r == n % d
  IN  IF 2 * r > d \/ (2 * r = d /\ (q % 2) = 1) THEN q + 1 ELSE q

\* round(start + (end - start) * index / (N - 1)), by channel.
Gradient(start, end) ==
  LET n == Zones - 1
  IN  [z \in 1..Zones |-> [c \in 1..3 |->
         RoundHalfToEven(start[c] * n + (end[c] - start[c]) * (z - 1), n)]]

Alternating(first, second) == [z \in 1..Zones |-> IF z % 2 = 1 THEN first ELSE second]

\* colors[min(len - 1, int(index / band))]
Banded(colours) ==
  [z \in 1..Zones |->
     LET i == ((z - 1) * Len(colours)) \div Zones
     IN  colours[1 + (IF i < Len(colours) THEN i ELSE Len(colours) - 1)]]

ShadeSeq == SetToSeq(Shades)

\* By how it was asked for: a colour everywhere, a gradient, two alternating
\* ones, or the first so many as bands.
Frames ==
  {[kind |-> "solid", from |-> s, to |-> s, bands |-> 1] : s \in Shades}
    \cup [kind : {"gradient", "alternating"}, from : Shades, to : Shades, bands : {1}]
    \cup [kind : {"banded"}, from : {ShadeSeq[1]}, to : {ShadeSeq[1]}, bands : 1..Len(ShadeSeq)]

FrameZones(f) ==
  IF f.kind = "gradient" THEN Gradient(f.from, f.to)
  ELSE IF f.kind = "alternating" THEN Alternating(f.from, f.to)
  ELSE IF f.kind = "banded" THEN Banded(SubSeq(ShadeSeq, 1, f.bands))
  ELSE [z \in 1..Zones |-> f.from]

-----------------------------------------------------------------------------
(* Reports: the bytes before the padding *)

Packet(command, payload) ==
  <<7, command, Len(payload) % 256, Len(payload) \div 256>> \o payload

SwitchProfile == Packet(200, <<1>>)

\* One pass over the zones, keeping some.
Ascending(kept) ==
  LET upTo[z \in 0..Zones] ==
        IF z = 0 THEN <<>> ELSE IF z \in kept THEN Append(upTo[z - 1], z) ELSE upTo[z - 1]
  IN  upTo[Zones]

\* The zones of one colour, in order; the colours, in order of their first zone.
ZonesOf(zones, colour) == Ascending({z \in 1..Zones : zones[z] = colour})
GroupStarts(zones) == Ascending({z \in 1..Zones : \A y \in 1..(z - 1) : zones[y] # zones[z]})

\* Slip: led identifiers begin at 0.
EncodeGroup_FromZero(index, colour, leds) ==
  <<index, 6, 1, 11, 2, 2, 3, 0, 4, 0, 5, 2, 6, 0, 1>> \o colour \o <<Len(leds)>>
    \o FlattenSeq([i \in 1..Len(leds) |-> <<(leds[i] - 1) % 256, (leds[i] - 1) \div 256>>])

\* _encode_static_group
EncodeGroup(index, colour, leds) ==
  <<index, 6, 1, 11, 2, 2, 3, 0, 4, 0, 5, 2, 6, 0, 1>> \o colour \o <<Len(leds)>>
    \o FlattenSeq([i \in 1..Len(leds) |-> <<leds[i] % 256, leds[i] \div 256>>])

SaveProfile(zones) ==
  LET starts == GroupStarts(zones)
  IN  Packet(203, <<1, 1, 1>> \o FlattenSeq(
        [g \in 1..Len(starts) |->
           EncodeGroup(g, zones[starts[g]], ZonesOf(zones, zones[starts[g]]))]))

TurnOff == Packet(203, <<1, 1, 1>>)

RawLevel(percent) ==
  LET level == RoundHalfToEven(percent * LevelMax, 100)
  IN  IF level < 1 THEN 1 ELSE IF level > LevelMax THEN LevelMax ELSE level

ReportsFor(c) ==
  IF c.enabled /\ c.percent > 0
  THEN <<SwitchProfile, SaveProfile(FrameZones(c.frame)), Packet(206, <<RawLevel(c.percent)>>)>>
  ELSE <<SwitchProfile, TurnOff>>

-----------------------------------------------------------------------------
(* The controller *)

Word(r, o) == r[o + 1] + 256 * r[o + 2]
Dark == [z \in 1..Zones |-> <<0, 0, 0>>]

\* The groups of a report that saves a profile, from offset 7 to its length; one
\* that does not fit ends them.
Painted(r) ==
  LET end == 4 + Word(r, 2)
      next(o) == o + 19 + 2 * r[o + 19]
      leds(o) == {Word(r, o + 19 + 2 * (k - 1)) : k \in 1..r[o + 19]}
      paint[o \in 7..end] ==
        IF o = end \/ next(o) \notin (o + 1)..end THEN Dark
        ELSE [z \in 1..Zones |->
                IF z \in leds(o) THEN SubSeq(r, o + 16, o + 18) ELSE paint[next(o)][z]]
  IN  paint[7]

Executed(k, r) ==
  IF r[2] = 203 THEN [k EXCEPT !.zones = Painted(r)]
  ELSE IF r[2] = 206 THEN [k EXCEPT !.level = r[5]]
  ELSE k

-----------------------------------------------------------------------------

Configurations == [enabled : BOOLEAN, percent : Percents \cup {0}, frame : Frames]

ASSUME AskedAssumption == Asked \subseteq Configurations

KeyboardTypeOK ==
  /\ keyboard \in [zones : [1..Zones -> Colour], level : 0..LevelMax]
  /\ wanted \in Configurations
  /\ unsent \in Seq(Seq(Byte)) /\ Len(unsent) <= 3
  /\ shown \in BOOLEAN
  /\ hidFaults \in 0..MaxHidFaults

Apply(c) ==
  /\ unsent = <<>>
  /\ wanted' = c
  /\ unsent' = ReportsFor(c)
  /\ shown' = FALSE
  /\ UNCHANGED <<keyboard, hidFaults>>

\* _write_reports, one report.
SendReport ==
  /\ unsent # <<>>
  /\ keyboard' = Executed(keyboard, Head(unsent))
  /\ unsent' = Tail(unsent)
  /\ shown' = (Len(unsent) = 1)
  /\ UNCHANGED <<wanted, hidFaults>>

\* The ioctl fails or is short, or the helper is killed: nothing more is sent.
SendFails ==
  /\ unsent # <<>>
  /\ hidFaults < MaxHidFaults /\ hidFaults' = hidFaults + 1
  /\ keyboard' \in {keyboard, Executed(keyboard, Head(unsent))}
  /\ unsent' = <<>>
  /\ UNCHANGED <<wanted, shown>>

KeyboardInit ==
  /\ keyboard = [zones |-> Dark, level |-> 0]
  /\ wanted = [enabled |-> FALSE, percent |-> 0, frame |-> CHOOSE f \in Frames : f.kind = "solid"]
  /\ unsent = <<>> /\ shown = FALSE /\ hidFaults = 0

KeyboardNext ==
  \/ \E c \in Asked : Apply(c)
  \/ SendReport
  \/ SendFails

KeyboardSpec == KeyboardInit /\ [][KeyboardNext]_keyboardVars

-----------------------------------------------------------------------------

\* Every report fits, with any number of colours (_save_profile_report).
ReportsFit == \A i \in DOMAIN unsent : Len(unsent[i]) <= ReportSize

\* A gradient starts and ends with its two colours and goes one way between.
GradientSound ==
  wanted.frame.kind = "gradient" =>
    LET zones == FrameZones(wanted.frame)  a == wanted.frame.from  b == wanted.frame.to
    IN  /\ zones[1] = a /\ zones[Zones] = b
        /\ \A z \in 2..Zones : \A c \in 1..3 :
             IF a[c] <= b[c] THEN zones[z - 1][c] <= zones[z][c]
             ELSE zones[z - 1][c] >= zones[z][c]

\* After a whole sequence every zone has its colour and none is left from
\* before; the level is the one nearest to the percentage, and a keyboard that
\* is on is never at level 0.
LitAsWanted ==
  IF wanted.enabled /\ wanted.percent > 0
  THEN /\ keyboard.zones = FrameZones(wanted.frame)
       /\ keyboard.level \in 1..LevelMax
       /\ LET off == 100 * keyboard.level - LevelMax * wanted.percent
          IN  (-50 <= off /\ off <= 50) \/ (keyboard.level = 1 /\ off > 0)
  ELSE keyboard.zones = Dark

\* What was asked is what lights up, whatever was sent or failed before, and
\* on the way no report is longer than the controller takes (reports_for and
\* its encoding, gradient_rgb_configuration).
KeyboardShows == ReportsFit /\ GradientSound /\ (shown => LitAsWanted)
=============================================================================
