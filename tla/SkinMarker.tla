------------------------------- MODULE SkinMarker -------------------------------
(***************************************************************************)
(* The marker a player is asked to wear (src/src/verification/             *)
(* skin-marker.ts): eight by eight pixels with the letters CL, drawn in    *)
(* tones of the skin around it, each pixel in one of eight shades.  Of a   *)
(* colour only its lightness in whole percents is kept: hue and saturation *)
(* are the same for all shades of a palette, and two colours whose         *)
(* lightness differs by one percent differ after rounding to bytes.  The   *)
(* SHA-256 of the pixels stands for the pixels.                            *)
(***************************************************************************)
EXTENDS Integers, FiniteSets

CONSTANTS
  Entropies,    \* 32 bytes, numbered from 0
  Skins,        \* sets of opaque pixels <<x, y>>
  Tones         \* lightnesses that the sampled pixels can average to

NoTone == -1    \* no base can be sampled
NoEntropy == <<>>
Bytes == [0 .. 31 -> 0 .. 255]
Palettes == {"background", "C", "L"}
Symbols == 0 .. 63
Shades == 0 .. 7

ASSUME EntropyAssumption == Entropies \subseteq Bytes
ASSUME ToneAssumption == Tones \subseteq 0 .. 100

VARIABLES
  opaque,       \* the opaque pixels of the player's skin
  tone,         \* what was sampled from it
  entropy,      \* what the challenge is drawn from, or NoEntropy
  worn          \* the marker in the skin that is checked

markerVars == <<opaque, tone, entropy, worn>>

MARKER_SIZE == 8
Glyph ==
  [s \in Symbols |->
    LET x == s % MARKER_SIZE
        y == s \div MARKER_SIZE
    IN CASE y \in 1 .. 6 /\ (x = 0 \/ (x \in 1 .. 2 /\ y \in {1, 6})) -> "C"
         [] y \in 1 .. 6 /\ (x = 4 \/ (x \in 5 .. 7 /\ y = 6)) -> "L"
         [] OTHER -> "background"]

ClampPercent(value, minimum, maximum) ==
  LET least == IF value < minimum THEN minimum ELSE value
  IN IF least > maximum THEN maximum ELSE least

Direction(base) == IF base >= 50 THEN -1 ELSE 1

BackgroundLightness(base, e) ==
  IF base = NoTone THEN 4 + (e[6] % 15) ELSE ClampPercent(base - 9 - (e[6] % 5), 6, 90)

\* Mutant: C may be as dark as L and the background.
LetterLightnessCDarker(base, e) ==
  IF base = NoTone THEN 70 + (e[2] % 21)
  ELSE ClampPercent(BackgroundLightness(base, e) + Direction(base) * (26 + (e[2] % 7)), 6, 95)

LetterLightnessC(base, e) ==
  IF base = NoTone THEN 70 + (e[2] % 21)
  ELSE ClampPercent(BackgroundLightness(base, e) + Direction(base) * (26 + (e[2] % 7)), 8, 95)

LetterLightnessL(base, e) ==
  IF base = NoTone THEN 45 + (e[3] % 21)
  ELSE ClampPercent(BackgroundLightness(base, e) + Direction(base) * (15 + (e[3] % 7)), 6, 93)

Lightness(palette, base, e) ==
  CASE palette = "background" -> BackgroundLightness(base, e)
    [] palette = "C" -> LetterLightnessC(base, e)
    [] palette = "L" -> LetterLightnessL(base, e)

BackgroundDelta(i) ==
  CASE i = 0 -> 0 [] i = 1 -> 3 [] i = 2 -> -2 [] i = 3 -> 5
    [] i = 4 -> -4 [] i = 5 -> 1 [] i = 6 -> -1 [] i = 7 -> 2

LetterDelta(i) ==
  CASE i = 0 -> 0 [] i = 1 -> 6 [] i = 2 -> -6 [] i = 3 -> 10
    [] i = 4 -> -10 [] i = 5 -> 3 [] i = 6 -> -3 [] i = 7 -> 8

\* hslToRgb clamps the lightness of a shade.
Shade(palette, base, e, i) ==
  ClampPercent(Lightness(palette, base, e)
                 + IF palette = "background" THEN BackgroundDelta(i) ELSE LetterDelta(i), 0, 100)

Weight(bit) ==
  CASE bit = 0 -> 128 [] bit = 1 -> 64 [] bit = 2 -> 32 [] bit = 3 -> 16
    [] bit = 4 -> 8 [] bit = 5 -> 4 [] bit = 6 -> 2 [] bit = 7 -> 1

Bit(e, n) == (e[n \div 8] \div Weight(n % 8)) % 2
ReadThreeBits(e, n) == 4 * Bit(e, n) + 2 * Bit(e, n + 1) + Bit(e, n + 2)

MARKER_SHADE_OFFSET == 8
ShadeOf(e, s) == ReadThreeBits(e, MARKER_SHADE_OFFSET * 8 + 3 * s)

MarkerPixels(base, e) == [s \in Symbols |-> Shade(Glyph[s], base, e, ShadeOf(e, s))]

\* Where the tone is taken from: the corner of the head around the marker, or
\* the whole skin when there is too little of it.
Corner == ((0 .. 15) \X (0 .. 15)) \ ((0 .. 7) \X (0 .. 7))
MarkedPixels == (0 .. 7) \X (0 .. 7)

Sampled(skin) ==
  CASE Cardinality(skin \cap Corner) >= 16 -> skin \cap Corner
    [] OTHER -> IF Cardinality(skin) >= 16 THEN skin ELSE {}

SampleMarkerBaseColor(skin) == IF Sampled(skin) = {} THEN {NoTone} ELSE Tones

SkinMatchesMarker(pixels, base, e) == pixels = MarkerPixels(base, e)

Unmarked == [s \in Symbols |-> -1]

MarkerInit ==
  /\ opaque \in Skins
  /\ tone = NoTone /\ entropy = NoEntropy
  /\ worn = Unmarked

\* A marker is drawn in the tones of the skin that the player wears.
Draw(e) ==
  /\ entropy = NoEntropy
  /\ entropy' = e
  /\ tone' \in SampleMarkerBaseColor(opaque)
  /\ UNCHANGED <<opaque, worn>>

\* A player wears the marker, and a later challenge draws other shades while
\* its palettes happen to be the same.
DrawAgain(e) ==
  /\ entropy # NoEntropy /\ worn = Unmarked
  /\ \A i \in {2, 3, 6} : e[i] = entropy[i]
  /\ \E s \in Symbols : ShadeOf(e, s) # ShadeOf(entropy, s)
  /\ worn' = MarkerPixels(tone, entropy)
  /\ entropy' = e
  /\ opaque' = opaque \cup MarkedPixels
  /\ UNCHANGED tone

MarkerNext == \E e \in Entropies : Draw(e) \/ DrawAgain(e)
MarkerSpec == MarkerInit /\ [][MarkerNext]_markerVars

---------------------------------------------------------------------------
\* The palettes keep their eight shades apart, however near the clamps they
\* come; merged ones would take from the 192 bits (skin-marker.ts:13-14).
ShadesApart ==
  \A p \in Palettes, i, j \in Shades : i # j => Shade(p, tone, entropy, i) # Shade(p, tone, entropy, j)

\* The letters lie on the other side of the background whatever the shades:
\* "faintly readable" (skin-marker.ts:65-67).
LettersApart ==
  \A p \in {"C", "L"}, i, j \in Shades :
    IF tone # NoTone /\ tone >= 50
    THEN Shade(p, tone, entropy, i) < Shade("background", tone, entropy, j)
    ELSE Shade(p, tone, entropy, i) >= Shade("background", tone, entropy, j)

\* A marker of an earlier challenge is not taken for the one of this.
OldMarkersFail == worn # Unmarked => ~SkinMatchesMarker(worn, tone, entropy)

\* A marker does not tint the one that follows it: where the corner of the head
\* sufficed, what is sampled is as it was before the marker.
MarkerDoesNotTint ==
  Cardinality((opaque \ MarkedPixels) \cap Corner) >= 16 => Sampled(opaque) = Sampled(opaque \ MarkedPixels)

\* A marker stays readable and as unforgeable as it was meant to be.
MarkerStandsOut ==
  entropy # NoEntropy => ShadesApart /\ LettersApart /\ OldMarkersFail /\ MarkerDoesNotTint
=============================================================================
