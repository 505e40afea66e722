--------------------------- MODULE MCSkinVerification ---------------------------
(***************************************************************************)
(* Instances for TLC of skin verification: its challenges                  *)
(* (SkinVerification) and the markers that are drawn for them (SkinMarker),*)
(* whose entropies change a colour byte or a bit of a shade.  A behaviour  *)
(* is about one of the two, of those that the instance is of, and the      *)
(* other rests.                                                            *)
(***************************************************************************)
EXTENDS SkinVerification, SkinMarker, TLC

CONSTANT Parts

ASSUME PartsAssumption == Parts \subseteq {"challenges", "marker"}

VARIABLE part

Symmetry == Permutations(Codes) \cup Permutations(Players) \cup Permutations(Tabs)
              \cup Permutations(Claims) \cup Permutations(Checks)

\* Bytes 2, 3 and 6 choose the colours, 8 to 31 the shades.
Entropy(c, l, background) ==
  [k \in 0 .. 31 |-> CASE k = 2 -> c [] k = 3 -> l [] k = 6 -> background [] OTHER -> 0]

MCEntropies ==
  {Entropy(c, l, background) : c, l \in {0, 6, 20, 255}, background \in {0, 4, 14, 255}}
  \cup {[Entropy(0, 0, 0) EXCEPT ![8] = Weight(n)] : n \in 0 .. 7}
  \cup {[Entropy(0, 0, 0) EXCEPT ![k] = Weight((3 * k) % 8)] : k \in 9 .. 31}

MCTones == {0, 15, 49, 50, 100}

\* No pixel, too few in the corner, some beneath it, all.
MCOpaque == {{}, (0 .. 22) \X {0}, (0 .. 30) \X {9}, (0 .. 63) \X (0 .. 31)}

MCInit ==
  /\ part \in Parts
  /\ SkinInit /\ MarkerInit
  /\ part = "challenges" => opaque = {}

\* A marker is drawn twice at most, and only once when no entropy shares its palettes.
AllDrawn == entropy # NoEntropy /\ UNCHANGED markerVars

MCNext ==
  /\ UNCHANGED part
  /\ \/ part = "challenges" /\ SkinNext /\ UNCHANGED markerVars
     \/ part = "marker" /\ (MarkerNext \/ AllDrawn) /\ UNCHANGED svars

MCSpec == MCInit /\ [][MCNext]_<<svars, markerVars, part>>
MCLiveSpec == MCSpec /\ WF_svars(SkinTick)
=============================================================================
