-------------------------------- MODULE MCFigure --------------------------------
(***************************************************************************)
(* The instance of Figure for TLC: every view of both models in every size *)
(* that the API offers, of skins in both layouts: opaque, with one hole,   *)
(* without a helmet, translucent all over; and the capes of Mojang, an HD  *)
(* one of OptiFine and one of no known layout.                             *)
(***************************************************************************)
EXTENDS Figure

MCNoCape == [width |-> 0, height |-> 0, visible |-> FALSE]
MCCape(w, h) == [width |-> w, height |-> h, visible |-> TRUE]
MCSkinOf(height, veil, thin) == [height |-> height, veil |-> veil, thin |-> thin]
MCHelmet == Pixels(40, 8, 8, 8)

MCSkins ==
  {MCSkinOf(64, {}, 0), MCSkinOf(32, {}, 0), MCSkinOf(64, {<<0, 0>>}, 0), MCSkinOf(32, {<<63, 31>>}, 128),
   MCSkinOf(64, MCHelmet, 0), MCSkinOf(64, Atlas, 128)}

MCOrders ==
  {a \in [view : {"face", "body", "bust", "back", "side", "duo", "skin"},
          model : {"classic", "slim"}, layers : {"all", "base"}, size : {32, 64, 128, 256},
          skin : MCSkins, cape : {MCNoCape, MCCape(64, 32), MCCape(92, 44), MCCape(64, 64)}] :
     /\ a.cape # MCNoCape =>
          a.view \in {"back", "duo"} /\ a.skin.height = 64 /\ a.skin.veil = MCHelmet
     /\ a.view = "skin" => a.model = "classic" /\ a.layers = "all" /\ a.size = 32}
=============================================================================
