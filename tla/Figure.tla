--------------------------------- MODULE Figure ---------------------------------
(***************************************************************************)
(* Pictures of skins.                                                      *)
(*                                                                         *)
(* First the atlas of a skin (src/src/avatars/skin-texture.ts): which      *)
(* files are taken, how the 64x32 layout becomes the one of 64x64, which   *)
(* overlays a skin without transparency loses, and what is opaque in the   *)
(* atlas that is handed out.  A pixel is a pair <<x, y>>; of its colour    *)
(* only where it comes from and its alpha are kept.  A skin is opaque but  *)
(* for the pixels of its veil, which have the alpha "thin".                *)
(*                                                                         *)
(* Then the flat pictures of a player (src/src/avatars/renderer.ts): which *)
(* cuboids a view shows, where each of them lies in the picture, which     *)
(* rectangle of the atlas it is painted from, and which texel of it each   *)
(* pixel takes.  A picture is the sequence of its painted rectangles; their*)
(* colours are those of the atlas.  Lengths of the figure are quarters of  *)
(* a texel, as the outer layers are inflated by halves; lengths of the     *)
(* picture are fractions, exact where the code has doubles.  The wings'    *)
(* posed quads are left out.                                               *)
(***************************************************************************)
EXTENDS Integers, Sequences, SequencesExt, FiniteSetsExt

CONSTANTS
  Orders,       \* [view, model, layers, size, skin, cape] that may be ordered
  NoCape

\* The pixels of a veil are some of the skin's, and are not opaque.
ASSUME SkinsAssumption ==
  \A a \in Orders :
    /\ a.skin.height \in {32, 64}
    /\ a.skin.veil \subseteq (0 .. 63) \X (0 .. a.skin.height - 1)
    /\ a.skin.thin \in 0 .. 254

VARIABLES
  order,        \* one of Orders
  painted,      \* the rectangles painted for it, in this order
  atlas         \* the alpha of the skin handed out, for the view "skin"

figureVars == <<order, painted, atlas>>

---------------------------------------------------------------------------
\* The atlas.

SKIN_WIDTH == 64
MAX_SKIN_BYTES == 256 * 1024
MAX_TEXTURE_DIMENSION == 2048

\* The pixels of a rectangle.
Pixels(x, y, width, height) == (x .. x + width - 1) \X (y .. y + height - 1)
Atlas == Pixels(0, 0, SKIN_WIDTH, 64)
Nowhere == <<-1, -1>>

\* The header of a file that is taken for a skin, and for another texture.
AcceptsSkin(h) ==
  /\ h.bytes \in 33 .. MAX_SKIN_BYTES
  /\ h.png
  /\ h.width = SKIN_WIDTH /\ h.height \in {32, 64}
  /\ h.depth = 8 /\ h.color \in {2, 3, 6} /\ h.plain

AcceptsTexture(h) ==
  /\ h.bytes \in 33 .. MAX_SKIN_BYTES
  /\ h.png
  /\ {h.width, h.height} \subseteq 1 .. MAX_TEXTURE_DIMENSION

Legacy(skin) == skin.height = 32
Alpha(skin, p) == IF p \in skin.veil THEN skin.thin ELSE 255

\* The faces of the right limbs in the old layout and where each of them goes
\* in the left limb, four pixels wide, left for right.
Mirrored(height, sourceX, sourceY, targetX, targetY) ==
  [height |-> height, source |-> <<sourceX, sourceY>>, target |-> <<targetX, targetY>>]

MirroredFaces ==
  {Mirrored(4, 4, 16, 20, 48), Mirrored(4, 8, 16, 24, 48), Mirrored(12, 0, 20, 24, 52),
   Mirrored(12, 4, 20, 20, 52), Mirrored(12, 8, 20, 16, 52), Mirrored(12, 12, 20, 28, 52),
   Mirrored(4, 44, 16, 36, 48), Mirrored(4, 48, 16, 40, 48), Mirrored(12, 40, 20, 40, 52),
   Mirrored(12, 44, 20, 36, 52), Mirrored(12, 48, 20, 32, 52), Mirrored(12, 52, 20, 44, 52)}

Covers(f, p) == p \in Pixels(f.target[1], f.target[2], 4, f.height)

\* The pixel of the old layout that stands at p in the new one.
CopyAndMirror(f, p) ==
  <<f.source[1] + 3 - (p[1] - f.target[1]), f.source[2] + p[2] - f.target[2]>>

NormalizeLegacySkin(p) ==
  IF \E f \in MirroredFaces : Covers(f, p)
  THEN CopyAndMirror(CHOOSE f \in MirroredFaces : Covers(f, p), p)
  ELSE IF p[2] < 32 THEN p ELSE Nowhere

SourceOf(skin, p) == IF Legacy(skin) THEN NormalizeLegacySkin(p) ELSE p

IsFullyOpaque(skin) ==
  \A p \in skin.veil : p \in Pixels(0, 0, SKIN_WIDTH, skin.height) => skin.thin = 255

InCompatibilityLayers(legacy, p) ==
  \/ p \in Pixels(32, 0, 32, 16)
  \/ /\ ~legacy
     /\ \/ p \in Pixels(0, 32, 64, 16)
        \/ p \in Pixels(0, 48, 16, 16)
        \/ p \in Pixels(48, 48, 16, 16)

\* The alpha of the decoded skin at p.
Decoded(skin, p) ==
  IF \/ IsFullyOpaque(skin) /\ InCompatibilityLayers(Legacy(skin), p)
     \/ SourceOf(skin, p) = Nowhere
  THEN 0 ELSE Alpha(skin, SourceOf(skin, p))

InBaseRegions(p) ==
  \/ p \in Pixels(8, 0, 16, 8)   \/ p \in Pixels(0, 8, 32, 8)
  \/ p \in Pixels(20, 16, 16, 4) \/ p \in Pixels(16, 20, 24, 12)
  \/ p \in Pixels(44, 16, 8, 4)  \/ p \in Pixels(40, 20, 16, 12)
  \/ p \in Pixels(4, 16, 8, 4)   \/ p \in Pixels(0, 20, 16, 12)
  \/ p \in Pixels(36, 48, 8, 4)  \/ p \in Pixels(32, 52, 16, 12)
  \/ p \in Pixels(20, 48, 8, 4)  \/ p \in Pixels(16, 52, 16, 12)

\* The alpha of the skin that is handed out at p.
Processed(skin, p) == IF InBaseRegions(p) THEN 255 ELSE Decoded(skin, p)

---------------------------------------------------------------------------

ArmWidth(model) == IF model = "slim" THEN 3 ELSE 4

---------------------------------------------------------------------------
\* The scene.

Part(part, x, y, width, height, depth, u, v, outerU, outerV, views) ==
  [part |-> part, x |-> 4 * x, y |-> 4 * y, width |-> width, height |-> height, depth |-> depth,
   u |-> u, v |-> v, outerU |-> outerU, outerV |-> outerV, views |-> views]

Parts(model) ==
  LET arm == ArmWidth(model)
      Arm(part, side, u, v, outerU, outerV, views) ==
        [Part(part, 0, 18, arm, 12, 4, u, v, outerU, outerV, views)
           EXCEPT !.x = side * (16 + 2 * arm)]
  IN <<Part("head", 0, 28, 8, 8, 8, 0, 0, 32, 0, {"back", "body", "bust", "side"}),
       Part("torso", 0, 18, 8, 12, 4, 16, 16, 16, 32, {"back", "body", "bust", "side"}),
       Arm("rightArm", -1, 40, 16, 40, 32, {"back", "body", "bust"}),
       Arm("leftArm", 1, 32, 48, 48, 48, {"back", "body", "bust", "side"}),
       Part("rightLeg", -2, 6, 4, 12, 4, 0, 16, 0, 32, {"back", "body"}),
       Part("leftLeg", 2, 6, 4, 12, 4, 16, 48, 0, 48, {"back", "body", "side"})>>

InflateOuterLayer(part) == IF part = "head" THEN 4 ELSE 2

\* A cuboid: its centre and size, and its box in the atlas.
Cuboid(p, layer) ==
  LET more == IF layer = "outer" THEN InflateOuterLayer(p.part) ELSE 0
  IN [part |-> p.part, layer |-> layer, views |-> p.views, x |-> p.x, y |-> p.y,
      width |-> 4 * p.width + more, height |-> 4 * p.height + more, depth |-> 4 * p.depth + more,
      box |-> [u |-> IF layer = "outer" THEN p.outerU ELSE p.u,
               v |-> IF layer = "outer" THEN p.outerV ELSE p.v,
               width |-> p.width, height |-> p.height, depth |-> p.depth]]

BuildAvatarScene(view, model, layers, legacy) ==
  LET all == FlattenSeq([i \in 1 .. 6 |-> <<Cuboid(Parts(model)[i], "base"),
                                            Cuboid(Parts(model)[i], "outer")>>])
  IN SelectSeq(all, LAMBDA c :
       /\ view \in c.views
       /\ c.layer = "outer" => layers = "all" /\ (~legacy \/ c.part = "head"))

TextureRect(u, v, width, height) == [u |-> u, v |-> v, width |-> width, height |-> height]
FrontTextureRect(b) == TextureRect(b.u + b.depth, b.v + b.depth, b.width, b.height)
BackTextureRect(b) == TextureRect(b.u + 2 * b.depth + b.width, b.v + b.depth, b.width, b.height)
LeftTextureRect(b) == TextureRect(b.u + b.depth + b.width, b.v + b.depth, b.depth, b.height)
Texels(r) == Pixels(r.u, r.v, r.width, r.height)

HasVisiblePixels(skin, r) == \E p \in Texels(r) : Decoded(skin, p) > 0

FlatLayout(part, arm) ==
  CASE part = "head" -> <<arm, 0>>      [] part = "torso" -> <<arm, 8>>
    [] part = "rightArm" -> <<0, 8>>    [] part = "leftArm" -> <<arm + 8, 8>>
    [] part = "rightLeg" -> <<arm, 20>> [] part = "leftLeg" -> <<arm + 4, 20>>

\* A cuboid in the plane of a view.
ProjectCuboid(c, arm, mirrored) ==
  LET at == FlatLayout(c.part, arm)
      front == 4 * at[1] + (4 * c.box.width - c.width) \div 2
  IN [part |-> c.part, layer |-> c.layer,
      texture |-> IF mirrored THEN BackTextureRect(c.box) ELSE FrontTextureRect(c.box),
      x |-> IF mirrored THEN 4 * (2 * arm + 8) - front - c.width ELSE front,
      y |-> 4 * at[2] + (4 * c.box.height - c.height) \div 2,
      width |-> c.width, height |-> c.height]

ProjectSide(c) ==
  [part |-> c.part, layer |-> c.layer, texture |-> LeftTextureRect(c.box),
   x |-> 16 - c.depth \div 2, y |-> 128 - c.y - c.height \div 2,
   width |-> c.depth, height |-> c.height]

FlatScene(view, model, layers, skin) ==
  LET cuboids == BuildAvatarScene(view, model, layers, Legacy(skin))
      projected == [i \in DOMAIN cuboids |->
                      IF view = "side" THEN ProjectSide(cuboids[i])
                      ELSE ProjectCuboid(cuboids[i], ArmWidth(model), view = "back")]
  IN SelectSeq(projected, LAMBDA c : c.layer = "base" \/ HasVisiblePixels(skin, c.texture))

Bases(scene) == SelectSeq(scene, LAMBDA c : c.layer = "base")
Outers(scene) == SelectSeq(scene, LAMBDA c : c.layer = "outer")

\* Mutant: layers widen the frame.
FramingByAll(scene) == scene

\* What the picture is framed by.
Framing(scene) == Bases(scene)

Bounds(scene) ==
  LET of(Edge(_)) == {Edge(scene[i]) : i \in DOMAIN scene}
  IN [minX |-> Min(of(LAMBDA c : c.x)), maxX |-> Max(of(LAMBDA c : c.x + c.width)),
      minY |-> Min(of(LAMBDA c : c.y)), maxY |-> Max(of(LAMBDA c : c.y + c.height))]

---------------------------------------------------------------------------
\* The picture.

\* Where quarters of the figure come to lie: at (offset + q * 2 * scale) / unit.
FitFlatTransform(b, region) ==
  LET width == b.maxX - b.minX
      height == b.maxY - b.minY
      tall == region.height * width <= region.width * height
      scale == IF tall THEN 4 * region.height ELSE 4 * region.width
      per == IF tall THEN height ELSE width
      Offset(start, size, extent, least) ==
        8 * per * start + 4 * per * size - extent * scale - 2 * least * scale
  IN [unit |-> 8 * per, scale |-> scale,
      x |-> Offset(region.x, region.width, width, b.minX),
      y |-> Offset(region.y, region.height, height, b.minY)]

\* a \div b rounded up, for a positive b.
Ceil(a, b) == -((-a) \div b)
Clip(n, size) == Max({0, Min({n, size})})

\* A rectangle of a texture painted over pixels cols[1] .. cols[2] - 1 of each row.
PaintFlatRect(size, part, layer, texture, x, y, width, height, unit) ==
  [part |-> part, layer |-> layer, texture |-> texture, unit |-> unit,
   x |-> x, y |-> y, width |-> width, height |-> height,
   cols |-> <<Max({0, x \div unit}), Min({size, Ceil(x + width, unit)})>>,
   rows |-> <<Max({0, y \div unit}), Min({size, Ceil(y + height, unit)})>>]

\* The texel that the pixel at n takes along one axis.
Texel(n, unit, start, extent, count) ==
  Min({count - 1, ((n * unit - start) * count) \div extent})
TexelX(r, x) == r.texture.u + Texel(x, r.unit, r.x, r.width, r.texture.width)
TexelY(r, y) == r.texture.v + Texel(y, r.unit, r.y, r.height, r.texture.height)

PaintCuboid(size, c, t) ==
  PaintFlatRect(size, c.part, c.layer, c.texture, t.x + 2 * c.x * t.scale, t.y + 2 * c.y * t.scale,
                2 * c.width * t.scale, 2 * c.height * t.scale, t.unit)

CapeAtlasScale(cape) ==
  CASE cape.width % 64 = 0 /\ cape.height = (cape.width \div 64) * 32 -> cape.width \div 64
    [] cape.width % 46 = 0 /\ cape.height = (cape.width \div 46) * 22 -> cape.width \div 46
    [] OTHER -> 0

ScaledCapeRect(cape) ==
  LET s == CapeAtlasScale(cape) IN TextureRect(s, s, 10 * s, 16 * s)

WingNet(cape) ==
  LET s == CapeAtlasScale(cape) IN TextureRect(22 * s, 0, 24 * s, 22 * s)

PaintCape(size, arm, cape, t) ==
  PaintFlatRect(size, "cape", "outer", ScaledCapeRect(cape), t.x + 8 * (arm - 1) * t.scale,
                t.y + 64 * t.scale, 80 * t.scale, 128 * t.scale, t.unit)

\* Bases first; the cape over everything.
PaintFlatScene(size, scene, region, arm, cape) ==
  LET t == FitFlatTransform(Bounds(Framing(scene)), region)
      all == Bases(scene) \o Outers(scene)
      worn == cape # NoCape /\ CapeAtlasScale(cape) > 0 /\ cape.visible
  IN [i \in DOMAIN all |-> PaintCuboid(size, all[i], t)]
     \o IF worn THEN <<PaintCape(size, arm, cape, t)>> ELSE <<>>

Region(x, width, size) == [x |-> x, y |-> 0, width |-> width, height |-> size]
Whole(size) == Region(0, size, size)

\* The helmet fills the frame, and the face beneath it is smaller by 5 %.
RenderProjectedHead(a) ==
  LET helmet == TextureRect(40, 8, 8, 8)
      shown == a.layers = "all" /\ HasVisiblePixels(a.skin, helmet)
      face == TextureRect(8, 8, 8, 8)
      inset == IF shown THEN a.size ELSE 0
      side == IF shown THEN 40 * a.size ELSE 42 * a.size
  IN <<PaintFlatRect(a.size, "head", "base", face, inset, inset, side, side, 42)>>
     \o IF shown
        THEN <<PaintFlatRect(a.size, "head", "outer", helmet, 0, 0, 42 * a.size, 42 * a.size, 42)>>
        ELSE <<>>

RenderFlatFigure(a, view, region, cape) ==
  PaintFlatScene(a.size, FlatScene(view, a.model, a.layers, a.skin), region,
                 ArmWidth(a.model), cape)

\* The front and the back share the width but for a gutter between them.
RenderDuo(a) ==
  LET half == a.size \div 2
      gutter == a.size \div 32
      width == half - gutter
  IN RenderFlatFigure(a, "body", Region(0, width, a.size), NoCape)
     \o RenderFlatFigure(a, "back", Region(half + gutter, width, a.size), a.cape)

Picture(a) ==
  CASE a.view = "face" -> RenderProjectedHead(a)
    [] a.view = "duo" -> RenderDuo(a)
    [] a.view = "skin" -> <<>>
    [] OTHER -> RenderFlatFigure(a, a.view, Whole(a.size),
                                 IF a.view = "back" THEN a.cape ELSE NoCape)

\* The processed skin is handed out as an atlas.
FigureInit == order \in Orders /\ painted = <<>> /\ atlas = <<>>

Render ==
  /\ painted = <<>> /\ atlas = <<>>
  /\ painted' = Picture(order)
  /\ atlas' = IF order.view = "skin" THEN [p \in Atlas |-> Processed(order.skin, p)] ELSE <<>>
  /\ UNCHANGED order

FigureSpec == FigureInit /\ [][Render]_figureVars

---------------------------------------------------------------------------
\* The faces of a box in the atlas, as the game unfolds it: the top and the
\* bottom above the right side, the front, the left side and the back.
BoxFaces(b) ==
  LET w == b.width  h == b.height  d == b.depth
  IN [top |-> TextureRect(b.u + d, b.v, w, d),
      bottom |-> TextureRect(b.u + d + w, b.v, w, d),
      right |-> TextureRect(b.u, b.v + d, d, h),
      front |-> TextureRect(b.u + d, b.v + d, w, h),
      left |-> TextureRect(b.u + d + w, b.v + d, d, h),
      back |-> TextureRect(b.u + 2 * d + w, b.v + d, w, h)]

Sides == {"top", "bottom", "right", "front", "left", "back"}
AllTexels(b) == UNION {Texels(BoxFaces(b)[f]) : f \in Sides}
PartsOf(model) == {Parts(model)[i] : i \in 1 .. 6}
Box(part, layer) == Cuboid(CHOOSE p \in PartsOf("classic") : p.part = part, layer).box

\* A pixel of a face, and the one that a mirror shows in its place.
At(r, x, y) == <<r.u + x, r.v + y>>
InMirror(r, x, y) == <<r.u + r.width - 1 - x, r.v + y>>
OtherSide(f) == CASE f = "left" -> "right" [] f = "right" -> "left" [] OTHER -> f

\* skin-texture.ts: a processed skin has no hole in a base face; its overlays
\* are as they were drawn, gone from a skin that was saved without any
\* transparency, and on a legacy skin only the head has one; the left limbs of
\* a legacy skin are its right limbs in a mirror.
SkinIsWhole ==
  atlas # <<>> =>
    /\ \A p \in PartsOf("classic") \cup PartsOf("slim") :
         /\ \A q \in AllTexels(Cuboid(p, "base").box) : atlas[q] = 255
         /\ \A q \in AllTexels(Cuboid(p, "outer").box) :
              atlas[q] = IF \/ order.skin.veil = {}
                            \/ Legacy(order.skin) /\ p.part # "head"
                         THEN 0 ELSE Alpha(order.skin, q)
    /\ Legacy(order.skin) =>
         \A limb \in {<<"leftArm", "rightArm">>, <<"leftLeg", "rightLeg">>}, f \in Sides :
           LET here == BoxFaces(Box(limb[1], "base"))[f]
               there == BoxFaces(Box(limb[2], "base"))[OtherSide(f)]
           IN \A x \in 0 .. here.width - 1, y \in 0 .. here.height - 1 :
                SourceOf(order.skin, At(here, x, y)) = InMirror(there, x, y)

BasesOf(rects) == SelectSeq(rects, LAMBDA r : r.layer = "base")
Painted == {painted[i] : i \in DOMAIN painted}

\* renderer.ts:861-948: whatever a pixel takes lies in the texture it is taken
\* from, of which readColor throws when it does not.
TexelsExist ==
  \A r \in Painted :
    LET width == IF r.part = "cape" THEN order.cape.width ELSE SKIN_WIDTH
        height == IF r.part = "cape" THEN order.cape.height ELSE 64
    IN /\ \A x \in r.cols[1] .. r.cols[2] - 1 : TexelX(r, x) \in 0 .. width - 1
       /\ \A y \in r.rows[1] .. r.rows[2] - 1 : TexelY(r, y) \in 0 .. height - 1

\* What is shown along one axis of the texels from first on, painted from at on.
AxisIsWhole(texels, at, extent, unit, first, count) ==
  LET last == first + count - 1
      magnified == extent >= count * unit
      uncut == at >= 0 /\ at + extent <= order.size * unit
  IN /\ Max(texels) <= last
     /\ at % unit = 0 => Min(texels) >= first
     /\ magnified => Min(texels) \in {first - 1, first} /\ texels = Min(texels) .. Max(texels)
     /\ magnified /\ uncut => Max(texels) = last

\* renderer.ts:703-717: a rectangle is painted from its own face.  Where a texel is no
\* smaller than a pixel, rounding loses none of the face, whose end is missing only if
\* it lies beyond the edge of the picture.  What is in front of the face is taken only where the rectangle
\* begins at a fraction of a pixel, and then one texel of it.
FacesAreWhole ==
  \A r \in Painted :
    LET across == {TexelX(r, x) : x \in r.cols[1] .. r.cols[2] - 1}
        down == {TexelY(r, y) : y \in r.rows[1] .. r.rows[2] - 1}
    IN /\ AxisIsWhole(across, r.x, r.width, r.unit, r.texture.u, r.texture.width)
       /\ AxisIsWhole(down, r.y, r.height, r.unit, r.texture.v, r.texture.height)

\* renderer.ts:228-229: layers neither shift nor shrink the figure, nor does a cape.
FigureIsAnchored ==
  order.view # "face" =>
    BasesOf(painted) = BasesOf(Picture([order EXCEPT !.layers = "base", !.cape = NoCape]))

\* renderer.ts:121-138 against 795-860: the layout of a flat picture is the
\* scene seen from the front, from behind or from the left; each part is as far
\* from the head as its centre is from that of the head.
ShowsTheScene ==
  order.view \in {"body", "bust", "back", "side"} =>
    LET scene == BuildAvatarScene(order.view, order.model, "all", FALSE)
        head == CHOOSE r \in Painted : r.part = "head" /\ r.layer = "base"
        across == CASE order.view = "back" -> -1 [] order.view = "side" -> 0 [] OTHER -> 1
        Faces(c) == BoxFaces(c.box)[CASE order.view = "back" -> "back"
                                      [] order.view = "side" -> "left" [] OTHER -> "front"]
        Middle(at, extent) == 2 * at + extent
    IN \A r \in {q \in Painted : q.part # "cape"} :
         \E i \in DOMAIN scene :
           LET c == scene[i] IN
           /\ r.part = c.part /\ r.layer = c.layer /\ r.texture = Faces(c)
           /\ 32 * r.width = head.width * (IF order.view = "side" THEN c.depth ELSE c.width)
           /\ 32 * r.height = head.height * c.height
           /\ 16 * (Middle(r.x, r.width) - Middle(head.x, head.width)) = across * c.x * head.width
           /\ 16 * (Middle(r.y, r.height) - Middle(head.y, head.height))
                = (112 - c.y) * head.height

\* skin-texture.ts:167-185 against renderer.ts:831-890: bases are painted from
\* what is made opaque, and outer layers from what an opaque skin loses.
LayersAreApart ==
  \A r \in {q \in Painted : q.part # "cape"} : \A p \in Texels(r.texture) :
    IF r.layer = "base" THEN InBaseRegions(p) /\ ~InCompatibilityLayers(FALSE, p)
    ELSE InCompatibilityLayers(FALSE, p) /\ ~InBaseRegions(p)

\* The columns that are painted in a row, by the bases among rects.
Columns(rects, y) ==
  UNION {r.cols[1] .. r.cols[2] - 1 :
           r \in {q \in rects : q.layer = "base" /\ y \in q.rows[1] .. q.rows[2] - 1}}

\* A figure stands in the middle of its picture from the top to the bottom and
\* has no seam, whatever the rounding of its parts; a duo keeps its halves apart.
NoSeams ==
  CASE order.view = "face" -> TRUE
    [] order.view = "duo" ->
         \A r \in Painted :
           LET half == order.size \div 2
               behind == r.part = "cape" \/ \E p \in PartsOf(order.model), l \in {"base", "outer"} :
                           r.part = p.part /\ r.texture = BoxFaces(Cuboid(p, l).box).back
           IN IF behind THEN r.cols[1] >= half ELSE r.cols[2] <= half
    [] OTHER ->
         \A y \in 0 .. order.size - 1 :
           LET cols == Columns(Painted, y) IN
           /\ cols # {} /\ cols = Min(cols) .. Max(cols)
           /\ Min(cols) + Max(cols) = order.size - 1

\* A skin as it is decoded and drawn: the atlas is whole, and a picture is made of
\* texels that exist and of whole faces, stands where it stood without layers, shows
\* the scene, has its layers from different regions, and no seams.
SkinsFit ==
  /\ SkinIsWhole
  /\ painted # <<>> => /\ TexelsExist /\ FacesAreWhole /\ FigureIsAnchored
                      /\ ShowsTheScene /\ LayersAreApart /\ NoSeams

\* avatar-renderer.test.ts:261: "renders the side profile from left-face atlas
\* regions, not the front".  At sizes 32 and 64 an inflated layer begins at a
\* fraction of a pixel, and its first column takes the texel in front of its face.
ProfileIsOfTheLeft ==
  order.view = "side" =>
    \A r \in Painted : \A x \in r.cols[1] .. r.cols[2] - 1 : TexelX(r, x) >= r.texture.u
=============================================================================
