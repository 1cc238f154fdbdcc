----------------------------- MODULE Coordinates -----------------------------
(* The coordinate contract between the picture of Snapshot and the input tools (coords.py, and its use
   in app.py, snapshot.py and tools/desktop.py).  The picture is a frame of the screen, made smaller
   when it is wider than asked; nothing of it is kept: an input tool computes the frame again from the
   displays of its moment.  A point the picture prints is the point a click takes.

   Scales are exact quotients here.  The code holds a scale as a float, so a product that ends in
   exactly one half may fall to either side: the mapping of a point is the set of both. *)
EXTENDS Integers

CONSTANTS
  Screens,     \* the display geometries: bounds in input units, and the capture's pixels
  MaxWidths,   \* the values of max_width asked for; 0: native
  Things       \* rectangles on the screen: elements, windows, words

\* A display without an extent, or an empty capture, is refused before it becomes a frame.
Geometries == [x : Int, y : Int, width : Nat \ {0}, height : Nat \ {0},
               pixelWidth : Nat \ {0}, pixelHeight : Nat \ {0}]
ASSUME CoordAssumption ==
  /\ Screens # {} /\ \A g \in Screens : g \in Geometries
  /\ \A maxWidth \in MaxWidths : maxWidth \in Int
  /\ \A r \in Things : r \in Int \X Int \X Int \X Int

VARIABLES
  screen,      \* the display as it is now
  picture,        \* the frame of the last picture and its max_width
  done         \* the last Click or Zoom: what it was asked, the frame it computed, where it went

coordVars == <<screen, picture, done>>

-----------------------------------------------------------------------------
Round(n, d) == (2 * n + d) \div (2 * d)
RoundDown(n, d) == n \div d
Rounds(n, d) == {Round(n, d)} \cup (IF (2 * n) % (2 * d) = d THEN {Round(n, d) - 1} ELSE {})
Larger(a, b) == IF a > b THEN a ELSE b
Clamp(value, low, high) == Larger(low, IF value < high THEN value ELSE high)

ImageSize(pixelWidth, pixelHeight, maxWidth) ==
  IF maxWidth > 0 /\ pixelWidth > maxWidth
  THEN <<maxWidth, Larger(1, Round(pixelHeight * maxWidth, pixelWidth))>>
  ELSE <<pixelWidth, pixelHeight>>

FrameFor(g, maxWidth) ==
  LET size == ImageSize(g.pixelWidth, g.pixelHeight, maxWidth)
  IN [x |-> g.x, y |-> g.y, width |-> g.width, height |-> g.height,
      imageWidth |-> size[1], imageHeight |-> size[2]]

\* Image to screen: clamped to the frame.  Screen to image: not clamped.
ImageToScreen(f, p) ==
  {<<Clamp(f.x + a, f.x, f.x + f.width - 1), Clamp(f.y + b, f.y, f.y + f.height - 1)>> :
     a \in Rounds(p[1] * f.width, f.imageWidth), b \in Rounds(p[2] * f.height, f.imageHeight)}
\* Mutant: rounded down, as regions are.
ScreenToImageFloor(f, p) ==
  {<<RoundDown((p[1] - f.x) * f.imageWidth, f.width), RoundDown((p[2] - f.y) * f.imageHeight, f.height)>>}
ScreenToImage(f, p) ==
  Rounds((p[1] - f.x) * f.imageWidth, f.width) \X Rounds((p[2] - f.y) * f.imageHeight, f.height)
InImage(f, p) == p[1] \in 0..(f.imageWidth - 1) /\ p[2] \in 0..(f.imageHeight - 1)

\* Zoom's rectangle: pixels of the image round outward, and the result is cut to the frame.
Up(n, d) == -((-n) \div d)
Nothing == <<0, 0, 0, 0>>
Cut(f, box) ==
  LET right == f.x + f.width
      bottom == f.y + f.height
      cut == <<Clamp(box[1], f.x, right), Clamp(box[2], f.y, bottom),
               Clamp(box[3], f.x, right), Clamp(box[4], f.y, bottom)>>
  IN IF cut[3] <= cut[1] \/ cut[4] <= cut[2] THEN Nothing ELSE cut
\* Mutant: both corners rounded to the nearest pixel.
RegionRounded(f, r) ==
  Cut(f, <<f.x + Round(r[1] * f.width, f.imageWidth), f.y + Round(r[2] * f.height, f.imageHeight),
           f.x + Round(r[3] * f.width, f.imageWidth), f.y + Round(r[4] * f.height, f.imageHeight)>>)
RegionToScreen(f, r) ==
  Cut(f, <<f.x + (r[1] * f.width) \div f.imageWidth, f.y + (r[2] * f.height) \div f.imageHeight,
           f.x + Up(r[3] * f.width, f.imageWidth), f.y + Up(r[4] * f.height, f.imageHeight)>>)

RegionGeometry(g, box) ==
  LET width == box[3] - box[1]  height == box[4] - box[2]
  IN [x |-> box[1], y |-> box[2], width |-> width, height |-> height,
      pixelWidth |-> Larger(1, Round(width * g.pixelWidth, g.width)),
      pixelHeight |-> Larger(1, Round(height * g.pixelHeight, g.height))]

-----------------------------------------------------------------------------
NoPicture == [maxWidth |-> -1]
NoPoint == <<0, 0>>
NotDone == [tool |-> "none", asked |-> Nothing, frame |-> NoPicture, box |-> Nothing,
            point |-> NoPoint, pointer |-> NoPoint, cursor |-> NoPoint]
Middle(r) == <<(r[1] + r[3]) \div 2, (r[2] + r[4]) \div 2>>

\* Snapshot: the picture and the things on it are mapped by one frame.
Snapshot(maxWidth) ==
  /\ picture' = [maxWidth |-> maxWidth, frame |-> FrameFor(screen, maxWidth)]
  /\ done' = NotDone
  /\ UNCHANGED screen

\* Click at the point listed for a thing (one off the frame is marked so and not clicked), then
\* CursorPosition.
Click(r) ==
  /\ picture # NoPicture
  /\ LET now == FrameFor(screen, picture.maxWidth)
     IN \E p \in ScreenToImage(picture.frame, Middle(r)) :
          /\ InImage(picture.frame, p)
          /\ \E to \in ImageToScreen(now, p) : \E back \in ScreenToImage(now, to) :
               done' = [tool |-> "Click", asked |-> r, frame |-> now, box |-> Nothing,
                        point |-> p, pointer |-> to, cursor |-> back]
  /\ UNCHANGED <<screen, picture>>

\* Zoom into a rectangle of the picture's pixels, then click in the part by the reply's own origin
\* and scale.  A rectangle with nothing of it inside the frame is an error.
Zoom(r) ==
  /\ picture # NoPicture
  /\ LET now == FrameFor(screen, picture.maxWidth)
         box == RegionToScreen(now, r)
         part == FrameFor(RegionGeometry(screen, box), picture.maxWidth)
     IN /\ box # Nothing
        /\ \E p \in {0, part.imageWidth - 1} \X {0, part.imageHeight - 1} :
             \E to \in ImageToScreen(part, p) :
               done' = [tool |-> "Zoom", asked |-> r, frame |-> now, box |-> box,
                        point |-> p, pointer |-> to, cursor |-> NoPoint]
  /\ UNCHANGED <<screen, picture>>

\* The display changes its mode, or is another one.
ChangeDisplay == screen' \in Screens \ {screen} /\ UNCHANGED <<picture, done>>

-----------------------------------------------------------------------------
CoordIdle(g) == screen = g /\ picture = NoPicture /\ done = NotDone
CoordInit == \E g \in Screens : CoordIdle(g)
CoordNext ==
  \/ \E maxWidth \in MaxWidths : Snapshot(maxWidth)
  \/ \E r \in Things : Click(r) \/ Zoom(r)
  \/ ChangeDisplay
CoordSpec == CoordInit /\ [][CoordNext]_coordVars

-----------------------------------------------------------------------------
(* The types of the display, the picture and the last call. *)
CoordTypeOK ==
  /\ screen \in Screens
  /\ picture = NoPicture \/ picture.maxWidth \in MaxWidths
  /\ done.tool \in {"none", "Click", "Zoom"} /\ done.asked \in Things \cup {Nothing}

AsPictured(tool) == done.tool = tool /\ done.frame = picture.frame
Within(p, r) == p[1] \in r[1]..(r[3] - 1) /\ p[2] \in r[2]..(r[4] - 1)
\* At least one pixel of the picture and two units of the screen each way.
Visible(r, f) ==
  /\ (r[3] - r[1] - 2) * f.imageWidth >= f.width
  /\ (r[4] - r[2] - 2) * f.imageHeight >= f.height

(* With the display as it was in the picture, a click at the point listed for a thing lands on that
   thing, whatever the scale; and on a picture made smaller CursorPosition names the very point that
   was clicked. *)
ClicksLand ==
  AsPictured("Click") =>
    /\ Visible(done.asked, done.frame) => Within(done.pointer, done.asked)
    /\ done.frame.imageWidth <= done.frame.width /\ done.frame.imageHeight <= done.frame.height
         => done.cursor = done.point

(* Zoom captures every pixel asked for that is in the picture, nothing outside the frame, and a point
   of its image, converted as its reply says, is in what it captured. *)
ZoomCovers ==
  AsPictured("Zoom") =>
    LET f == done.frame
        box == done.box
    IN /\ \A i \in 0..(f.imageWidth - 1), j \in 0..(f.imageHeight - 1) :
            Within(<<i, j>>, done.asked) =>
              /\ (box[1] - f.x) * f.imageWidth <= i * f.width
              /\ (box[2] - f.y) * f.imageHeight <= j * f.height
              /\ (i + 1) * f.width <= (box[3] - f.x) * f.imageWidth
              /\ (j + 1) * f.height <= (box[4] - f.y) * f.imageHeight
       /\ box[1] >= f.x /\ box[2] >= f.y /\ box[3] <= f.x + f.width /\ box[4] <= f.y + f.height
       /\ Within(done.pointer, box)

(* What a picture prints is where an input tool goes: a point listed for a thing is on that thing, and
   a part zoomed into is the part asked for. *)
PointsLand == ClicksLand /\ ZoomCovers
==============================================================================
