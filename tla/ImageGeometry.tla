----------------------------- MODULE ImageGeometry -----------------------------
(***************************************************************************)
(* The sizes and the orientation of decoded images: the fit of a thumbnail *)
(* into its target, the mip of a DDS it is made from, and the flip and the *)
(* turn that bring a frame upright.                                        *)
(*                                                                         *)
(* A size is a record [w, h] of positive integers, a target may be [0, 0]. *)
(* Scales are exact fractions here, floats in the code.                    *)
(***************************************************************************)
EXTENDS Integers, Sequences, FiniteSetsExt

Side   == Nat \ {0}
Size   == [w : Side, h : Side]
Target == [w : Nat, h : Nat]

Swapped(size) == [w |-> size.h, h |-> size.w]

Largest(size) == IF size.w > size.h THEN size.w ELSE size.h

-----------------------------------------------------------------------------
(***************************************************************************)
(* Fitting a target.                                                       *)
(***************************************************************************)

\* std::round of a fraction.
Round(numerator, denominator) == (2 * numerator + denominator) \div (2 * denominator)

\* A faulty form of Scale: the side that needs it less decides.
LooseScale(size, target) ==
  IF target.w * size.h >= target.h * size.w
  THEN <<target.w, size.w>> ELSE <<target.h, size.h>>

\* The smaller of target.w / size.w and target.h / size.h.
Scale(size, target) ==
  IF target.w * size.h <= target.h * size.w
  THEN <<target.w, size.w>> ELSE <<target.h, size.h>>

Scaled(size, scale) ==
  [w |-> Round(size.w * scale[1], scale[2]), h |-> Round(size.h * scale[1], scale[2])]

NeedsScale(size, target) ==
  target.w > 0 /\ target.h > 0 /\ (size.w > target.w \/ size.h > target.h)

\* Neither scaler makes an image without pixels: both leave it as it is.
IsEmpty(size) == size.w = 0 \/ size.h = 0

\* DXTexThumbnailDecoder.
Fitted(size, target) ==
  LET scaled == Scaled(size, Scale(size, target))
  IN  IF NeedsScale(size, target) /\ ~IsEmpty(scaled) THEN scaled ELSE size

\* Orientations 5 to 8 store the image transposed.
SwapsAxes(orientation) == orientation \in 5..8

Upright(size, orientation) == IF SwapsAxes(orientation) THEN Swapped(size) ELSE size

\* A faulty form of ScaleAsStored: the target is compared with the stored sides.
ScaleStoredSides(stored, orientation, target) == Scale(stored, target)

\* WICDecoderCommon::DecodeAndScale: the scale is that of the upright image, ...
ScaleAsStored(stored, orientation, target) == Scale(Upright(stored, orientation), target)

\* ... the frame is scaled as stored and turned afterwards.
FittedFrame(stored, orientation, target) ==
  LET scaled == Scaled(stored, ScaleAsStored(stored, orientation, target))
      needed == NeedsScale(Upright(stored, orientation), target)
  IN  Upright(IF needed /\ ~IsEmpty(scaled) THEN scaled ELSE stored, orientation)

-----------------------------------------------------------------------------
(***************************************************************************)
(* The mips of a DDS.                                                      *)
(***************************************************************************)
PowerOfTwo[n \in Nat] == IF n = 0 THEN 1 ELSE 2 * PowerOfTwo[n - 1]

Mip(size, m) ==
  [w |-> Max({1, size.w \div PowerOfTwo[m]}), h |-> Max({1, size.h \div PowerOfTwo[m]})]

\* A faulty form of Reaches: the smaller side of the target is enough.
ReachesSmaller(mip, target) == Largest(mip) >= Min({target.w, target.h})

Reaches(mip, target) == Largest(mip) >= Largest(target)

\* The smallest mip that reaches the target, the first among equals, or mip 0.
ThumbnailMip(size, levels, target) ==
  LET reaching  == {m \in 0..(levels - 1) : Reaches(Mip(size, m), target)}
      Longer(m) == Largest(Mip(size, m))
      smallest  == {m \in reaching : \A n \in reaching : Longer(m) <= Longer(n)}
      chooses   == levels > 1 /\ target.w > 0 /\ target.h > 0 /\ reaching # {}
  IN  IF chooses THEN Min(smallest) ELSE 0

-----------------------------------------------------------------------------
(***************************************************************************)
(* Orient.  A step of the flip-rotator maps a pixel of an image of a given *)
(* size to its place in the result.                                        *)
(***************************************************************************)
FlipHorizontal(p, size) == [p EXCEPT !.x = size.w - 1 - p.x]
FlipVertical(p, size)   == [p EXCEPT !.y = size.h - 1 - p.y]
Rotate90(p, size)  == [x |-> size.h - 1 - p.y, y |-> p.x]
Rotate180(p, size) == [x |-> size.w - 1 - p.x, y |-> size.h - 1 - p.y]
Rotate270(p, size) == [x |-> p.y, y |-> size.w - 1 - p.x]

\* A faulty form of Orient: the rotator is taken to turn before it flips.
OrientTurnedFirst(p, size, orientation) ==
  CASE orientation = 5 -> FlipHorizontal(Rotate270(p, size), Swapped(size))
    [] orientation = 7 -> FlipHorizontal(Rotate90(p, size), Swapped(size))
    [] OTHER -> p

\* The flip comes before the turn.
Orient(p, size, orientation) ==
  CASE orientation = 2 -> FlipHorizontal(p, size)
    [] orientation = 3 -> Rotate180(p, size)
    [] orientation = 4 -> FlipVertical(p, size)
    [] orientation = 5 -> Rotate270(FlipHorizontal(p, size), size)
    [] orientation = 6 -> Rotate90(p, size)
    [] orientation = 7 -> Rotate90(FlipHorizontal(p, size), size)
    [] orientation = 8 -> Rotate270(p, size)
    [] OTHER           -> p

-----------------------------------------------------------------------------
(***************************************************************************)
(* What they promise, for one picture.                                     *)
(***************************************************************************)

\* `result` is the largest size of the shape of `size` within the target, and
\* never larger than `size` itself.
FitsTarget(result, size, target) ==
  IF NeedsScale(size, target)
  THEN /\ result.w <= target.w /\ result.h <= target.h
       /\ result.w = target.w \/ result.h = target.h
  ELSE result = size

\* The picture is so much longer than it is wide that a side would round to 0.
TooThin(size, target) ==
  NeedsScale(size, target) /\ IsEmpty(Scaled(size, Scale(size, target)))

\* A thumbnail fits its target and fills it in one direction, upright, by either
\* decoder; but for a picture so thin that a side rounds to 0 the scaler fails and
\* the image comes in full size.
ThumbnailFits(size, orientation, target) ==
  LET upright == Upright(size, orientation)
      frame   == FittedFrame(size, orientation, target)
  IN  IF TooThin(upright, target)
      THEN frame = upright /\ Fitted(upright, target) = upright
      ELSE FitsTarget(frame, upright, target) /\ FitsTarget(Fitted(upright, target), upright, target)

\* The thumbnail made from the chosen mip is never more than a pixel short of the
\* one made from the whole image: the mips round their sides down, and with them
\* the shape, but no mip that has too few pixels is chosen.
MipLosesNoPixels(size, levels, target) ==
  LET m      == ThumbnailMip(size, levels, target)
      whole  == Fitted(size, target)
      result == Fitted(Mip(size, m), target)
  IN  ~TooThin(size, target) => result.w >= whole.w - 1 /\ result.h >= whole.h - 1

\* The EXIF definition: the sides of the upright image at which the first stored row
\* and the first stored column are.
ExifSides == << <<"top", "left">>, <<"top", "right">>, <<"bottom", "right">>,
                <<"bottom", "left">>, <<"left", "top">>, <<"right", "top">>,
                <<"right", "bottom">>, <<"left", "bottom">> >>

\* The place of a coordinate that counts from `side`.
Place(coordinate, side, length) ==
  IF side \in {"top", "left"} THEN coordinate ELSE length - 1 - coordinate

UprightPlace(p, size, orientation) ==
  LET row    == Place(p.y, ExifSides[orientation][1], size.h)
      column == Place(p.x, ExifSides[orientation][2], size.w)
  IN  IF SwapsAxes(orientation) THEN [x |-> row, y |-> column] ELSE [x |-> column, y |-> row]

\* Every pixel comes to the place EXIF gives it, for each of the eight orientations.
PixelsUpright(size, orientation) ==
  \A x \in 0..(size.w - 1), y \in 0..(size.h - 1) :
    Orient([x |-> x, y |-> y], size, orientation)
      = UprightPlace([x |-> x, y |-> y], size, orientation)

-----------------------------------------------------------------------------
(***************************************************************************)
(* What they promise, for the picture a host asks for, whichever it is.    *)
(***************************************************************************)
CONSTANT Picture  \* pictures: [size, levels, orientation, target]

ASSUME PictureConstants ==
  Picture \subseteq [size : Size, levels : Side, orientation : 1..8, target : Target]

VARIABLE pictures  \* the one asked for, as a set; empty when none is

PictureInit == \E picture \in Picture : pictures = {picture}

PictureSpec == PictureInit /\ [][FALSE]_pictures

\* ThumbnailFits: WIC's scaled frames and DirectXTex' thumbnails fit their target.
ThumbnailsFit ==
  \A picture \in pictures :
    ThumbnailFits(picture.size, picture.orientation, picture.target)

\* MipLosesNoPixels: the mip a DDS thumbnail is made from is large enough.
MipsLoseNoPixels ==
  \A picture \in pictures : MipLosesNoPixels(picture.size, picture.levels, picture.target)

\* PixelsUpright: each EXIF orientation is undone.
ImagesUpright ==
  \A picture \in pictures : PixelsUpright(picture.size, picture.orientation)
================================================================================
