-------------------------------- MODULE Crop --------------------------------
(***************************************************************************)
(* The arithmetic of stream.c that crops a stream to one part of a video   *)
(* wall.  A letter of the crop code counts from 'A', so that 'A' is 0; two *)
(* letters say which of how many parts is shown in one direction.          *)
(***************************************************************************)
EXTENDS Integers

NUL == -65      \* the terminator of a code, counted from 'A'

MaxParts == 8
FullGap == 10000   \* hundredths of a percent

CropValid(num, den) == num >= 0 /\ num < den /\ den <= MaxParts

\* The gap is shared by the two parts it separates, hence half of it each.
CropGap(pix, gap) ==
    IF gap > 0 /\ gap <= FullGap THEN (pix * gap) \div (FullGap * 2) ELSE 0

\* Mutant: the pixels are rounded up.
CropPixRoundedUp(total, num, den, gap) ==
    IF total > 0 /\ CropValid(num, den)
    THEN (total * num + den - 1) \div den + CropGap(total \div den, gap)
    ELSE 0

\* Mutant: the whole picture's gap is taken.
CropPixWholeGap(total, num, den, gap) ==
    IF total > 0 /\ CropValid(num, den)
    THEN (total * num) \div den + CropGap(total, gap)
    ELSE 0

CropPix(total, num, den, gap) ==
    IF total > 0 /\ CropValid(num, den)
    THEN (total * num) \div den + CropGap(total \div den, gap)
    ELSE 0

\* stream_crop_top, stream_crop_left: what lies before part `at', the last
\* part being `last'.
CropBefore(total, at, last, gap) == CropPix(total, at, last + 1, gap)

\* stream_crop_bottom, stream_crop_right: what lies behind it
CropBehind(total, at, last, gap) == CropPix(total, last - at, last + 1, gap)

----------------------------------------------------------------------------
(* What the cropping is for *)

\* Something of the picture may be left to see, and nothing is added to it.
Fits(total, before, behind) ==
    before >= 0 /\ behind >= 0 /\ before + behind <= total

\* The view is part `at' of last + 1 equal ones, in whole pixels: it holds
\* all of that part, and less than a pixel more on either side.
Covers(total, at, last, before, behind) ==
    LET parts == last + 1 IN
    /\ before * parts <= total * at
    /\ total * at < (before + 1) * parts
    /\ (total - behind) * parts >= total * (at + 1)
    /\ total * (at + 1) > (total - behind - 1) * parts
=============================================================================
