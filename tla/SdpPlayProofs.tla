--------------------------- MODULE SdpPlayProofs ---------------------------
(***************************************************************************)
(* Proofs about Stream and SdpPlay.  Of a stream, for any order of calls:  *)
(* what its videobox cuts off a picture, how its elements are linked and   *)
(* what its counters add up to.  A cell of SdpPlay uses its stream in such *)
(* an order; of the cell: which stream it plays after a command, a new     *)
(* stream description, and a restart of the program.                       *)
(***************************************************************************)
EXTENDS SdpPlay, Iteration, SequenceTheorems, TLAPS

(* The arithmetic of Crop *)

\* The gap takes at most half of a part at either side.
LEMMA GapBound ==
    ASSUME NEW pix \in Nat, NEW g \in Int
    PROVE  /\ CropGap(pix, g) \in Nat
           /\ 2 * CropGap(pix, g) <= pix
<1>1. CASE g > 0 /\ g <= FullGap
  <2>1. pix * g \in Nat /\ pix * g <= pix * 10000
    BY <1>1, SMT DEF FullGap
  <2>2. CropGap(pix, g) = (pix * g) \div 20000
    BY <1>1 DEF CropGap, FullGap
  <2>3. ASSUME NEW x \in Nat, x <= pix * 10000
        PROVE  x \div 20000 \in Nat /\ 2 * (x \div 20000) <= pix
    BY <2>3, SMT
  <2>4. QED  BY <2>1, <2>2, <2>3
<1>2. CASE ~(g > 0 /\ g <= FullGap)
  BY <1>2 DEF CropGap
<1>3. QED  BY <1>1, <1>2

\* Rounded down to whole pixels, the parts before and behind one part leave
\* room for that part.
LEMMA PartsRoom ==
    ASSUME NEW total \in Nat, NEW at \in Nat, NEW last \in 0 .. 7, at <= last
    PROVE  LET parts == last + 1
               before == (total * at) \div parts
               behind == (total * (last - at)) \div parts
           IN  /\ before \in Nat /\ behind \in Nat
               /\ total \div parts \in Nat
               /\ before + behind + total \div parts <= total
<1> at \in 0 .. 7 /\ last - at \in 0 .. 7
  BY SMT
<1>1. CASE last = 0  BY <1>1, SMT
<1>2. CASE last = 1  BY <1>2, SMT
<1>3. CASE last = 2  BY <1>3, SMT
<1>4. CASE last = 3  BY <1>4, SMT
<1>5. CASE last = 4  BY <1>5, SMT
<1>6. CASE last = 5  BY <1>6, SMT
<1>7. CASE last = 6  BY <1>7, SMT
<1>8. CASE last = 7  BY <1>8, SMT
<1>9. QED
  BY <1>1, <1>2, <1>3, <1>4, <1>5, <1>6, <1>7, <1>8, SMT

\* Whatever the crop code says, no more is cut off than there is.
LEMMA CropFits ==
    ASSUME NEW total \in Nat, NEW at \in Int, NEW last \in Int, NEW g \in Int
    PROVE  /\ CropBefore(total, at, last, g) \in Nat
           /\ CropBehind(total, at, last, g) \in Nat
           /\ Fits(total, CropBefore(total, at, last, g),
                   CropBehind(total, at, last, g))
<1> DEFINE parts == last + 1
           before == (total * at) \div parts
           behind == (total * (last - at)) \div parts
           part == total \div parts
<1>1. CASE total > 0 /\ CropValid(at, parts)
  <2>1. at \in Nat /\ last \in 0 .. 7 /\ at <= last
    BY <1>1, SMT DEF CropValid, MaxParts
  <2>2. CropValid(last - at, parts)
    BY <2>1, SMT DEF CropValid, MaxParts
  <2>3. /\ before \in Nat /\ behind \in Nat /\ part \in Nat
        /\ before + behind + part <= total
    BY <2>1, PartsRoom
  <2>4. CropGap(part, g) \in Nat /\ 2 * CropGap(part, g) <= part
    BY <2>3, GapBound
  <2>5. /\ CropBefore(total, at, last, g) = before + CropGap(part, g)
        /\ CropBehind(total, at, last, g) = behind + CropGap(part, g)
    BY <1>1, <2>2 DEF CropBefore, CropBehind, CropPix
  <2> HIDE DEF before, behind, part
  <2>6. QED  BY <2>3, <2>4, <2>5, SMT DEF Fits
<1>2. CASE ~(total > 0 /\ CropValid(at, parts))
  <2>1. ~(total > 0 /\ CropValid(last - at, parts))
    BY <1>2, SMT DEF CropValid
  <2>2. /\ CropBefore(total, at, last, g) = 0
        /\ CropBehind(total, at, last, g) = 0
    BY <1>2, <2>1 DEF CropBefore, CropBehind, CropPix
  <2>3. QED  BY <2>2 DEF Fits
<1>3. QED  BY <1>1, <1>2

\* Without a gap, what is left is the part itself, to the pixel.
LEMMA CropCovers ==
    ASSUME NEW total \in Nat, NEW at \in Int, NEW last \in Int,
           CropValid(at, last + 1)
    PROVE  Covers(total, at, last, CropBefore(total, at, last, 0),
                  CropBehind(total, at, last, 0))
<1>1. at \in 0 .. 7 /\ last \in 0 .. 7 /\ at <= last /\ last - at \in 0 .. 7
  BY SMT DEF CropValid, MaxParts
<1>2. CropValid(last - at, last + 1)
  BY <1>1, SMT DEF CropValid, MaxParts
<1>3. /\ CropBefore(total, at, last, 0) = (total * at) \div (last + 1)
      /\ CropBehind(total, at, last, 0) = (total * (last - at)) \div (last + 1)
  <2>1. CASE total > 0
    BY <1>1, <1>2, <2>1, SMT DEF CropBefore, CropBehind, CropPix, CropGap
  <2>2. CASE total = 0
    <3>1. 0 \div (last + 1) = 0
      BY <1>1, SMT
    <3>2. QED
      BY <1>1, <2>2, <3>1, SMT DEF CropBefore, CropBehind, CropPix
  <2>3. QED  BY <2>1, <2>2, SMT
<1>4. ASSUME NEW p \in 1 .. 8, NEW x \in Nat
      PROVE  /\ x \div p \in Nat
             /\ (x \div p) * p <= x /\ x < (x \div p + 1) * p
  BY SMT
<1> DEFINE before == (total * at) \div (last + 1)
           behind == (total * (last - at)) \div (last + 1)
<1>5. /\ before \in Nat /\ before * (last + 1) <= total * at
      /\ total * at < (before + 1) * (last + 1)
  BY <1>1, <1>4, SMT
<1>6. /\ behind \in Nat /\ behind * (last + 1) <= total * (last - at)
      /\ total * (last - at) < (behind + 1) * (last + 1)
  BY <1>1, <1>4, SMT
<1> HIDE DEF before, behind
<1>7. /\ (total - behind) * (last + 1) >= total * (at + 1)
      /\ total * (at + 1) > (total - behind - 1) * (last + 1)
  BY <1>1, <1>6, SMT
<1>8. QED  BY <1>3, <1>5, <1>7 DEF Covers, before, behind

----------------------------------------------------------------------------
(* The videobox *)

\* What the videobox cuts off was computed from the crop letters, which are
\* those of a full code.
BoxInv ==
    /\ crop \in [1 .. 4 -> Int] /\ gap \in Int
    /\ code \in Seq(Int)
    /\ Len(code) = 4 => \A i \in 1 .. 4 : crop[i] = code[i]
    /\ box \in [left : Nat, right : Nat, width : Nat]
    /\ Fits(box.width, box.left, box.right)
    /\ box # NoBox /\ ~recrop =>
         box.left = Left(box.width) /\ box.right = Right(box.width)

\* What is computed for a picture, or for what was left of it, fits into it.
LEMMA BoxOfFits ==
    ASSUME BoxInv, NEW width \in Nat, NEW seen \in Nat, seen <= width
    PROVE  /\ BoxOf(width, seen) \in [left : Nat, right : Nat, width : Nat]
           /\ Fits(width, BoxOf(width, seen).left, BoxOf(width, seen).right)
<1>1. crop[1] \in Int /\ crop[2] \in Int /\ gap \in Int
  BY DEF BoxInv
<1>2. Left(seen) \in Nat /\ Right(seen) \in Nat /\ Fits(seen, Left(seen), Right(seen))
  BY <1>1, CropFits DEF Left, Right
<1>3. Fits(width, Left(seen), Right(seen))
  BY <1>2, SMT DEF Fits
<1>4. QED  BY <1>2, <1>3 DEF BoxOf

\* Every step keeps the box that of the crop letters it was built from.
LEMMA BoxStep == BoxInv /\ [StreamNext]_streamVars => BoxInv'
<1> SUFFICES ASSUME BoxInv, [StreamNext]_streamVars PROVE BoxInv'
  OBVIOUS
<1>1. ASSUME NEW c \in Crops, StreamSetCrop(c[1], c[2]) PROVE BoxInv'
  <2>1. c[1] \in Seq(Int) /\ c[2] \in Nat
    BY CropsAssumption
  <2>2. Len(c[1]) \in Nat /\ \A i \in 1 .. Len(c[1]) : c[1][i] \in Int
    BY <2>1
  <2>3. crop' \in [1 .. 4 -> Int]
    BY <1>1, <2>2, SMT DEF StreamSetCrop, BoxInv, NUL
  <2>4. Len(c[1]) = 4 => \A i \in 1 .. 4 : crop'[i] = c[1][i]
    BY <1>1, <2>2, SMT DEF StreamSetCrop
  <2>5. code' = c[1] /\ gap' = c[2] /\ box' = box /\ recrop'
    BY <1>1 DEF StreamSetCrop
  <2>6. QED  BY <2>1, <2>3, <2>4, <2>5 DEF BoxInv
<1>2. ASSUME NEW w \in Width, StreamMsgPlaying(w) PROVE BoxInv'
  <2>1. UNCHANGED <<crop, gap, code>>
    BY <1>2 DEF StreamMsgPlaying, settings
  <2>2. \A n : Left(n)' = Left(n) /\ Right(n)' = Right(n)
    BY <2>1 DEF Left, Right
  <2>3. ASSUME NEW width \in Nat, NEW seen \in Nat, seen <= width,
               box' = BoxOf(width, seen), ~recrop' => seen = width
        PROVE  BoxInv'
    <3>1. /\ box' \in [left : Nat, right : Nat, width : Nat]
          /\ Fits(box'.width, box'.left, box'.right)
      <4>1. box'.width = width
        BY <2>3 DEF BoxOf
      <4>2. QED  BY <2>3, <4>1, BoxOfFits
    <3>2. ~recrop' => box'.left = Left(box'.width) /\ box'.right = Right(box'.width)
      BY <2>3 DEF BoxOf
    <3>3. ~recrop' => box'.left = Left(box.width)' /\ box'.right = Right(box.width)'
      BY <2>2, <3>2
    <3>4. QED  BY <2>1, <3>1, <3>3 DEF BoxInv
  <2>4. CASE UNCHANGED <<box, recrop>>
    BY <2>1, <2>2, <2>4 DEF BoxInv
  <2>5. CASE box' = BoxOf(w, w)
    BY <2>3, <2>5, WidthAssumption, SMT
  <2>6. ASSUME NEW seen \in {box.width, box.width - box.left - box.right},
               seen > 0, box' = BoxOf(box.width, seen),
               recrop' = (recrop \/ seen # box.width)
        PROVE  BoxInv'
    <3>1. /\ box.width \in Nat /\ box.left \in Nat /\ box.right \in Nat
          /\ box.left + box.right <= box.width
      BY DEF BoxInv, Fits
    <3>2. seen \in Nat /\ seen <= box.width
      BY <2>6, <3>1, SMT
    <3>3. QED  BY <2>3, <2>6, <3>1, <3>2
  <2>7. QED  BY <1>2, <2>4, <2>5, <2>6 DEF StreamMsgPlaying
<1>3. CASE StreamReinit
  BY <1>3, SMT DEF StreamReinit, BoxInv, NUL, NoBox, Fits
<1>4. CASE StreamStopPipeline \/ StreamStartPipe
  BY <1>4, SMT DEF StreamStopPipeline, StreamStartPipe, settings, BoxInv, NoBox, Fits
<1>5. CASE UNCHANGED <<crop, gap, code, box, recrop>>
  BY <1>5 DEF BoxInv, Left, Right
<1>6. QED
  BY <1>1, <1>2, <1>3, <1>4, <1>5
     DEF StreamNext, StreamSetParams, StreamStart, JitterPushed, StreamStats,
         streamVars, settings, pipeline

\* The box is that of its letters in every reachable state.
LEMMA BoxInvariant == StreamSpec => []BoxInv
<1>1. StreamInit => BoxInv
  BY SMT DEF StreamInit, BoxInv, NUL, NoBox, Fits
<1>2. QED  BY <1>1, BoxStep, PTL DEF StreamSpec

\* The videobox never cuts off more than there is, for every crop code, gap
\* and width of picture, however often the pipeline is told to play
\* (stream_config_videobox).
THEOREM StreamBoxFits == StreamSpec => []BoxFits
<1>1. BoxInv => BoxFits
  BY DEF BoxInv, BoxFits
<1>2. QED  BY <1>1, BoxInvariant, PTL

\* A monitor of a wall shows its own part of the picture, to the pixel
\* (stream_crop_left, stream_crop_right).
THEOREM StreamBoxCovers == StreamSpec => []BoxCovers
<1>1. BoxInv => BoxCovers
  <2> SUFFICES ASSUME BoxInv, box # NoBox, ~recrop, gap = 0,
                      Len(code) = 4, CropValid(code[1], code[2] + 1)
               PROVE  Covers(box.width, code[1], code[2], box.left, box.right)
    BY DEF BoxCovers
  <2>1. code[1] = crop[1] /\ code[2] = crop[2]
    BY DEF BoxInv
  <2>2. crop[1] \in Int /\ crop[2] \in Int /\ box.width \in Nat
    BY DEF BoxInv
  <2>3. /\ box.left = CropBefore(box.width, crop[1], crop[2], 0)
        /\ box.right = CropBehind(box.width, crop[1], crop[2], 0)
    BY DEF BoxInv, Left, Right
  <2>4. QED  BY <2>1, <2>2, <2>3, CropCovers
<1>2. QED  BY <1>1, BoxInvariant, PTL

----------------------------------------------------------------------------
(* Packet counts *)

CountInv ==
    /\ counted \in Nat /\ pushed \in Nat /\ shown \in Nat
    /\ CountsAddUp

\* The packets shown since a pipeline was started add up to what its jitter
\* buffer counted, however often it is asked, stopped and started (do_stats).
THEOREM StreamCountsAddUp == StreamSpec => []CountsAddUp
<1>1. StreamInit => CountInv
  BY DEF StreamInit, CountInv, CountsAddUp
<1>2. CountInv /\ [StreamNext]_streamVars => CountInv'
  <2> SUFFICES ASSUME CountInv, [StreamNext]_streamVars PROVE CountInv'
    OBVIOUS
  <2> USE DEF CountInv, CountsAddUp
  <2>1. CASE StreamStats
    BY <2>1 DEF StreamStats, PktCount, fixed, pipeline
  <2>2. CASE JitterPushed
    BY <2>2 DEF JitterPushed, fixed, pipeline
  <2>3. CASE StreamStart \/ StreamStopPipeline \/ StreamReinit
    BY <2>3 DEF StreamStart, StreamStartPipe, StreamStopPipeline, StreamReinit
  <2>4. CASE UNCHANGED <<jitter, counters>>
    BY <2>4 DEF counters
  <2>5. QED
    BY <2>1, <2>2, <2>3, <2>4
       DEF StreamNext, StreamSetParams, StreamSetCrop, StreamMsgPlaying,
           streamVars, pipeline
<1>3. CountInv => CountsAddUp
  BY DEF CountInv
<1>4. QED  BY <1>1, <1>2, <1>3, PTL DEF StreamSpec

----------------------------------------------------------------------------
(* The elements of a pipeline *)

\* The factories pipelines are made of
Element ==
    {"glimagesink", "xvimagesink", "fakesink", "textoverlay", "videobox",
     "vaapih264dec", "openh264dec", "h264parse", "rtph264depay",
     "avdec_mpeg4", "rtpmp4vdepay", "imagefreeze", "videoconvert", "pngdec",
     "jpegdec", "mpeg2dec", "tsdemux", "rtpmp2tdepay", "queue",
     "rtpjitterbuffer", "capsfilter", "udpsrc", "souphttpsrc", "rtspsrc"}

\* What stream_start builds of a sequence of elements, one after the other
LEMMA AddSteps ==
    ASSUME NEW s \in Seq(Element)
    PROVE  \E g \in [0 .. Len(s) -> Seq(Element)] :
             /\ g[0] = <<>>
             /\ \A k \in 1 .. Len(s) : g[k] = StreamAdd(g[k - 1], s[k])
             /\ FoldLeft(StreamAdd, <<>>, s) = g[Len(s)]
<1> DEFINE n == Len(s)
           A == Seq(Element)
           step == [p \in A \X (1 .. n) |-> StreamAdd(p[1], s[p[2]])]
           Eq(f) == f = [t \in SUBSET (1 .. n) |->
                           IF t = {} THEN <<>>
                           ELSE StreamAdd(f[t \ {Max(t)}], s[Max(t)])]
           F == CHOOSE f : Eq(f)
<1>1. n \in Nat /\ DOMAIN s = 1 .. n /\ <<>> \in A
  OBVIOUS
<1>2. ASSUME NEW es \in A, NEW k \in 1 .. n
      PROVE  StreamAdd(es, s[k]) \in A
  <2>1. s[k] \in Element
    OBVIOUS
  <2>2. Append(es, s[k]) \in A
    BY <2>1, AppendProperties
  <2>3. Len(es) >= 16 => [es EXCEPT ![1] = s[k]] \in A
    <3>1. Len(es) >= 16 => 1 \in 1 .. Len(es)
      BY SMT
    <3>2. QED  BY <2>1, <3>1, ExceptSeq
  <2>4. Len(es) < 16 \/ Len(es) >= 16
    BY SMT
  <2>5. QED  BY <2>2, <2>3, <2>4 DEF StreamAdd, MaxElems
<1>3. step \in [A \X (1 .. n) -> A]
  BY <1>2
<1>4. PICK it \in [SUBSET (1 .. n) -> A] : Iterates(it, n, <<>>, step)
  <2> HIDE DEF step, n, A
  <2>1. QED  BY <1>1, <1>3, FoldExists
<1>5. ASSUME NEW t \in SUBSET (1 .. n), t # {}
      PROVE  Max(t) \in 1 .. n
  <2>1. t \subseteq 0 .. n
    BY <1>1, SMT
  <2>2. QED  BY <1>1, <1>5, <2>1, MaxOfNats
<1>6. Eq(it)
  <2>1. ASSUME NEW t \in SUBSET (1 .. n), t # {}
        PROVE  step[<<it[t \ {Max(t)}], Max(t)>>]
                 = StreamAdd(it[t \ {Max(t)}], s[Max(t)])
    <3>1. it[t \ {Max(t)}] \in A
      OBVIOUS
    <3>2. QED  BY <1>5, <2>1, <3>1
  <2>2. QED  BY <1>4, <2>1 DEF Iterates
<1>7. Eq(F)
  <2> HIDE DEF Eq
  <2>1. QED  BY <1>6
<1>8. FoldLeft(StreamAdd, <<>>, s) = F[1 .. n]
  BY <1>1 DEF FoldLeft, MapThenFoldSet
<1>9. F[{}] = <<>>
  BY <1>7
<1>10. IteratesIn(F, A, n, <<>>, step)
  <2> HIDE DEF F
  <2>1. QED  BY <1>1, <1>3, <1>5, <1>7, <1>9 DEF IteratesIn
<1>11. PICK g \in [0 .. n -> A] : Steps(g, n, <<>>, step) /\ g[n] = F[1 .. n]
  <2> HIDE DEF F, step, n, A
  <2>1. QED  BY <1>10, FoldPrefixes
<1>12. ASSUME NEW k \in 1 .. n PROVE g[k] = StreamAdd(g[k - 1], s[k])
  <2>1. k - 1 \in 0 .. n
    BY <1>1, SMT
  <2>2. g[k - 1] \in A
    BY <2>1
  <2>3. step[<<g[k - 1], k>>] = StreamAdd(g[k - 1], s[k])
    BY <2>2
  <2>4. QED  BY <1>11, <2>3 DEF Steps
<1>13. QED  BY <1>8, <1>11, <1>12 DEF Steps

\* Elements that are installed are all in a pipeline of up to 16, and the
\* sink is its first.
LEMMA AddKeeps ==
    ASSUME NEW s \in Seq(Element), Len(s) <= MaxElems
    PROVE  LET es == FoldLeft(StreamAdd, <<>>, s)
           IN  /\ es \in Seq(Element) /\ Len(es) <= Len(s)
               /\ \A i \in 1 .. Len(s) :
                    s[i] \notin missing => s[i] \in Range(es)
<1>1. PICK g \in [0 .. Len(s) -> Seq(Element)] :
        /\ g[0] = <<>>
        /\ \A k \in 1 .. Len(s) : g[k] = StreamAdd(g[k - 1], s[k])
        /\ FoldLeft(StreamAdd, <<>>, s) = g[Len(s)]
  BY AddSteps
<1> DEFINE Kept(k) ==
             /\ Len(g[k]) <= k
             /\ \A i \in 1 .. k : s[i] \notin missing => s[i] \in Range(g[k])
           S == {k \in 0 .. Len(s) : Kept(k)}
<1>2. Len(s) \in Nat
  OBVIOUS
<1>3. 0 \in S
  BY <1>1, <1>2, SMT
<1>4. ASSUME NEW k \in 0 .. Len(s) - 1, k \in S PROVE k + 1 \in S
  <2>1. k + 1 \in 1 .. Len(s) /\ (k + 1) - 1 = k /\ k + 1 \in 0 .. Len(s)
    BY <1>2, SMT
  <2>2. g[k] \in Seq(Element) /\ s[k + 1] \in Element
    BY <2>1
  <2>3. g[k + 1] = StreamAdd(g[k], s[k + 1])
    BY <1>1, <2>1
  <2>4. Len(g[k]) \in Nat /\ Len(g[k]) < MaxElems
    BY <1>4, <2>2, SMT DEF MaxElems
  <2>5. CASE s[k + 1] \in missing
    BY <1>4, <2>1, <2>3, <2>4, <2>5, SMT DEF StreamAdd
  <2>6. CASE s[k + 1] \notin missing
    <3>1. g[k + 1] = Append(g[k], s[k + 1])
      BY <2>3, <2>4, <2>6 DEF StreamAdd
    <3>2. Range(g[k + 1]) = Range(g[k]) \cup {s[k + 1]}
      <4> DEFINE e == <<s[k + 1]>>
      <4>1. g[k + 1] = g[k] \o e /\ e \in Seq(Element)
        BY <2>2, <3>1, AppendIsConcat
      <4>2. Range(e) = {s[k + 1]}
        BY SMT DEF Range
      <4> HIDE DEF e
      <4>3. QED  BY <2>2, <4>1, <4>2, RangeConcatenation
    <3>3. Len(g[k + 1]) <= k + 1
      BY <1>4, <2>2, <2>4, <3>1, AppendProperties, SMT
    <3>4. QED  BY <1>4, <2>1, <3>2, <3>3, SMT
  <2>7. QED  BY <2>5, <2>6
<1>5. 0 .. Len(s) \subseteq S
  <2> HIDE DEF S
  <2>1. QED  BY <1>2, <1>3, <1>4, BoundedInduction
<1>6. Len(s) \in S
  BY <1>2, <1>5
<1>7. QED  BY <1>1, <1>6

----------------------------------------------------------------------------
(* What flows through a pipeline *)

\* Each element is fed what it accepts.
Chain(s) == \A i \in 2 .. Len(s) : Gives(s[i]) = Accepts(s[i - 1])

\* Two chains are one when the second feeds the first.
LEMMA ChainConcat ==
    ASSUME NEW s \in Seq(Element), NEW t \in Seq(Element),
           s # <<>>, t # <<>>, Chain(s), Chain(t),
           Gives(t[1]) = Accepts(s[Len(s)])
    PROVE  /\ s \o t \in Seq(Element) /\ s \o t # <<>> /\ Chain(s \o t)
           /\ (s \o t)[1] = s[1] /\ (s \o t)[Len(s \o t)] = t[Len(t)]
           /\ Len(s \o t) = Len(s) + Len(t)
<1>1. /\ Len(s) \in Nat /\ Len(t) \in Nat /\ Len(s) >= 1 /\ Len(t) >= 1
  BY EmptySeq, SMT
<1>2. /\ s \o t \in Seq(Element) /\ Len(s \o t) = Len(s) + Len(t)
      /\ \A i \in 1 .. Len(s) + Len(t) :
           (s \o t)[i] = IF i <= Len(s) THEN s[i] ELSE t[i - Len(s)]
  BY ConcatProperties
<1>3. ASSUME NEW i \in 2 .. Len(s) + Len(t)
      PROVE  Gives((s \o t)[i]) = Accepts((s \o t)[i - 1])
  <2>1. i \in 1 .. Len(s) + Len(t) /\ i - 1 \in 1 .. Len(s) + Len(t)
    BY <1>1, SMT
  <2>2. CASE i <= Len(s)
    <3>1. (s \o t)[i] = s[i] /\ (s \o t)[i - 1] = s[i - 1]
      BY <1>1, <1>2, <2>1, <2>2, SMT
    <3>2. i \in 2 .. Len(s)
      BY <1>1, <2>2, SMT
    <3>3. QED  BY <3>1, <3>2 DEF Chain
  <2>3. CASE i = Len(s) + 1
    <3>1. (s \o t)[i] = t[1] /\ (s \o t)[i - 1] = s[Len(s)]
      BY <1>1, <1>2, <2>1, <2>3, SMT
    <3>2. QED  BY <3>1
  <2>4. CASE i > Len(s) + 1
    <3>1. (s \o t)[i] = t[i - Len(s)] /\ (s \o t)[i - 1] = t[i - Len(s) - 1]
      BY <1>1, <1>2, <2>1, <2>4, SMT
    <3>2. i - Len(s) \in 2 .. Len(t)
      BY <1>1, <2>4, SMT
    <3>3. QED  BY <3>1, <3>2 DEF Chain
  <2>5. QED  BY <1>1, <2>2, <2>3, <2>4, SMT
<1>4. Chain(s \o t)
  BY <1>2, <1>3 DEF Chain
<1>5. (s \o t)[1] = s[1] /\ (s \o t)[Len(s \o t)] = t[Len(t)]
  BY <1>1, <1>2, SMT
<1>6. s \o t # <<>>
  BY <1>1, <1>2, EmptySeq, SMT
<1>7. QED  BY <1>2, <1>4, <1>5, <1>6

\* A chain stays one when elements that only hand on what they are given are
\* left out, and its sink is installed.
LEMMA AddChain ==
    ASSUME NEW s \in Seq(Element), Len(s) <= MaxElems, s # <<>>, Chain(s),
           s[1] \notin missing, \A e \in missing : Accepts(e) = Gives(e)
    PROVE  LET es == FoldLeft(StreamAdd, <<>>, s)
           IN  /\ es \in Seq(Element) /\ es # <<>> /\ es[1] = s[1] /\ Chain(es)
               /\ Accepts(es[Len(es)]) = Accepts(s[Len(s)])
<1>1. PICK g \in [0 .. Len(s) -> Seq(Element)] :
        /\ g[0] = <<>>
        /\ \A k \in 1 .. Len(s) : g[k] = StreamAdd(g[k - 1], s[k])
        /\ FoldLeft(StreamAdd, <<>>, s) = g[Len(s)]
  BY AddSteps
<1> DEFINE Good(k) ==
             /\ Len(g[k]) <= k
             /\ k > 0 => /\ g[k] # <<>> /\ g[k][1] = s[1] /\ Chain(g[k])
                         /\ Accepts(g[k][Len(g[k])]) = Accepts(s[k])
           S == {k \in 0 .. Len(s) : Good(k)}
<1>2. Len(s) \in Nat /\ Len(s) > 0
  BY EmptySeq, SMT
<1>3. 0 \in S
  BY <1>1, <1>2, SMT
<1>4. ASSUME NEW k \in 0 .. Len(s) - 1, k \in S PROVE k + 1 \in S
  <2>1. k + 1 \in 1 .. Len(s) /\ (k + 1) - 1 = k /\ k + 1 \in 0 .. Len(s)
    BY <1>2, SMT
  <2>2. g[k] \in Seq(Element) /\ s[k + 1] \in Element
    BY <2>1
  <2>3. g[k + 1] = StreamAdd(g[k], s[k + 1])
    BY <1>1, <2>1
  <2>4. Len(g[k]) \in Nat /\ Len(g[k]) < MaxElems /\ Len(g[k]) <= k
    BY <1>4, <2>2, SMT DEF MaxElems
  <2>5. CASE k = 0
    <3>1. g[k + 1] = <<s[1]>>
      <4>1. g[k] = <<>> /\ s[k + 1] = s[1]
        BY <1>1, <2>5
      <4>2. Len(<<>>) < MaxElems
        BY SMT DEF MaxElems
      <4>3. g[k + 1] = Append(<<>>, s[1])
        BY <2>3, <4>1, <4>2 DEF StreamAdd
      <4>4. QED  BY <4>3
    <3>2. Len(g[k + 1]) = 1 /\ g[k + 1] # <<>> /\ g[k + 1][1] = s[1]
      BY <3>1
    <3>3. Chain(g[k + 1])
      BY <3>2, SMT DEF Chain
    <3>4. QED  BY <2>1, <2>5, <3>2, <3>3, SMT
  <2>6. CASE k > 0 /\ s[k + 1] \in missing
    <3>1. g[k + 1] = g[k]
      BY <2>3, <2>6 DEF StreamAdd
    <3>2. k + 1 \in 2 .. Len(s)
      BY <1>2, <2>6, SMT
    <3>3. Gives(s[k + 1]) = Accepts(s[k]) /\ Accepts(s[k + 1]) = Gives(s[k + 1])
      BY <2>1, <2>6, <3>2 DEF Chain
    <3>4. Good(k + 1)
      BY <1>4, <2>4, <2>6, <3>1, <3>3, SMT
    <3>5. QED  BY <2>1, <3>4
  <2>7. CASE k > 0 /\ s[k + 1] \notin missing
    <3> DEFINE e == <<s[k + 1]>>
    <3>1. g[k + 1] = g[k] \o e
      BY <2>2, <2>3, <2>4, <2>7, AppendIsConcat DEF StreamAdd
    <3>2. k + 1 \in 2 .. Len(s)
      BY <1>2, <2>7, SMT
    <3>3. Gives(s[k + 1]) = Accepts(s[k])
      BY <2>1, <3>2 DEF Chain
    <3>4. /\ e \in Seq(Element) /\ e # <<>> /\ Len(e) = 1
          /\ e[1] = s[k + 1] /\ Chain(e)
      BY <2>2, SMT DEF Chain
    <3>5. Good(k)
      BY <1>4
    <3> HIDE DEF e
    <3>6. /\ g[k] \o e # <<>> /\ Chain(g[k] \o e)
          /\ (g[k] \o e)[1] = g[k][1]
          /\ (g[k] \o e)[Len(g[k] \o e)] = e[1]
          /\ Len(g[k] \o e) = Len(g[k]) + 1
      BY <2>2, <2>7, <3>3, <3>4, <3>5, ChainConcat
    <3>7. Good(k + 1)
      BY <2>4, <2>7, <3>1, <3>4, <3>5, <3>6, SMT
    <3>8. QED  BY <2>1, <3>7
  <2>8. QED  BY <2>5, <2>6, <2>7, SMT
<1>5. 0 .. Len(s) \subseteq S
  <2> HIDE DEF S
  <2>1. QED  BY <1>2, <1>3, <1>4, BoundedInduction
<1>6. Len(s) \in S
  BY <1>2, <1>5
<1>7. QED  BY <1>1, <1>2, <1>6

\* One element is a chain.
LEMMA ChainOf1 ==
    ASSUME NEW a \in Element
    PROVE  LET s == <<a>>
           IN  /\ s \in Seq(Element) /\ s # <<>> /\ Len(s) = 1 /\ Chain(s)
               /\ s[1] = a
BY SMT DEF Chain

\* Two elements in a row, each linked to the next
LEMMA ChainOf2 ==
    ASSUME NEW a \in Element, NEW b \in Element, Gives(b) = Accepts(a)
    PROVE  LET s == <<a, b>>
           IN  /\ s \in Seq(Element) /\ s # <<>> /\ Len(s) = 2 /\ Chain(s)
               /\ s[1] = a /\ s[2] = b
BY SMT DEF Chain

\* Three elements in a row, each linked to the next
LEMMA ChainOf3 ==
    ASSUME NEW a \in Element, NEW b \in Element, NEW c \in Element,
           Gives(b) = Accepts(a), Gives(c) = Accepts(b)
    PROVE  LET s == <<a, b, c>>
           IN  /\ s \in Seq(Element) /\ s # <<>> /\ Len(s) = 3 /\ Chain(s)
               /\ s[1] = a /\ s[3] = c
<1> DEFINE s == <<a, b, c>>
<1>1. /\ s \in Seq(Element) /\ s # <<>> /\ Len(s) = 3
      /\ s[1] = a /\ s[2] = b /\ s[3] = c
  OBVIOUS
<1> HIDE DEF s
<1>2. \A i \in 2 .. 3 : i = 2 \/ i = 3
  BY SMT
<1>3. Chain(s)
  BY <1>1, <1>2, SMT DEF Chain
<1>4. QED  BY <1>1, <1>3 DEF s

\* Four elements in a row, each linked to the next
LEMMA ChainOf4 ==
    ASSUME NEW a \in Element, NEW b \in Element, NEW c \in Element,
           NEW d \in Element,
           Gives(b) = Accepts(a), Gives(c) = Accepts(b), Gives(d) = Accepts(c)
    PROVE  LET s == <<a, b, c, d>>
           IN  /\ s \in Seq(Element) /\ s # <<>> /\ Len(s) = 4 /\ Chain(s)
               /\ s[1] = a /\ s[4] = d
<1> DEFINE s == <<a, b, c, d>>
<1>1. /\ s \in Seq(Element) /\ s # <<>> /\ Len(s) = 4
      /\ s[1] = a /\ s[2] = b /\ s[3] = c /\ s[4] = d
  OBVIOUS
<1> HIDE DEF s
<1>2. \A i \in 2 .. 4 : i = 2 \/ i = 3 \/ i = 4
  BY SMT
<1>3. Chain(s)
  BY <1>1, <1>2, SMT DEF Chain
<1>4. QED  BY <1>1, <1>3 DEF s

\* What comes after the decoder shows raw pictures.
LEMMA LaterChain ==
    ASSUME NEW p
    PROVE  LET s == LaterElements(p)
           IN  /\ s \in Seq(Element) /\ s # <<>> /\ Len(s) <= 3 /\ Chain(s)
               /\ s[1] = IF ~real THEN "fakesink"
                         ELSE IF vaapi THEN "glimagesink" ELSE "xvimagesink"
               /\ Accepts(s[Len(s)]) = "raw"
<1> DEFINE Sink == IF ~real THEN "fakesink"
                   ELSE IF vaapi THEN "glimagesink" ELSE "xvimagesink"
           Raw(s) == /\ s \in Seq(Element) /\ s # <<>> /\ Len(s) <= 3
                     /\ Chain(s) /\ s[1] = Sink
                     /\ Accepts(s[Len(s)]) = "raw"
<1>1. Sink \in Element /\ Accepts(Sink) = "raw"
  BY DEF Accepts, Element
<1>2. /\ "textoverlay" \in Element /\ "videobox" \in Element
      /\ Accepts("textoverlay") = "raw" /\ Gives("textoverlay") = "raw"
      /\ Accepts("videobox") = "raw" /\ Gives("videobox") = "raw"
  BY DEF Accepts, Gives, Element
<1> DEFINE One == <<Sink>>
           Text == IF p.desc /\ p.enc # "MJPEG" THEN <<"textoverlay">> ELSE <<>>
           Box == IF HasCrop THEN <<"videobox">> ELSE <<>>
<1>3. LaterElements(p) = One \o Text \o Box
  BY DEF LaterElements
<1>6. Raw(One) /\ Len(One) = 1
  BY <1>1, ChainOf1, SMT
<1>4. Text = <<>> \/ Text = <<"textoverlay">>
  OBVIOUS
<1>5. Box = <<>> \/ Box = <<"videobox">>
  OBVIOUS
<1> HIDE DEF Sink, One, Text, Box
<1>7. ASSUME NEW s, NEW e, Raw(s), Len(s) <= 2,
             e \in {"textoverlay", "videobox"}
      PROVE  Raw(s \o <<e>>) /\ Len(s \o <<e>>) = Len(s) + 1
  <2>1. e \in Element /\ Gives(e) = "raw" /\ Accepts(e) = "raw"
    BY <1>2, <1>7
  <2>2. /\ <<e>> \in Seq(Element) /\ <<e>> # <<>> /\ Len(<<e>>) = 1
        /\ Chain(<<e>>) /\ <<e>>[1] = e
    BY <2>1, ChainOf1
  <2>3. /\ s \o <<e>> \in Seq(Element) /\ s \o <<e>> # <<>> /\ Chain(s \o <<e>>)
        /\ (s \o <<e>>)[1] = s[1] /\ (s \o <<e>>)[Len(s \o <<e>>)] = e
        /\ Len(s \o <<e>>) = Len(s) + 1
    BY <1>7, <2>1, <2>2, ChainConcat
  <2>4. QED  BY <1>7, <2>1, <2>3, SMT
<1>8. \A s : Raw(s) => s \o <<>> = s
  BY ConcatEmptySeq
<1>9. Raw(One \o Text) /\ Len(One \o Text) <= 2
  <2> HIDE DEF Raw
  <2>1. Len(One) <= 2
    BY <1>6, SMT
  <2>2. /\ Raw(One \o <<"textoverlay">>)
        /\ Len(One \o <<"textoverlay">>) = 2
    <3>1. /\ Raw(One \o <<"textoverlay">>)
          /\ Len(One \o <<"textoverlay">>) = Len(One) + 1
      BY <1>6, <1>7, <2>1
    <3>2. QED  BY <1>6, <3>1, SMT
  <2>3. CASE Text = <<>>
    <3>1. One \o Text = One
      BY <1>6, <1>8, <2>3
    <3>2. QED  BY <1>6, <2>1, <3>1
  <2>4. CASE Text = <<"textoverlay">>
    <3>1. Len(One \o Text) = 2
      BY <2>2, <2>4
    <3>2. QED  BY <2>2, <2>4, <3>1, SMT
  <2>5. QED  BY <1>4, <2>3, <2>4
<1>10. Raw((One \o Text) \o Box)
  <2> DEFINE two == One \o Text
  <2>1. Raw(two) /\ Len(two) <= 2
    BY <1>9
  <2> HIDE DEF two
  <2>2. Raw(two \o <<"videobox">>)
    BY <1>7, <2>1
  <2>3. two \o Box = two \/ two \o Box = two \o <<"videobox">>
    BY <1>8, <1>5, <2>1
  <2> HIDE DEF Raw
  <2>4. Raw(two \o Box)
    BY <2>1, <2>2, <2>3
  <2>5. QED  BY <2>4 DEF two
<1>11. QED  BY <1>3, <1>10 DEF Sink

\* What the elements accept and give
LEMMA ElementFacts ==
    /\ {"vaapih264dec", "openh264dec", "h264parse", "rtph264depay",
        "avdec_mpeg4", "rtpmp4vdepay", "imagefreeze", "videoconvert", "pngdec",
        "jpegdec", "mpeg2dec", "tsdemux", "rtpmp2tdepay", "queue",
        "rtpjitterbuffer", "capsfilter", "udpsrc", "souphttpsrc", "rtspsrc"}
       \subseteq Element
    /\ Accepts("vaapih264dec") = "h264" /\ Gives("vaapih264dec") = "raw"
    /\ Accepts("openh264dec") = "h264" /\ Gives("openh264dec") = "raw"
    /\ Accepts("h264parse") = "h264" /\ Gives("h264parse") = "h264"
    /\ Accepts("rtph264depay") = "rtp" /\ Gives("rtph264depay") = "h264"
    /\ Accepts("avdec_mpeg4") = "mpeg4" /\ Gives("avdec_mpeg4") = "raw"
    /\ Accepts("rtpmp4vdepay") = "rtp" /\ Gives("rtpmp4vdepay") = "mpeg4"
    /\ Accepts("imagefreeze") = "raw" /\ Gives("imagefreeze") = "raw"
    /\ Accepts("videoconvert") = "raw" /\ Gives("videoconvert") = "raw"
    /\ Accepts("pngdec") = "file" /\ Gives("pngdec") = "raw"
    /\ Accepts("jpegdec") = "file" /\ Gives("jpegdec") = "raw"
    /\ Accepts("mpeg2dec") = "mpeg2" /\ Gives("mpeg2dec") = "raw"
    /\ Accepts("tsdemux") = "ts" /\ Gives("tsdemux") = "mpeg2"
    /\ Accepts("rtpmp2tdepay") = "rtp" /\ Gives("rtpmp2tdepay") = "ts"
    /\ Accepts("queue") = "rtp" /\ Gives("queue") = "rtp"
    /\ Accepts("rtpjitterbuffer") = "rtp" /\ Gives("rtpjitterbuffer") = "rtp"
    /\ Accepts("capsfilter") = "packets" /\ Gives("capsfilter") = "rtp"
    /\ Accepts("udpsrc") = "nothing" /\ Gives("udpsrc") = "packets"
    /\ Accepts("souphttpsrc") = "nothing" /\ Gives("souphttpsrc") = "file"
    /\ Accepts("rtspsrc") = "nothing" /\ Gives("rtspsrc") = "rtp"
BY DEF Element, Accepts, Gives

\* Decoders, and what they make a picture of.
LEMMA DecoderChain ==
    ASSUME NEW enc
    PROVE  LET s == Decoder(enc)
           IN  /\ s \in Seq(Element) /\ s # <<>> /\ Len(s) <= 4 /\ Chain(s)
               /\ Gives(s[1]) = "raw"
               /\ Accepts(s[Len(s)]) =
                    IF enc \in {"PNG", "MJPEG"} THEN "file" ELSE "rtp"
<1> DEFINE s == Decoder(enc)
           Good == /\ s \in Seq(Element) /\ s # <<>> /\ Len(s) <= 4 /\ Chain(s)
                   /\ Gives(s[1]) = "raw"
                   /\ Accepts(s[Len(s)]) =
                        IF enc \in {"PNG", "MJPEG"} THEN "file" ELSE "rtp"
<1> SUFFICES Good  OBVIOUS
<1>1. CASE enc = "H264"
  <2> DEFINE dec == IF vaapi THEN "vaapih264dec" ELSE "openh264dec"
  <2>1. s = <<dec, "h264parse", "rtph264depay">>
    BY <1>1 DEF Decoder
  <2>2. dec \in Element /\ Accepts(dec) = "h264" /\ Gives(dec) = "raw"
    BY ElementFacts
  <2> HIDE DEF s, dec
  <2>3. QED  BY <1>1, <2>1, <2>2, ElementFacts, ChainOf3, SMT
<1>2. CASE enc = "MPEG4"
  <2>1. s = <<"avdec_mpeg4", "rtpmp4vdepay">>
    BY <1>2 DEF Decoder
  <2> HIDE DEF s
  <2>2. QED  BY <1>2, <2>1, ElementFacts, ChainOf2, SMT
<1>3. CASE enc = "PNG"
  <2>1. s = <<"imagefreeze", "videoconvert", "pngdec">>
    BY <1>3 DEF Decoder
  <2> HIDE DEF s
  <2>2. QED  BY <1>3, <2>1, ElementFacts, ChainOf3, SMT
<1>4. CASE enc = "MJPEG"
  <2>1. s = <<"jpegdec">>
    BY <1>4 DEF Decoder
  <2> HIDE DEF s
  <2>2. QED  BY <1>4, <2>1, ElementFacts, ChainOf1, SMT
<1>5. CASE enc \notin {"H264", "MPEG4", "PNG", "MJPEG"}
  <2>1. s = <<"mpeg2dec", "tsdemux", "rtpmp2tdepay", "queue">>
    BY <1>5 DEF Decoder
  <2> HIDE DEF s
  <2>2. QED  BY <1>5, <2>1, ElementFacts, ChainOf4, SMT
<1>6. QED  BY <1>1, <1>2, <1>3, <1>4, <1>5

\* Sources, and what they deliver.
LEMMA SourceChain ==
    ASSUME NEW loc
    PROVE  LET s == Source(loc)
           IN  /\ s \in Seq(Element) /\ s # <<>> /\ Len(s) <= 3 /\ Chain(s)
               /\ Accepts(s[Len(s)]) = "nothing"
               /\ Gives(s[1]) = IF Scheme(loc) = "http" THEN "file" ELSE "rtp"
               /\ Scheme(loc) = "udp" => s[1] = "rtpjitterbuffer"
<1> DEFINE s == Source(loc)
           Good == /\ s \in Seq(Element) /\ s # <<>> /\ Len(s) <= 3 /\ Chain(s)
                   /\ Accepts(s[Len(s)]) = "nothing"
                   /\ Gives(s[1]) =
                        IF Scheme(loc) = "http" THEN "file" ELSE "rtp"
                   /\ Scheme(loc) = "udp" => s[1] = "rtpjitterbuffer"
<1> SUFFICES Good  OBVIOUS
<1>1. CASE Scheme(loc) = "udp"
  <2>1. s = <<"rtpjitterbuffer", "capsfilter", "udpsrc">>
    BY <1>1 DEF Source
  <2> HIDE DEF s
  <2>2. QED  BY <1>1, <2>1, ElementFacts, ChainOf3, SMT
<1>2. CASE Scheme(loc) = "http"
  <2>1. s = <<"souphttpsrc">>
    BY <1>2 DEF Source
  <2> HIDE DEF s
  <2>2. QED  BY <1>2, <2>1, ElementFacts, ChainOf1, SMT
<1>3. CASE Scheme(loc) \notin {"udp", "http"}
  <2>1. s = <<"rtspsrc">>
    BY <1>3 DEF Source
  <2> HIDE DEF s
  <2>2. QED  BY <1>3, <2>1, ElementFacts, ChainOf1, SMT
<1>4. QED  BY <1>1, <1>2, <1>3

\* All elements together, the sink first, are a chain from a source to a
\* sink, when the source delivers what the decoder takes.
LEMMA FullChain ==
    ASSUME NEW p
    PROVE  LET s == LaterElements(p) \o Decoder(p.enc) \o Source(p.loc)
           IN  /\ s \in Seq(Element) /\ s # <<>> /\ Len(s) <= MaxElems
               /\ s[1] = LaterElements(p)[1]
               /\ Range(s) = Range(LaterElements(p)) \cup Range(Decoder(p.enc))
                             \cup Range(Source(p.loc))
               /\ p.enc \in {"PNG", "MJPEG"} <=> Scheme(p.loc) = "http"
                  => Chain(s) /\ Accepts(s[Len(s)]) = "nothing"
<1> DEFINE l == LaterElements(p)
           d == Decoder(p.enc)
           c == Source(p.loc)
<1>1. /\ l \in Seq(Element) /\ l # <<>> /\ Len(l) <= 3 /\ Chain(l)
      /\ Accepts(l[Len(l)]) = "raw"
  BY LaterChain
<1>2. /\ d \in Seq(Element) /\ d # <<>> /\ Len(d) <= 4 /\ Chain(d)
      /\ Gives(d[1]) = "raw"
      /\ Accepts(d[Len(d)]) = IF p.enc \in {"PNG", "MJPEG"} THEN "file" ELSE "rtp"
  BY DecoderChain
<1>3. /\ c \in Seq(Element) /\ c # <<>> /\ Len(c) <= 3 /\ Chain(c)
      /\ Accepts(c[Len(c)]) = "nothing"
      /\ Gives(c[1]) = IF Scheme(p.loc) = "http" THEN "file" ELSE "rtp"
  BY SourceChain
<1> HIDE DEF l, d, c
<1>4. /\ l \o d \in Seq(Element) /\ l \o d # <<>> /\ Chain(l \o d)
      /\ (l \o d)[1] = l[1] /\ (l \o d)[Len(l \o d)] = d[Len(d)]
      /\ Len(l \o d) = Len(l) + Len(d)
  BY <1>1, <1>2, ChainConcat
<1>5. /\ (l \o d) \o c \in Seq(Element)
      /\ Len((l \o d) \o c) = Len(l) + Len(d) + Len(c)
      /\ ((l \o d) \o c)[1] = l[1]
  <2>1. Len(l) \in Nat \ {0} /\ Len(d) \in Nat /\ Len(c) \in Nat
    BY <1>1, <1>2, <1>3, EmptySeq
  <2>2. /\ (l \o d) \o c \in Seq(Element)
        /\ Len((l \o d) \o c) = Len(l \o d) + Len(c)
        /\ \A i \in 1 .. Len(l \o d) + Len(c) :
             ((l \o d) \o c)[i] = IF i <= Len(l \o d) THEN (l \o d)[i]
                                ELSE c[i - Len(l \o d)]
    BY <1>3, <1>4, ConcatProperties
  <2>3. ((l \o d) \o c)[1] = (l \o d)[1]
    BY <1>4, <2>1, <2>2, SMT
  <2>4. QED  BY <1>4, <2>2, <2>3
<1>6. Len((l \o d) \o c) \in 1 .. 10
  <2>1. Len(l) \in Nat \ {0} /\ Len(d) \in Nat /\ Len(c) \in Nat
    BY <1>1, <1>2, <1>3, EmptySeq
  <2>2. QED  BY <1>1, <1>2, <1>3, <1>5, <2>1, SMT
<1>7. (l \o d) \o c # <<>> /\ Len((l \o d) \o c) <= MaxElems
  BY <1>5, <1>6, EmptySeq, SMT DEF MaxElems
<1>8. Range((l \o d) \o c) = Range(l) \cup Range(d) \cup Range(c)
  <2>1. Range(l \o d) = Range(l) \cup Range(d)
    BY <1>1, <1>2, RangeConcatenation
  <2>2. Range((l \o d) \o c) = Range(l \o d) \cup Range(c)
    <3> DEFINE ld == l \o d
    <3>1. ld \in Seq(Element) /\ c \in Seq(Element)
      BY <1>3, <1>4
    <3> HIDE DEF ld
    <3>2. Range(ld \o c) = Range(ld) \cup Range(c)
      BY <3>1, RangeConcatenation
    <3>3. QED  BY <3>2 DEF ld
  <2>3. QED  BY <2>1, <2>2
<1>9. ASSUME p.enc \in {"PNG", "MJPEG"} <=> Scheme(p.loc) = "http"
      PROVE  /\ Chain((l \o d) \o c)
             /\ Accepts(((l \o d) \o c)[Len((l \o d) \o c)]) = "nothing"
  <2>1. Gives(c[1]) = Accepts((l \o d)[Len(l \o d)])
    BY <1>2, <1>3, <1>4, <1>9
  <2>2. QED  BY <1>3, <1>4, <2>1, ChainConcat
<1>10. QED  BY <1>5, <1>7, <1>8, <1>9 DEF l, d, c

\* What the properties say of the elements of a pipeline, and that there are
\* no more than slots.
ElemInv ==
    /\ elem \in Seq(Element) /\ Len(elem) <= MaxElems
    /\ PointersLive /\ PictureFlows

\* A pipeline that was just built is as the properties say.
LEMMA StartElems == StreamStartPipe => ElemInv'
<1> SUFFICES ASSUME StreamStartPipe PROVE ElemInv'
  OBVIOUS
<1> DEFINE p == params
           full == LaterElements(p) \o Decoder(p.enc) \o Source(p.loc)
           es == FoldLeft(StreamAdd, <<>>, full)
<1>1. /\ elem' = es /\ playing' = params /\ missing' = missing
      /\ sink' = IF real /\ LaterElements(params)[1] \notin missing
                 THEN LaterElements(params)[1] ELSE None
      /\ jitter' = IF /\ Scheme(params.loc) = "udp"
                      /\ "rtpjitterbuffer" \notin missing
                   THEN "rtpjitterbuffer" ELSE None
  BY DEF StreamStartPipe, Built, fixed
<1>2. /\ full \in Seq(Element) /\ full # <<>> /\ Len(full) <= MaxElems
      /\ full[1] = LaterElements(p)[1]
      /\ Range(full) = Range(LaterElements(p)) \cup Range(Decoder(p.enc))
                       \cup Range(Source(p.loc))
      /\ p.enc \in {"PNG", "MJPEG"} <=> Scheme(p.loc) = "http"
         => Chain(full) /\ Accepts(full[Len(full)]) = "nothing"
  BY FullChain
<1> HIDE DEF full, es, p
<1>3. /\ es \in Seq(Element) /\ Len(es) <= Len(full)
      /\ \A i \in 1 .. Len(full) : full[i] \notin missing => full[i] \in Range(es)
  BY <1>2, AddKeeps DEF es
<1>4. Len(es) <= MaxElems
  BY <1>2, <1>3, SMT DEF MaxElems
<1>5. \A e \in Range(full) : e \notin missing => e \in Range(es)
  BY <1>2, <1>3, RangeEquality
<1>6. PointersLive'
  <2>1. Range(LaterElements(p)) \subseteq Range(full) /\ Range(Source(p.loc)) \subseteq Range(full)
    BY <1>2
  <2>2. LaterElements(p)[1] \in Range(full)
    <3>1. Len(full) \in Nat \ {0}
      BY <1>2, EmptySeq
    <3>2. 1 \in 1 .. Len(full)
      BY <3>1, SMT
    <3>3. QED  BY <1>2, <3>2, RangeEquality
  <2>3. Scheme(p.loc) = "udp" => "rtpjitterbuffer" \in Range(full)
    <3>1. /\ Source(p.loc) \in Seq(Element) /\ Source(p.loc) # <<>>
          /\ Scheme(p.loc) = "udp" => Source(p.loc)[1] = "rtpjitterbuffer"
      BY SourceChain
    <3>2. Len(Source(p.loc)) \in Nat \ {0}
      BY <3>1, EmptySeq
    <3>3. 1 \in 1 .. Len(Source(p.loc))
      BY <3>2, SMT
    <3>4. Source(p.loc)[1] \in Range(Source(p.loc))
      BY <3>1, <3>3, RangeEquality
    <3>5. QED  BY <2>1, <3>1, <3>4
  <2>4. sink' \in {None} \cup Range(es) /\ jitter' \in {None} \cup Range(es)
    BY <1>1, <1>5, <2>2, <2>3 DEF p
  <2>5. QED  BY <1>1, <2>4 DEF PointersLive
<1>7. PictureFlows'
  <2> SUFFICES ASSUME Showable', \A e \in missing : Accepts(e) = Gives(e)
               PROVE  /\ es[1] \in {"glimagesink", "xvimagesink", "fakesink"}
                      /\ \A i \in 2 .. Len(es) : Gives(es[i]) = Accepts(es[i - 1])
                      /\ Accepts(Last(es)) = "nothing"
    BY <1>1 DEF PictureFlows
  <2>1. p.enc \in {"PNG", "MJPEG"} <=> Scheme(p.loc) = "http"
    BY <1>1 DEF Showable, p
  <2>2. Chain(full) /\ Accepts(full[Len(full)]) = "nothing"
    BY <1>2, <2>1
  <2>3. full[1] \in {"glimagesink", "xvimagesink", "fakesink"}
    BY <1>2, LaterChain
  <2>4. Accepts(full[1]) = "raw" /\ Gives(full[1]) = "nothing"
    BY <2>3 DEF Accepts, Gives
  <2>5. full[1] \notin missing
    BY <2>4
  <2>6. /\ es \in Seq(Element) /\ es # <<>> /\ es[1] = full[1] /\ Chain(es)
        /\ Accepts(es[Len(es)]) = Accepts(full[Len(full)])
    BY <1>2, <2>2, <2>5, AddChain DEF es
  <2>7. QED  BY <2>2, <2>3, <2>6 DEF Chain, Last
<1>8. QED  BY <1>1, <1>3, <1>4, <1>6, <1>7 DEF ElemInv

\* Every step keeps the elements of the pipeline in order.
LEMMA ElemStep == ElemInv /\ [StreamNext]_streamVars => ElemInv'
<1> SUFFICES ASSUME ElemInv, [StreamNext]_streamVars PROVE ElemInv'
  OBVIOUS
<1>1. CASE StreamStartPipe
  BY <1>1, StartElems
<1>2. CASE StreamStopPipeline \/ StreamReinit
  <2>1. elem' = <<>> /\ sink' = None /\ jitter' = None
    BY <1>2 DEF StreamStopPipeline, StreamReinit
  <2>2. <<>> \in Seq(Element) /\ Len(<<>>) <= MaxElems
    BY SMT DEF MaxElems
  <2>3. QED  BY <2>1, <2>2 DEF ElemInv, PointersLive, PictureFlows
<1>3. CASE UNCHANGED <<elem, sink, jitter, playing, missing>>
  BY <1>3 DEF ElemInv, PointersLive, PictureFlows, Showable
<1>4. QED
  BY <1>1, <1>2, <1>3
     DEF StreamNext, StreamSetParams, StreamSetCrop, StreamStart,
         StreamMsgPlaying, JitterPushed, StreamStats, streamVars, pipeline, fixed

\* The elements are in order in every reachable state.
LEMMA ElemInvariant == StreamSpec => []ElemInv
<1>1. StreamInit => ElemInv
  <2>1. <<>> \in Seq(Element) /\ Len(<<>>) <= MaxElems
    BY SMT DEF MaxElems
  <2>2. QED
    BY <2>1 DEF StreamInit, ElemInv, PointersLive, PictureFlows
<1>2. QED  BY <1>1, ElemStep, PTL DEF StreamSpec

\* The pointers the timers of the grid use are to elements of the running
\* pipeline, whatever plug-ins are installed (stream_remove_all).
THEOREM StreamPointersLive == StreamSpec => []PointersLive
<1>1. ElemInv => PointersLive
  BY DEF ElemInv
<1>2. QED  BY <1>1, ElemInvariant, PTL

\* Each element is fed what it accepts, from a source down to a sink, for
\* every set of plug-ins that are missing and only hand on what they are
\* given (stream_add).
THEOREM StreamPictureFlows == StreamSpec => []PictureFlows
<1>1. ElemInv => PictureFlows
  BY DEF ElemInv
<1>2. QED  BY <1>1, ElemInvariant, PTL

\* A stream keeps its types, and no more elements than slots.
LEMMA StreamTypeStep ==
    StreamTypeOK /\ ElemInv /\ [StreamNext]_streamVars => StreamTypeOK'
<1> SUFFICES ASSUME StreamTypeOK, ElemInv, [StreamNext]_streamVars
             PROVE  StreamTypeOK'
  OBVIOUS
<1>1. Len(elem') <= MaxElems
  BY ElemStep DEF ElemInv
<1> USE DEF streamVars, settings, fixed, pipeline, counters
<1>2. ASSUME NEW p \in Params, StreamSetParams(p) PROVE StreamTypeOK'
  BY <1>2, ParamsAssumption DEF StreamSetParams, StreamTypeOK
<1>3. ASSUME NEW c \in Crops, StreamSetCrop(c[1], c[2]) PROVE StreamTypeOK'
  <2>1. c[1] \in Seq(Int) /\ c[2] \in Nat
    BY CropsAssumption
  <2>2. Len(c[1]) \in Nat /\ \A i \in 1 .. Len(c[1]) : c[1][i] \in Int
    BY <2>1
  <2>3. crop \in [1 .. 4 -> Int]
    BY DEF StreamTypeOK
  <2>4. crop' \in [1 .. 4 -> Int]
    BY <1>3, <2>2, <2>3, SMT DEF StreamSetCrop, NUL
  <2>5. QED  BY <1>3, <2>1, <2>4 DEF StreamSetCrop, StreamTypeOK
<1>4. CASE StreamStopPipeline
  BY <1>1, <1>4 DEF StreamStopPipeline, StreamTypeOK
<1>5. CASE StreamStartPipe
  <2>1. params.loc \in Location /\ params.sprops \in Desc \cup {None}
    BY DEF StreamTypeOK
  <2>2. /\ from' \in Location \cup {TestNet, None}
        /\ caps' \in Desc \cup {None}
    BY <1>5, <2>1 DEF StreamStartPipe, SourceLocation, SourceCaps
  <2>3. real => LaterElements(params)[1] \in {"glimagesink", "xvimagesink"}
    BY LaterChain
  <2>4. sink' \in {None, "glimagesink", "xvimagesink"}
    BY <1>5, <2>3 DEF StreamStartPipe
  <2>5. jitter' \in {None, "rtpjitterbuffer"} /\ state' = "started"
    BY <1>5 DEF StreamStartPipe
  <2>6. UNCHANGED <<params, crop, gap, real, vaapi>>
    BY <1>5 DEF StreamStartPipe
  <2>7. counted' = 0 /\ pushed' = 0 /\ shown' = 0
    BY <1>5 DEF StreamStartPipe
  <2>8. QED  BY <1>1, <2>2, <2>4, <2>5, <2>6, <2>7 DEF StreamTypeOK
<1>6. CASE StreamReinit
  BY <1>1, <1>6, SMT
     DEF StreamReinit, StreamTypeOK, NoParams, NUL, Location, Plain, Encoding
<1>7. ASSUME NEW w \in Width, StreamMsgPlaying(w) PROVE StreamTypeOK'
  BY <1>7 DEF StreamMsgPlaying, StreamTypeOK
<1>8. CASE JitterPushed
  BY <1>8 DEF JitterPushed, StreamTypeOK
<1>9. CASE StreamStats
  BY <1>9 DEF StreamStats, StreamTypeOK, PktCount
<1>10. CASE UNCHANGED streamVars
  BY <1>10 DEF StreamTypeOK
<1>11. QED
  BY <1>2, <1>3, <1>4, <1>5, <1>6, <1>7, <1>8, <1>9, <1>10
     DEF StreamNext, StreamStart

\* The types hold in every reachable state.
LEMMA StreamTypeInvariant == StreamSpec => []StreamTypeOK
<1>1. StreamInit => StreamTypeOK
  BY HostsAssumption, SMT
     DEF StreamInit, StreamTypeOK, NoParams, NUL, Location, Plain, Encoding,
         MaxElems
<1>2. QED  BY <1>1, StreamTypeStep, ElemInvariant, PTL DEF StreamSpec

----------------------------------------------------------------------------
(* Descriptions *)

\* What the cell is told is an address with the parameter sets of its own
\* description, or a plain location with none.
Whole(p) == p.sprops = IF p.loc \in Desc THEN p.loc ELSE None

\* sdp->udp and sdp->sprops are of one description, or there is none.
OneSdp(s) == s = NoSdp \/ \E d \in Desc : s = [udp |-> d, sprops |-> d]

SdpInv ==
    /\ cmd \in Plays \cup {NoPlay}
    /\ OneSdp(sdp)
    /\ Whole(params)

\* What parsing yields is one description, or none (sdp_data_parse).
LEMMA ParsedWhole ==
    ASSUME NEW text, NEW old, OneSdp(old)
    PROVE  OneSdp(Parsed(text, old))
BY DEF Parsed, OneSdp

\* What the cell is told is what the command and the description say, but for
\* the text overlay.
LEMMA Told ==
    ASSUME NEW c \in Plays \cup {NoPlay}, NEW s,
           PlayStream(PlayParams(c, s))
    PROVE  /\ params' = [PlayParams(c, s) EXCEPT !.desc = c.desc /\ ~mid]
           /\ params' \in {PlayParams(c, s), [PlayParams(c, s) EXCEPT !.desc = FALSE]}
           /\ params'.loc = PlayParams(c, s).loc
           /\ params'.sprops = PlayParams(c, s).sprops
<1>1. c.desc \in BOOLEAN
  <2>1. NoPlay.desc \in BOOLEAN
    BY DEF NoPlay
  <2>2. QED  BY <2>1, PlaysAssumption
<1>2. params' = [PlayParams(c, s) EXCEPT !.desc = c.desc /\ ~mid]
  BY DEF PlayStream, StreamSetParams, PlayParams
<1>3. CASE mid
  <2>1. (c.desc /\ ~mid) = FALSE
    BY <1>3
  <2>2. QED  BY <1>2, <2>1 DEF PlayParams
<1>4. CASE ~mid
  <2>1. (c.desc /\ ~mid) = c.desc
    BY <1>1, <1>4
  <2>2. QED  BY <1>2, <2>1 DEF PlayParams
<1>5. QED  BY <1>3, <1>4

\* What the cell is told comes from one description, or none.
LEMMA PlayParamsWhole ==
    ASSUME NEW c \in Plays \cup {NoPlay}, NEW s, OneSdp(s)
    PROVE  Whole(PlayParams(c, s))
<1>1. c.loc \in Plain
  BY PlaysAssumption DEF NoPlay, Plain
<1>2. CASE s = NoSdp
  BY <1>1, <1>2, DescAssumption DEF Whole, PlayParams, NoSdp
<1>3. ASSUME NEW d \in Desc, s = [udp |-> d, sprops |-> d]
      PROVE  Whole(PlayParams(c, s))
  BY <1>3, DescAssumption DEF Whole, PlayParams
<1>4. QED  BY <1>2, <1>3 DEF OneSdp

\* Steps that do not set parameters leave them alone.
LEMMA ParamsKept ==
    /\ \A c, g : StreamSetCrop(c, g) => params' = params
    /\ StreamStart \/ StreamStopPipeline \/ JitterPushed \/ StreamStats
       => params' = params
    /\ \A w : StreamMsgPlaying(w) => params' = params
    /\ UNCHANGED streamVars => params' = params
    /\ UNCHANGED cellVars => params' = params
BY DEF StreamSetCrop, StreamStart, StreamStartPipe, StreamStopPipeline,
       JitterPushed, StreamStats, StreamMsgPlaying, streamVars, settings, cellVars

\* Every step keeps the parameters whole.
LEMMA SdpStep == SdpInv /\ [Next]_vars => SdpInv'
<1> SUFFICES ASSUME SdpInv, [Next]_vars PROVE SdpInv'
  OBVIOUS
<1> USE DEF SdpInv
<1>1. Whole(NoParams) /\ OneSdp(NoSdp)
  BY DescAssumption DEF Whole, OneSdp, NoParams, Plain
<1>2. ASSUME NEW c \in Plays, NEW save, Recv(c, save), params' = params
      PROVE  SdpInv'
  BY <1>1, <1>2, ParsedWhole DEF Recv, Whole
<1>3. ASSUME UNCHANGED <<cmd, sdp, params>> PROVE SdpInv'
  BY <1>3 DEF OneSdp, Whole
<1>4. ASSUME PlayStream(PlayParams(cmd, sdp)), UNCHANGED <<cmd, sdp>> PROVE SdpInv'
  <2>1. Whole(params')
    BY <1>4, Told, PlayParamsWhole DEF Whole
  <2>2. QED  BY <1>4, <2>1 DEF OneSdp, Whole
<1>5. CASE Command
  <2>1. ASSUME NEW c \in Plays, RecvPlay(c) PROVE SdpInv'
    BY <1>2, <2>1, ParamsKept DEF RecvPlay
  <2>2. CASE Reload
    BY <1>2, <1>3, <2>2, ParamsKept DEF Reload
  <2>3. CASE Play
    BY <1>3, <1>4, <2>3, ParamsKept DEF Play
  <2>4. CASE OpenPlay \/ WritePlay \/ OpenCache \/ WriteCache
    BY <1>3, <2>4, ParamsKept DEF OpenPlay, WritePlay, OpenCache, WriteCache
  <2>5. ASSUME NEW text \in Desc \cup {None, Garbled}, Fetch(text)
        PROVE  SdpInv'
    BY <2>5, ParsedWhole, ParamsKept DEF Fetch, Whole
  <2>6. CASE Replay
    BY <1>4, <2>6 DEF Replay
  <2>7. ASSUME NEW text \in Desc \cup {Empty}, FetchElsewhere(text) PROVE SdpInv'
    BY <1>3, <2>7, ParamsKept DEF FetchElsewhere, playerVars
  <2>8. ASSUME NEW c \in Crops, NEW titled \in BOOLEAN, Monitor(c, titled)
        PROVE  SdpInv'
    BY <1>3, <2>8, ParamsKept DEF Monitor, playerVars
  <2>9. CASE ConfigZero
    BY <1>3, <2>9, ParamsKept DEF ConfigZero, playerVars
  <2>10. CASE ConfigCount
    BY <1>1, <2>10 DEF ConfigCount, StreamReinit, OneSdp, Whole
  <2>11. QED
    BY <1>5, <2>1, <2>2, <2>3, <2>4, <2>5, <2>6, <2>7, <2>8, <2>9, <2>10 DEF Command
<1>6. CASE Fail \/ DoStopStream \/ DoRestart \/ InPipeline
  BY <1>3, <1>6, ParamsKept
     DEF Fail, DoStopStream, DoRestart, InPipeline, playerVars
<1>7. CASE Crash
  BY <1>1, <1>7 DEF Crash, StreamReinit, OneSdp, Whole
<1>8. CASE UNCHANGED vars
  BY <1>3, <1>8, ParamsKept DEF vars, cellVars, playerVars
<1>9. QED  BY <1>5, <1>6, <1>7, <1>8 DEF Next

\* The pipeline was built from whole parameters.
PipeInv ==
    /\ caps # None => caps = from
    /\ from \in Desc => caps = from \/ playing.enc = "MPEG2"

\* How each step changes the pipeline.
LEMMA PipeSteps ==
    ASSUME [Next]_vars
    PROVE  \/ StreamStopPipeline \/ StreamStartPipe \/ StreamReinit
           \/ UNCHANGED <<from, caps, playing>>
<1> USE DEF streamVars, pipeline
<1>1. UNCHANGED cellVars => UNCHANGED <<from, caps, playing>>
  BY DEF cellVars
<1>2. ASSUME NEW p, PlayStream(p) PROVE UNCHANGED <<from, caps, playing>>
  BY <1>2 DEF PlayStream, StreamSetParams
<1>3. CASE Command
  <2>1. ASSUME NEW c \in Crops, NEW titled \in BOOLEAN, Monitor(c, titled)
        PROVE  UNCHANGED <<from, caps, playing>>
    BY <1>1, <2>1 DEF Monitor, StreamSetCrop
  <2>2. Play \/ Replay => UNCHANGED <<from, caps, playing>>
    BY <1>1, <1>2 DEF Play, Replay
  <2>3. QED
    BY <1>1, <1>3, <2>1, <2>2
       DEF Command, RecvPlay, Reload, OpenPlay, WritePlay, Fetch, OpenCache,
           WriteCache, FetchElsewhere, ConfigZero, ConfigCount
<1>4. CASE Fail \/ DoStopStream \/ DoRestart \/ InPipeline \/ Crash
  BY <1>4 DEF Fail, DoStopStream, DoRestart, StreamStart, InPipeline,
              JitterPushed, StreamStats, StreamMsgPlaying, Crash
<1>5. CASE UNCHANGED vars
  BY <1>1, <1>5 DEF vars
<1>6. QED  BY <1>3, <1>4, <1>5 DEF Next

\* Every step keeps the pipeline that of whole parameters.
LEMMA PipeStep == SdpInv /\ PipeInv /\ [Next]_vars => PipeInv'
<1> SUFFICES ASSUME SdpInv, PipeInv, [Next]_vars PROVE PipeInv'
  OBVIOUS
<1>1. CASE StreamStartPipe
  <2>1. /\ playing' = params
        /\ from' = SourceLocation(params)
        /\ caps' = IF Scheme(params.loc) = "udp" THEN SourceCaps(params)
                   ELSE None
    BY <1>1 DEF StreamStartPipe
  <2>2. CASE params.loc \in Desc
    <3>1. Scheme(params.loc) = "udp" /\ params.sprops = params.loc
      BY <2>2 DEF Scheme, SdpInv, Whole
    <3>2. from' = params.loc
      BY <2>1, <3>1 DEF SourceLocation
    <3>3. QED  BY <2>1, <3>1, <3>2 DEF PipeInv, SourceCaps
  <2>3. CASE params.loc \notin Desc
    <3>1. caps' = None
      BY <2>1, <2>3 DEF SdpInv, Whole, SourceCaps
    <3>2. from' \notin Desc
      BY <2>1, <2>3, DescAssumption DEF SourceLocation, Scheme
    <3>3. QED  BY <3>1, <3>2 DEF PipeInv
  <2>4. QED  BY <2>2, <2>3
<1>2. CASE StreamStopPipeline \/ StreamReinit
  BY <1>2, DescAssumption DEF StreamStopPipeline, StreamReinit, PipeInv
<1>3. CASE UNCHANGED <<from, caps, playing>>
  BY <1>3 DEF PipeInv
<1>4. QED  BY <1>1, <1>2, <1>3, PipeSteps

\* What the cell is told and what it plays are whole in every reachable state.
LEMMA WholeInvariant == Spec => [](SdpInv /\ PipeInv)
<1>1. Init => SdpInv /\ PipeInv
  BY DescAssumption
     DEF Init, StreamInit, SdpInv, PipeInv, Whole, OneSdp, NoParams, Plain
<1>2. QED  BY <1>1, SdpStep, PipeStep, PTL DEF Spec

\* An address is only ever used with the parameter sets of its own
\* description, also when a new one arrives between two timers (player_play).
THEOREM SpecDescriptionWhole == Spec => []DescriptionWhole
<1>1. SdpInv /\ PipeInv => DescriptionWhole
  BY DEF SdpInv, PipeInv, Whole, DescriptionWhole
<1>2. QED  BY <1>1, WholeInvariant, PTL

----------------------------------------------------------------------------
(* From command to command *)

\* What the cache has for a command.
FromCache(c) == IF IsSdp(c) THEN Parsed(cache, NoSdp) ELSE NoSdp

\* What the cell was told is what a command and a description say.
PlayedAs(c, s) ==
    params \in {PlayParams(c, s), [PlayParams(c, s) EXCEPT !.desc = FALSE]}

PhaseInv ==
    /\ phase \notin {"start", "recv"} => cmd \in Plays
    /\ phase = "start" => /\ params = NoParams /\ ~configuring
                          /\ got = None /\ ~newer /\ failed = {}
    /\ phase \in {"play", "open", "write", "fetch"} =>
         /\ sdp = FromCache(cmd) /\ got = None /\ ~newer
         /\ IsSdp(cmd) => cached = cache
    /\ phase = "play" => failed = {} /\ (~store => file = cmd)
    /\ phase \in {"open", "write", "fetch"} => configuring \/ PlayedAs(cmd, sdp)
    /\ phase \in {"fetch", "open_cache", "write_cache", "replay"} =>
         IsSdp(cmd) /\ (file = cmd \/ "play" \in failed)
    /\ phase \in {"open_cache", "write_cache", "replay"} =>
         /\ fetch \in Desc /\ got = fetch
         /\ sdp = [udp |-> fetch, sprops |-> fetch]
    /\ phase = "replay" => cache = fetch \/ "cache" \in failed

PlayInv == PhaseInv /\ FetchedPlays /\ RestartPlaysSame

\* A command that is received or reloaded starts a new play.
LEMMA RecvStep ==
    ASSUME NEW c \in Plays, NEW save, Recv(c, save),
           UNCHANGED <<diskVars, params>>, save = TRUE \/ file = c
    PROVE  PlayInv'
<1> USE DEF Recv, diskVars
<1>1. phase' = "play" /\ cmd' = c
  OBVIOUS
<1>2. PhaseInv'
  BY <1>1 DEF PhaseInv, FromCache, Parsed, IsSdp
<1>3. QED  BY <1>1, <1>2 DEF PlayInv, FetchedPlays, RestartPlaysSame

\* Playing brings the cell to what command and description say, or leaves it
\* alone in config mode.
LEMMA PlayStep == SdpInv /\ PlayInv /\ Play => PlayInv'
<1> SUFFICES ASSUME SdpInv, PlayInv, Play PROVE PlayInv'
  OBVIOUS
<1>1. /\ phase = "play" /\ phase' = IF store THEN "open" ELSE "recv"
      /\ UNCHANGED <<cmd, store, sdp, cached, fetch, configuring, file, cache,
                     got, newer, failed>>
  BY DEF Play, diskVars, history
<1>2. /\ cmd \in Plays /\ sdp = FromCache(cmd) /\ got = None /\ ~newer
      /\ IsSdp(cmd) => cached = cache
      /\ failed = {} /\ (~store => file = cmd)
  BY <1>1 DEF PlayInv, PhaseInv
<1>3. configuring \/ PlayedAs(cmd, sdp)'
  <2>1. CASE ~configuring
    <3>1. PlayStream(PlayParams(cmd, sdp))
      BY <2>1 DEF Play
    <3>2. QED  BY <1>1, <1>2, <3>1, Told DEF PlayedAs, PlayParams
  <2>2. QED  BY <2>1
<1>4. FromCache(cmd)' = FromCache(cmd) /\ IsSdp(cmd)' = IsSdp(cmd)
  BY <1>1 DEF FromCache, Parsed, IsSdp
<1>5. PhaseInv'
  BY <1>1, <1>2, <1>3, <1>4 DEF PhaseInv
<1>6. RestartPlaysSame'
  <2>1. CASE store
    BY <1>1, <2>1 DEF RestartPlaysSame
  <2>2. CASE ~store
    BY <1>1, <1>2, <1>3, <2>2
       DEF RestartPlaysSame, PlayedAs, FromCache, Parsed, IsSdp, PlayParams
  <2>3. QED  BY <2>1, <2>2
<1>7. QED  BY <1>1, <1>2, <1>5, <1>6 DEF PlayInv, FetchedPlays

\* A new description is what the cell plays, and what the cache holds unless
\* its store failed.
LEMMA ReplayStep == SdpInv /\ PlayInv /\ Replay => PlayInv'
<1> SUFFICES ASSUME SdpInv, PlayInv, Replay PROVE PlayInv'
  OBVIOUS
<1>1. /\ phase = "replay" /\ phase' = "recv"
      /\ UNCHANGED <<cmd, store, sdp, cached, fetch, configuring, file, cache,
                     got, newer, failed>>
  BY DEF Replay, diskVars, history
<1>2. /\ cmd \in Plays /\ IsSdp(cmd) /\ (file = cmd \/ "play" \in failed)
      /\ fetch \in Desc /\ got = fetch /\ (cache = fetch \/ "cache" \in failed)
      /\ sdp = [udp |-> fetch, sprops |-> fetch]
  BY <1>1 DEF PlayInv, PhaseInv
<1>3. /\ params' \in {PlayParams(cmd, sdp), [PlayParams(cmd, sdp) EXCEPT !.desc = FALSE]}
      /\ params'.loc = PlayParams(cmd, sdp).loc
      /\ params'.sprops = PlayParams(cmd, sdp).sprops
  BY <1>2, Told DEF Replay
<1>4. PlayParams(cmd, sdp).loc = fetch /\ PlayParams(cmd, sdp).sprops = fetch
  BY <1>2, DescAssumption DEF PlayParams
<1>5. FetchedPlays'
  BY <1>1, <1>2, <1>3, <1>4 DEF FetchedPlays
<1>6. RestartPlaysSame'
  <2>1. CASE failed = {}
    <3>1. file \in Plays /\ file = cmd /\ Parsed(cache, NoSdp) = sdp
      BY <1>2, <2>1 DEF Parsed
    <3>2. QED
      BY <1>1, <1>2, <1>3, <3>1 DEF RestartPlaysSame, PlayParams, Parsed, IsSdp
  <2>2. CASE failed # {}
    BY <1>1, <2>2 DEF RestartPlaysSame
  <2>3. QED  BY <2>1, <2>2
<1>7. PhaseInv'
  BY <1>1 DEF PhaseInv
<1>8. QED  BY <1>5, <1>6, <1>7 DEF PlayInv

\* Storing the command disturbs nothing else, nor does failing to.
LEMMA StorePlayStep == PlayInv /\ (OpenPlay \/ WritePlay) => PlayInv'
<1> SUFFICES ASSUME PlayInv, OpenPlay \/ WritePlay PROVE PlayInv'
  OBVIOUS
<1>1. /\ phase \in {"open", "write"}
      /\ UNCHANGED <<cmd, store, sdp, cached, fetch, configuring, cache,
                     got, newer, params>>
  BY ParamsKept DEF OpenPlay, WritePlay
<1>2. /\ cmd \in Plays /\ sdp = FromCache(cmd) /\ got = None /\ ~newer
      /\ IsSdp(cmd) => cached = cache
      /\ configuring \/ PlayedAs(cmd, sdp)
  BY <1>1 DEF PlayInv, PhaseInv
<1>3. /\ FromCache(cmd)' = FromCache(cmd) /\ IsSdp(cmd)' = IsSdp(cmd)
      /\ PlayedAs(cmd, sdp)' = PlayedAs(cmd, sdp)
  BY <1>1 DEF FromCache, Parsed, IsSdp, PlayedAs, PlayParams
<1>4. CASE phase' = "write"
  <2>1. PhaseInv'
    BY <1>1, <1>2, <1>3, <1>4 DEF PhaseInv
  <2>2. QED  BY <1>4, <2>1 DEF PlayInv, FetchedPlays, RestartPlaysSame
<1>5. CASE phase' = AfterStore /\ (file' = cmd \/ "play" \in failed')
  <2>1. PhaseInv'
    BY <1>1, <1>2, <1>3, <1>5 DEF PhaseInv, AfterStore
  <2>2. FetchedPlays'
    BY <1>1, <1>2 DEF FetchedPlays
  <2>3. RestartPlaysSame'
    BY <1>1, <1>2, <1>5
       DEF RestartPlaysSame, PlayedAs, FromCache, Parsed, IsSdp, PlayParams,
           AfterStore
  <2>4. QED  BY <2>1, <2>2, <2>3 DEF PlayInv
<1>6. QED  BY <1>4, <1>5 DEF OpenPlay, WritePlay, Fails

\* Storing the description disturbs nothing else, nor does failing to.
LEMMA StoreCacheStep == PlayInv /\ (OpenCache \/ WriteCache) => PlayInv'
<1> SUFFICES ASSUME PlayInv, OpenCache \/ WriteCache PROVE PlayInv'
  OBVIOUS
<1>1. /\ phase \in {"open_cache", "write_cache"}
      /\ phase' \in {"write_cache", "replay"}
      /\ phase' = "replay" => cache' = fetch \/ "cache" \in failed'
      /\ "play" \in failed => "play" \in failed'
      /\ UNCHANGED <<cmd, sdp, fetch, file, got>>
  BY DEF OpenCache, WriteCache, Fails
<1>2. IsSdp(cmd)' = IsSdp(cmd)
  BY <1>1 DEF IsSdp
<1>3. PhaseInv'
  BY <1>1, <1>2 DEF PlayInv, PhaseInv
<1>4. QED  BY <1>1, <1>3 DEF PlayInv, FetchedPlays, RestartPlaysSame

\* A description that arrives is stored only when it is new.
LEMMA FetchStep ==
    ASSUME PlayInv, NEW text \in Desc \cup {None, Garbled}, Fetch(text)
    PROVE  PlayInv'
<1>1. /\ phase = "fetch" /\ fetch' = text /\ sdp' = Parsed(text, sdp)
      /\ got' = IF text \in Desc THEN text ELSE got
      /\ phase' = IF text \in Desc /\ text # cached THEN "open_cache"
                  ELSE "recv"
      /\ UNCHANGED <<cmd, store, cached, configuring, file, cache, newer, failed,
                     params>>
  BY ParamsKept DEF Fetch, diskVars
<1>2. /\ cmd \in Plays /\ (file = cmd \/ "play" \in failed)
      /\ IsSdp(cmd) /\ cached = cache
      /\ sdp = Parsed(cache, NoSdp) /\ got = None /\ ~newer
      /\ configuring \/ PlayedAs(cmd, sdp)
  BY <1>1 DEF PlayInv, PhaseInv, FromCache
<1>3. CASE text \in Desc /\ text # cached
  <2>1. PhaseInv'
    BY <1>1, <1>2, <1>3 DEF PhaseInv, Parsed, IsSdp
  <2>2. QED
    BY <1>1, <1>3, <2>1 DEF PlayInv, FetchedPlays, RestartPlaysSame
<1>4. CASE ~(text \in Desc /\ text # cached)
  <2>1. PhaseInv'
    BY <1>1, <1>4 DEF PhaseInv
  <2>2. RestartPlaysSame'
    BY <1>1, <1>2 DEF RestartPlaysSame, PlayedAs, PlayParams, Parsed, IsSdp
  <2>3. FetchedPlays'
    <3>1. CASE text \in Desc /\ ~configuring
      <4>1. text = cache /\ got' = text
        BY <1>1, <1>2, <1>4, <3>1
      <4>2. sdp = [udp |-> text, sprops |-> text]
        BY <1>2, <3>1, <4>1 DEF Parsed
      <4>3. params.loc = text /\ params.sprops = text
        BY <1>2, <3>1, <4>2, DescAssumption DEF PlayedAs, PlayParams
      <4>4. QED  BY <1>1, <4>1, <4>3 DEF FetchedPlays
    <3>2. CASE text \notin Desc \/ configuring
      BY <1>1, <1>2, <3>2 DEF FetchedPlays
    <3>3. QED  BY <3>1, <3>2
  <2>4. QED  BY <2>1, <2>2, <2>3 DEF PlayInv
<1>5. QED  BY <1>3, <1>4

\* Every step keeps cell, command and cache together.
LEMMA PlayInvStep == SdpInv /\ PlayInv /\ [Next]_vars => PlayInv'
<1> SUFFICES ASSUME SdpInv, PlayInv, [Next]_vars PROVE PlayInv'
  OBVIOUS
<1>1. ASSUME UNCHANGED <<playerVars, configuring, params, diskVars, history>>
      PROVE  PlayInv'
  BY <1>1
     DEF playerVars, diskVars, history, PlayInv, PhaseInv, FetchedPlays,
         RestartPlaysSame, FromCache, PlayedAs, Parsed, IsSdp, PlayParams
<1>2. ASSUME phase' = "start", params' = NoParams, ~configuring', got' = None,
             ~newer', failed' = {}
      PROVE  PlayInv'
  BY <1>2 DEF PlayInv, PhaseInv, FetchedPlays, RestartPlaysSame
<1>3. CASE Command
  <2>1. ASSUME NEW c \in Plays, RecvPlay(c) PROVE PlayInv'
    BY <2>1, RecvStep, ParamsKept DEF RecvPlay
  <2>2. CASE Reload
    <3>1. CASE file \in Plays
      BY <2>2, <3>1, RecvStep, ParamsKept DEF Reload
    <3>2. CASE file \notin Plays
      <4>1. /\ phase = "start" /\ phase' = "recv"
            /\ UNCHANGED <<got, newer, failed, configuring, file, cache, params>>
        BY <2>2, <3>2, ParamsKept DEF Reload, history, diskVars
      <4>2. params = NoParams /\ got = None
        BY <4>1 DEF PlayInv, PhaseInv
      <4>3. QED
        BY <3>2, <4>1, <4>2
           DEF PlayInv, PhaseInv, FetchedPlays, RestartPlaysSame
    <3>3. QED  BY <3>1, <3>2
  <2>3. CASE Play
    BY <2>3, PlayStep
  <2>4. CASE Replay
    BY <2>4, ReplayStep
  <2>5. CASE OpenPlay \/ WritePlay
    BY <2>5, StorePlayStep
  <2>6. CASE OpenCache \/ WriteCache
    BY <2>6, StoreCacheStep
  <2>7. ASSUME NEW text \in Desc \cup {None, Garbled}, Fetch(text)
        PROVE  PlayInv'
    BY <2>7, FetchStep
  <2>8. ASSUME NEW text \in Desc \cup {Empty}, FetchElsewhere(text) PROVE PlayInv'
    <3>1. /\ phase = "recv" /\ phase' = "recv" /\ newer'
          /\ UNCHANGED <<got, configuring, params>>
      BY <2>8, ParamsKept DEF FetchElsewhere, playerVars
    <3>2. QED
      BY <3>1 DEF PlayInv, PhaseInv, FetchedPlays, RestartPlaysSame
  <2>9. ASSUME NEW c \in Crops, NEW titled \in BOOLEAN, Monitor(c, titled)
        PROVE  PlayInv'
    BY <1>1, <2>9, ParamsKept DEF Monitor
  <2>10. CASE ConfigZero
    <3>1. phase' = "recv" /\ configuring'
      BY <2>10 DEF ConfigZero, playerVars
    <3>2. QED
      BY <3>1 DEF PlayInv, PhaseInv, FetchedPlays, RestartPlaysSame
  <2>11. CASE ConfigCount
    BY <1>2, <2>11 DEF ConfigCount, StreamReinit
  <2>12. QED
    BY <1>3, <2>1, <2>2, <2>3, <2>4, <2>5, <2>6, <2>7, <2>8, <2>9, <2>10, <2>11
       DEF Command
<1>4. CASE Fail \/ DoStopStream \/ DoRestart \/ InPipeline
  BY <1>1, <1>4, ParamsKept DEF Fail, DoStopStream, DoRestart, InPipeline
<1>5. CASE Crash
  BY <1>2, <1>5 DEF Crash, StreamReinit
<1>6. CASE UNCHANGED vars
  BY <1>1, <1>6, ParamsKept DEF vars
<1>7. QED  BY <1>3, <1>4, <1>5, <1>6 DEF Next

\* Cell, command and cache belong together in every reachable state.
LEMMA PlayInvariant == Spec => []PlayInv
<1>1. Init => PlayInv
  BY DEF Init, StreamInit, PlayInv, PhaseInv, FetchedPlays, RestartPlaysSame
<1>2. QED  BY <1>1, PlayInvStep, WholeInvariant, PTL DEF Spec

\* A cell plays the description its server sent last, whatever was cached;
\* and the cache holds it for the next start, unless it could not be stored
\* or another monitor has stored another (sdp_data_into_cache, config_store).
THEOREM SpecFetchedPlays == Spec => []FetchedPlays
<1>1. PlayInv => FetchedPlays
  BY DEF PlayInv
<1>2. QED  BY <1>1, PlayInvariant, PTL

\* Killing and starting the program between two commands changes nothing of
\* what a cell plays but its text overlay, if the last command was stored and
\* no other monitor renewed the description (player_load_cmd, config_store).
THEOREM SpecRestartPlaysSame == Spec => []RestartPlaysSame
<1>1. PlayInv => RestartPlaysSame
  BY DEF PlayInv
<1>2. QED  BY <1>1, PlayInvariant, PTL

----------------------------------------------------------------------------
(* Config mode *)

\* What is on its way into the cache is not what came from there.
NewInv == phase \in {"open_cache", "write_cache", "replay"} => fetch # cached

\* Only Fetch goes there, and only with another description.
LEMMA NewInvariant == Spec => []NewInv
<1>1. Init => NewInv
  BY DEF Init, NewInv
<1>2. NewInv /\ [Next]_vars => NewInv'
  <2> SUFFICES ASSUME NewInv, [Next]_vars PROVE NewInv'
    OBVIOUS
  <2>1. CASE Command
    BY <2>1 DEF NewInv, Command, RecvPlay, Reload, Recv, Play, OpenPlay, WritePlay,
       AfterStore, Fetch, OpenCache, WriteCache, Replay, FetchElsewhere, Monitor,
       ConfigZero, ConfigCount, playerVars
  <2>2. CASE Fail \/ DoStopStream \/ DoRestart \/ InPipeline \/ Crash
    BY <2>2 DEF NewInv, Fail, DoStopStream, DoRestart, InPipeline, Crash, playerVars
  <2>3. CASE UNCHANGED vars
    BY <2>3 DEF NewInv, vars, playerVars
  <2>4. QED  BY <2>1, <2>2, <2>3 DEF Next
<1>3. QED  BY <1>1, <1>2, PTL DEF Spec

\* In config mode a command changes nothing of what a cell plays, but for a
\* description that was just fetched and is not the one that was cached
\* (player_play).
THEOREM SpecConfigModeRefuses == Spec => ConfigModeRefuses
<1>1. PlayInv /\ NewInv /\ [Next]_vars =>
        [configuring /\ configuring' /\ params' # params
           => /\ phase = "replay" /\ params'.loc = got
              /\ got \in Desc /\ got # cached]_vars
  <2> SUFFICES ASSUME PlayInv, NewInv, [Next]_vars, configuring, configuring',
                      params' # params
               PROVE  /\ phase = "replay" /\ params'.loc = got
                      /\ got \in Desc /\ got # cached
    OBVIOUS
  <2>1. CASE Replay
    <3>1. /\ phase = "replay" /\ fetch \in Desc /\ got = fetch /\ got # cached
          /\ sdp = [udp |-> fetch, sprops |-> fetch]
      BY <2>1 DEF Replay, PlayInv, PhaseInv, NewInv
    <3>2. params' = [PlayParams(cmd, sdp) EXCEPT !.desc = @ /\ ~mid]
      BY <2>1 DEF Replay, PlayStream, StreamSetParams
    <3>3. fetch # None
      BY <3>1, DescAssumption
    <3>4. params'.loc = fetch
      BY <3>1, <3>2, <3>3 DEF PlayParams
    <3>5. QED  BY <3>1, <3>4
  <2>2. CASE Command /\ ~Replay
    <3>1. UNCHANGED cellVars \/ UNCHANGED params
      BY <2>2 DEF Command, RecvPlay, Reload, Play, OpenPlay, WritePlay, Fetch,
         OpenCache, WriteCache, FetchElsewhere, Monitor, StreamSetCrop, ConfigZero,
         ConfigCount
    <3>2. QED  BY <3>1 DEF cellVars, streamVars, settings
  <2>3. CASE Fail \/ DoStopStream \/ DoRestart \/ InPipeline \/ Crash
    BY <2>3 DEF Fail, DoStopStream, DoRestart, InPipeline, Crash, StreamStopPipeline,
       StreamStart, StreamStartPipe, StreamMsgPlaying, JitterPushed, StreamStats,
       streamVars, settings
  <2>4. CASE UNCHANGED vars
    BY <2>4 DEF vars, cellVars, streamVars, settings
  <2>5. QED  BY <2>1, <2>2, <2>3, <2>4 DEF Next
<1>2. QED
  BY <1>1, PlayInvariant, NewInvariant, PTL DEF Spec, ConfigModeRefuses

----------------------------------------------------------------------------
(* How a cell uses its stream *)

\* Whatever happens to a cell, its stream is only used as StreamSpec says:
\* what is proved of StreamSpec holds of the stream of a cell, with every
\* order of its timers, commands and restarts (mongrid.c).
THEOREM SpecIsStream == Spec => StreamSpec
<1>1. Init => StreamInit
  BY DEF Init
<1>2. SdpInv /\ PlayInv /\ [Next]_vars => [StreamNext]_streamVars
  <2> SUFFICES ASSUME SdpInv, PlayInv, [Next]_vars
               PROVE  StreamNext \/ UNCHANGED streamVars
    OBVIOUS
  <2>1. ASSUME PlayStream(PlayParams(cmd, sdp)), cmd \in Plays PROVE StreamNext
    <3> DEFINE overlay == cmd.desc /\ ~mid
               p == [PlayParams(cmd, sdp) EXCEPT !.desc = overlay]
    <3>1. PICK d \in Desc \cup {None} : sdp = [udp |-> d, sprops |-> d]
      BY DEF SdpInv, OneSdp, NoSdp
    <3>2. overlay \in BOOLEAN
      OBVIOUS
    <3>3. p \in Params
      BY <2>1, <3>1, <3>2, PlayParamsAssumption
    <3>4. StreamSetParams(p)
      BY <2>1 DEF PlayStream, PlayParams
    <3>5. QED  BY <3>3, <3>4 DEF StreamNext
  <2>2. UNCHANGED cellVars => UNCHANGED streamVars
    BY DEF cellVars
  <2>3. CASE Command
    <3>1. Play => StreamNext \/ UNCHANGED streamVars
      BY <2>1, <2>2 DEF Play, PlayInv, PhaseInv
    <3>2. Replay => StreamNext
      BY <2>1 DEF Replay, PlayInv, PhaseInv
    <3>3. ASSUME NEW c \in Crops, NEW titled \in BOOLEAN, Monitor(c, titled)
          PROVE  StreamNext \/ UNCHANGED streamVars
      BY <2>2, <3>3 DEF Monitor, StreamNext
    <3>4. ConfigCount => StreamNext
      BY DEF ConfigCount, StreamNext
    <3>5. QED
      BY <2>2, <2>3, <3>1, <3>2, <3>3, <3>4
         DEF Command, RecvPlay, Reload, OpenPlay, WritePlay, Fetch, OpenCache,
             WriteCache, FetchElsewhere, ConfigZero
  <2>4. CASE Fail \/ DoStopStream \/ DoRestart \/ InPipeline \/ Crash
    BY <2>4 DEF Fail, DoStopStream, DoRestart, InPipeline, Crash, StreamNext
  <2>5. CASE UNCHANGED vars
    BY <2>2, <2>5 DEF vars
  <2>6. QED  BY <2>3, <2>4, <2>5 DEF Next
<1>3. QED
  BY <1>1, <1>2, WholeInvariant, PlayInvariant, PTL DEF Spec, StreamSpec

----------------------------------------------------------------------------
(* Types *)

\* Everything has the type it is declared with: a description that is stored
\* was one that was fetched, and a file gets the command that is handled.
THEOREM SpecTypeOK == Spec => []TypeOK
<1>1. Init /\ StreamTypeOK => TypeOK
  <2> SUFFICES ASSUME Init, StreamTypeOK PROVE TypeOK
    OBVIOUS
  <2>1. QED  BY DEF Init, TypeOK, NoSdp
<1>2. TypeOK /\ PlayInv /\ [Next]_vars /\ StreamTypeOK' => TypeOK'
  <2> SUFFICES ASSUME TypeOK, PlayInv, [Next]_vars, StreamTypeOK' PROVE TypeOK'
    OBVIOUS
  <2> USE DEF TypeOK, playerVars, diskVars, timerVars, history
  <2>1. UNCHANGED cellVars => UNCHANGED <<mid, stopping, starting, started>>
    BY DEF cellVars
  <2>2. ASSUME NEW c \in Plays, NEW save \in BOOLEAN, Recv(c, save),
               UNCHANGED <<configuring, diskVars, mid, timerVars>>
        PROVE  TypeOK'
    BY <2>2 DEF Recv, Parsed, NoSdp
  <2>3. \A name : Fails(name) => failed' \subseteq Failing
    BY DEF Fails
  <2>4. CASE Command
    <3>1. ASSUME NEW c \in Plays, RecvPlay(c) PROVE TypeOK'
      BY <2>1, <2>2, <3>1 DEF RecvPlay
    <3>2. CASE Reload
      <4>1. CASE file \in Plays
        BY <2>1, <2>2, <3>2, <4>1 DEF Reload
      <4>2. CASE file \notin Plays
        BY <2>1, <3>2, <4>2 DEF Reload
      <4>3. QED  BY <4>1, <4>2
    <3>3. CASE Play \/ Replay
      BY <2>1, <3>3 DEF Play, Replay, PlayStream
    <3>4. CASE OpenPlay
      BY <2>1, <2>3, <3>4 DEF OpenPlay, AfterStore
    <3>5. CASE WritePlay
      <4>1. cmd \in Plays
        BY <3>5 DEF WritePlay, PlayInv, PhaseInv
      <4>2. QED  BY <2>1, <2>3, <3>5, <4>1 DEF WritePlay, AfterStore
    <3>6. ASSUME NEW text \in Desc \cup {None, Garbled}, Fetch(text)
          PROVE  TypeOK'
      BY <2>1, <3>6 DEF Fetch, Parsed
    <3>7. CASE OpenCache
      BY <2>1, <2>3, <3>7 DEF OpenCache
    <3>8. CASE WriteCache
      <4>1. fetch \in Desc
        BY <3>8 DEF WriteCache, PlayInv, PhaseInv
      <4>2. QED  BY <2>1, <2>3, <3>8, <4>1 DEF WriteCache
    <3>9. ASSUME NEW text \in Desc \cup {Empty}, FetchElsewhere(text) PROVE TypeOK'
      BY <2>1, <3>9 DEF FetchElsewhere
    <3>10. ASSUME NEW c \in Crops, NEW titled \in BOOLEAN, Monitor(c, titled)
           PROVE  TypeOK'
      BY <2>1, <3>10 DEF Monitor
    <3>11. CASE ConfigZero
      BY <2>1, <3>11 DEF ConfigZero
    <3>12. CASE ConfigCount
      BY <3>12 DEF ConfigCount
    <3>13. QED
      BY <2>4, <3>1, <3>2, <3>3, <3>4, <3>5, <3>6, <3>7, <3>8, <3>9, <3>10,
         <3>11, <3>12
         DEF Command
  <2>5. CASE Fail \/ DoStopStream \/ DoRestart \/ InPipeline
    <3>1. UNCHANGED <<playerVars, configuring, diskVars, history, mid>>
      BY <2>5 DEF Fail, DoStopStream, DoRestart, InPipeline
    <3>2. stopping' \in BOOLEAN /\ starting' \in BOOLEAN /\ started' \in BOOLEAN
      BY <2>5 DEF Fail, DoStopStream, DoRestart, InPipeline
    <3>3. QED  BY <3>1, <3>2
  <2>6. CASE Crash
    BY <2>6 DEF Crash, NoSdp
  <2>7. CASE UNCHANGED vars
    BY <2>1, <2>7 DEF vars
  <2>8. QED  BY <2>4, <2>5, <2>6, <2>7 DEF Next
<1>3. Spec => []StreamTypeOK
  BY SpecIsStream, StreamTypeInvariant, PTL
<1>4. QED  BY <1>1, <1>2, <1>3, PlayInvariant, PTL DEF Spec
=============================================================================
