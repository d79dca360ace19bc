------------------------------- MODULE Stream -------------------------------
(***************************************************************************)
(* One stream of stream.c: the parameters commands set, the pipeline that  *)
(* stream_start builds from them, sink first, and what is done with it     *)
(* when it plays and stops.  Every operation runs under grid.lock, and     *)
(* StreamSpec lets its cell call them in any order.                        *)
(*                                                                         *)
(* A GStreamer plug-in may not be installed: make_element then returns     *)
(* NULL and the pipeline is built without that element.                    *)
(***************************************************************************)
EXTENDS Crop, Sequences, SequencesExt

CONSTANTS
    Desc,       \* stream descriptions: an address and its parameter sets
    Params,     \* what stream_set_params may be told
    Crops,      \* what stream_set_crop may be told: <<code, gap>>
    Width,      \* widths a decoded picture may have
    Hosts,      \* where it runs: [real, vaapi, missing], as the variables
    MaxCount,   \* bound: packets a jitter buffer counts
    None

\* sdp, sdp_query: http:// locations that name a .sdp file, and have nothing
\* or a query behind the name
SdpFile == {"sdp", "sdp_query"}
Plain == {"udp", "rtsp", "http", "other"} \cup SdpFile
Location == Plain \cup Desc
Encoding == {"H264", "MPEG4", "PNG", "MJPEG", "MPEG2", "other"}

TestNet == "192.0.2.1"

ASSUME DescAssumption ==
    /\ None \notin Desc
    /\ Desc \cap (Plain \cup {TestNet}) = {}
ASSUME ParamsAssumption ==
    Params \subseteq [loc : Location, enc : Encoding, desc : BOOLEAN,
                      sprops : Desc \cup {None}]
ASSUME CropsAssumption == \A c \in Crops : c \in Seq(Int) \X Nat
ASSUME WidthAssumption == Width \subseteq Nat
ASSUME HostsAssumption == \A h \in Hosts : h.real \in BOOLEAN /\ h.vaapi \in BOOLEAN

VARIABLES
    params,    \* st->location, encoding, sprops; has it a description?
    crop,      \* st->crop: four letters
    gap,       \* st->hgap and st->vgap
    real,      \* st->handle is set: there is a window
    vaapi,     \* st->sink_name is "VAAPI"
    missing,   \* factories that are not installed
    elem,      \* st->elem
    from,      \* the location of the source element
    caps,      \* the parameter sets its capsfilter was given
    sink,      \* st->sink
    jitter,    \* st->jitter
    state,     \* NULL, started, or PLAYING as last told to bus_cb
    box,       \* the pixels the videobox cuts off, and of what size
    counted,   \* num-pushed of the jitter buffer
    pushed,    \* st->pushed
    code,      \* history: the crop code last set
    recrop,    \* history: was it set after the pipeline was started, or the
               \* box computed from a picture that had been cut before?
    shown,     \* history: packets shown since the pipeline was started
    playing    \* history: the parameters the pipeline was built from

settings == <<params, crop, gap, code>>
fixed == <<real, vaapi, missing>>
pipeline == <<elem, from, caps, sink, jitter, state, box, recrop,
              playing>>
counters == <<counted, pushed, shown>>
streamVars == <<settings, fixed, pipeline, counters>>

NoParams == [loc |-> "other", enc |-> "other", desc |-> FALSE, sprops |-> None]
NoBox == [left |-> 0, right |-> 0, width |-> 0]

MaxElems == 16

\* Two directions are alike; the model has the horizontal one, and the
\* vertical letters only where they decide whether there is a crop at all.
Left(width) == CropBefore(width, crop[1], crop[2], gap)
Right(width) == CropBehind(width, crop[1], crop[2], gap)

HasCrop == CropValid(crop[1], crop[2] + 1) \/ CropValid(crop[3], crop[4] + 1)

----------------------------------------------------------------------------
(* The elements of a pipeline, in the order they are added *)

LaterElements(p) ==
    LET Sink == IF ~real THEN "fakesink"
                ELSE IF vaapi THEN "glimagesink" ELSE "xvimagesink"
        Text == IF p.desc /\ p.enc # "MJPEG" THEN <<"textoverlay">> ELSE <<>>
        Box == IF HasCrop THEN <<"videobox">> ELSE <<>>
    IN  <<Sink>> \o Text \o Box

\* Mutant: the parser is put behind the decoder.
DecoderSwapped(enc) ==
    CASE enc = "H264" ->
           <<"h264parse", IF vaapi THEN "vaapih264dec" ELSE "openh264dec",
             "rtph264depay">>
      [] enc = "MPEG4" -> <<"avdec_mpeg4", "rtpmp4vdepay">>
      [] enc = "PNG" -> <<"imagefreeze", "videoconvert", "pngdec">>
      [] enc = "MJPEG" -> <<"jpegdec">>
      [] OTHER -> <<"mpeg2dec", "tsdemux", "rtpmp2tdepay", "queue">>

Decoder(enc) ==
    CASE enc = "H264" ->
           <<IF vaapi THEN "vaapih264dec" ELSE "openh264dec", "h264parse",
             "rtph264depay">>
      [] enc = "MPEG4" -> <<"avdec_mpeg4", "rtpmp4vdepay">>
      [] enc = "PNG" -> <<"imagefreeze", "videoconvert", "pngdec">>
      [] enc = "MJPEG" -> <<"jpegdec">>
      [] OTHER -> <<"mpeg2dec", "tsdemux", "rtpmp2tdepay", "queue">>

Scheme(loc) ==
    IF loc \in Desc THEN "udp" ELSE IF loc \in SdpFile THEN "http" ELSE loc

Source(loc) ==
    CASE Scheme(loc) = "udp" -> <<"rtpjitterbuffer", "capsfilter", "udpsrc">>
      [] Scheme(loc) = "http" -> <<"souphttpsrc">>
      [] OTHER -> <<"rtspsrc">>

\* stream_add: an element that was not made is left out; past the last slot
\* of elem the first is overwritten.
StreamAdd(es, e) ==
    IF e \in missing THEN es
    ELSE IF Len(es) < MaxElems THEN Append(es, e)
    ELSE [es EXCEPT ![1] = e]

Built(p) ==
    FoldLeft(StreamAdd, <<>>,
             LaterElements(p) \o Decoder(p.enc) \o Source(p.loc))

\* stream_location_http: no server is bothered for what cannot be shown.
SourceLocation(p) ==
    IF Scheme(p.loc) = "http" /\ p.enc \notin {"PNG", "MJPEG"}
    THEN TestNet ELSE p.loc

\* stream_create_caps
SourceCaps(p) == IF p.enc = "MPEG2" THEN None ELSE p.sprops

IsLocationOk(p) == Scheme(p.loc) \in {"udp", "http", "rtsp"}
IsEncodingOk(p) == p.enc # "other"

----------------------------------------------------------------------------
(* Operations *)

\* stream_init
StreamInit ==
    /\ params = NoParams /\ crop = [i \in 1 .. 4 |-> NUL] /\ gap = 0
    /\ \E h \in Hosts : real = h.real /\ vaapi = h.vaapi /\ missing = h.missing
    /\ elem = <<>> /\ from = None /\ caps = None
    /\ sink = None /\ jitter = None /\ state = "NULL" /\ box = NoBox
    /\ counted = 0 /\ pushed = 0
    /\ code = <<>> /\ recrop = FALSE /\ shown = 0 /\ playing = NoParams

\* stream_init, in a new process
StreamReinit ==
    /\ params' = NoParams /\ crop' = [i \in 1 .. 4 |-> NUL] /\ gap' = 0
    /\ elem' = <<>> /\ from' = None /\ caps' = None
    /\ sink' = None /\ jitter' = None /\ state' = "NULL" /\ box' = NoBox
    /\ counted' = 0 /\ pushed' = 0
    /\ code' = <<>> /\ recrop' = FALSE /\ shown' = 0 /\ playing' = NoParams
    /\ UNCHANGED fixed

\* stream_set_params: what plays is not touched.
StreamSetParams(p) ==
    /\ params' = p
    /\ UNCHANGED <<crop, gap, code, fixed, pipeline, counters>>

\* The code is copied with its terminator; letters behind that stay.
StreamSetCrop(c, g) ==
    /\ crop' = [i \in 1 .. 4 |->
                  IF i <= Len(c) THEN c[i]
                  ELSE IF i = Len(c) + 1 THEN NUL ELSE crop[i]]
    /\ gap' = g /\ code' = c /\ recrop' = TRUE
    /\ UNCHANGED <<params, fixed, elem, from, caps, sink, jitter, state, box,
                   playing, counters>>

\* Mutant: the pointers into the pipeline are kept.
StreamStopPipelineStale ==
    /\ elem' = <<>> /\ from' = None /\ caps' = None
    /\ UNCHANGED <<sink, jitter>> /\ state' = "NULL" /\ box' = NoBox
    /\ counted' = 0 /\ UNCHANGED <<pushed, shown, recrop, playing, settings, fixed>>

\* stream_stop_pipeline: every element is removed, and with it its memory.
StreamStopPipeline ==
    /\ elem' = <<>> /\ from' = None /\ caps' = None
    /\ sink' = None /\ jitter' = None /\ state' = "NULL" /\ box' = NoBox
    /\ counted' = 0 /\ UNCHANGED <<pushed, shown, recrop, playing, settings, fixed>>

\* Mutant: the counters go on from the last pipeline.
StreamStartPipeUncleared ==
    /\ elem' = Built(params) /\ playing' = params
    /\ from' = SourceLocation(params)
    /\ caps' = IF Scheme(params.loc) = "udp" THEN SourceCaps(params) ELSE None
    /\ sink' = IF real /\ LaterElements(params)[1] \notin missing
               THEN LaterElements(params)[1] ELSE None
    /\ jitter' = IF /\ Scheme(params.loc) = "udp"
                    /\ "rtpjitterbuffer" \notin missing
                 THEN "rtpjitterbuffer" ELSE None
    /\ state' = "started" /\ box' = NoBox /\ recrop' = FALSE
    /\ counted' = 0 /\ shown' = 0
    /\ UNCHANGED <<pushed, settings, fixed>>

\* stream_start, for parameters it accepts: the old pipeline is stopped, the
\* counters are reset, a new one is built.
StreamStartPipe ==
    /\ elem' = Built(params) /\ playing' = params
    /\ from' = SourceLocation(params)
    /\ caps' = IF Scheme(params.loc) = "udp" THEN SourceCaps(params) ELSE None
    /\ sink' = IF real /\ LaterElements(params)[1] \notin missing
               THEN LaterElements(params)[1] ELSE None
    /\ jitter' = IF /\ Scheme(params.loc) = "udp"
                    /\ "rtpjitterbuffer" \notin missing
                 THEN "rtpjitterbuffer" ELSE None
    /\ state' = "started" /\ box' = NoBox /\ recrop' = FALSE
    /\ counted' = 0 /\ pushed' = 0 /\ shown' = 0
    /\ UNCHANGED <<settings, fixed>>

StreamStart ==
    IF IsLocationOk(params) /\ IsEncodingOk(params) THEN StreamStartPipe
    ELSE StreamStopPipeline

\* What the videobox cuts off, when its width is taken to be `seen'
BoxOf(width, seen) == [left |-> Left(seen), right |-> Right(seen), width |-> width]

\* stream_msg_state: the pipeline plays, for the first time or again.  The
\* width is that of the videobox's output: the picture's, then, once the box
\* is in effect, what is left of it; or it is not known yet.
StreamMsgPlaying(width) ==
    /\ state # "NULL" /\ state' = "PLAYING"
    /\ \/ UNCHANGED <<box, recrop>>
       \/ /\ "videobox" \in Range(elem) /\ box = NoBox /\ width > 0
          /\ box' = BoxOf(width, width) /\ UNCHANGED recrop
       \/ \E seen \in {box.width, box.width - box.left - box.right} :
            /\ seen > 0
            /\ box' = BoxOf(box.width, seen)
            /\ recrop' = (recrop \/ seen # box.width)
    /\ UNCHANGED <<settings, fixed, elem, from, caps, sink, jitter, playing,
                   counters>>

\* A packet comes through the jitter buffer.
JitterPushed ==
    /\ jitter # None /\ state = "PLAYING" /\ counted < MaxCount
    /\ counted' = counted + 1
    /\ UNCHANGED <<settings, fixed, pipeline, pushed, shown>>

PktCount(t0, t1) == IF t0 < t1 THEN t1 - t0 ELSE 0

\* do_stats: the title bar shows what was pushed since the last time.
StreamStats ==
    /\ jitter # None /\ counted # pushed
    /\ pushed' = counted /\ shown' = shown + PktCount(pushed, counted)
    /\ UNCHANGED <<settings, fixed, pipeline, counted>>

StreamNext ==
    \/ \E p \in Params : StreamSetParams(p)
    \/ \E c \in Crops : StreamSetCrop(c[1], c[2])
    \/ StreamStart \/ StreamStopPipeline
    \/ \E w \in Width : StreamMsgPlaying(w)
    \/ JitterPushed \/ StreamStats \/ StreamReinit

StreamSpec == StreamInit /\ [][StreamNext]_streamVars

----------------------------------------------------------------------------
(* What the elements take and give, as far as these pipelines use them *)

Accepts(e) ==
    CASE e = "capsfilter" -> "packets"
      [] e \in {"rtpjitterbuffer", "queue", "rtph264depay", "rtpmp4vdepay",
                "rtpmp2tdepay"} -> "rtp"
      [] e \in {"h264parse", "vaapih264dec", "openh264dec"} -> "h264"
      [] e = "avdec_mpeg4" -> "mpeg4"
      [] e = "tsdemux" -> "ts"
      [] e = "mpeg2dec" -> "mpeg2"
      [] e \in {"pngdec", "jpegdec"} -> "file"
      [] e \in {"udpsrc", "souphttpsrc", "rtspsrc"} -> "nothing"
      [] OTHER -> "raw"

Gives(e) ==
    CASE e = "udpsrc" -> "packets"
      [] e \in {"capsfilter", "rtpjitterbuffer", "queue", "rtspsrc"} -> "rtp"
      [] e \in {"rtph264depay", "h264parse"} -> "h264"
      [] e = "rtpmp4vdepay" -> "mpeg4"
      [] e = "rtpmp2tdepay" -> "ts"
      [] e = "tsdemux" -> "mpeg2"
      [] e = "souphttpsrc" -> "file"
      [] e \in {"glimagesink", "xvimagesink", "fakesink"} -> "nothing"
      [] OTHER -> "raw"
----------------------------------------------------------------------------
(* Properties *)

StreamTypeOK ==
    /\ params \in [loc : Location, enc : Encoding, desc : BOOLEAN,
                   sprops : Desc \cup {None}]
    /\ crop \in [1 .. 4 -> Int] /\ gap \in Nat
    /\ real \in BOOLEAN /\ vaapi \in BOOLEAN
    /\ Len(elem) <= MaxElems
    /\ from \in Location \cup {TestNet, None} /\ caps \in Desc \cup {None}
    /\ sink \in {None, "glimagesink", "xvimagesink"}
    /\ jitter \in {None, "rtpjitterbuffer"}
    /\ state \in {"NULL", "started", "PLAYING"}
    /\ counted \in Nat /\ pushed \in Nat /\ shown \in Nat

\* RTP encodings come by udp or rtsp, pictures by http.
Showable ==
    IF Scheme(playing.loc) = "http" THEN playing.enc \in {"PNG", "MJPEG"}
    ELSE playing.enc \in {"H264", "MPEG4", "MPEG2"}

\* Each element of a pipeline is fed what it accepts, from a source down to
\* a sink, with every combination of overlay and crop; and the picture does
\* not depend on plug-ins that only hand it on (stream_add leaves an element
\* that could not be made out).
PictureFlows ==
    elem # <<>> /\ Showable /\ (\A e \in missing : Accepts(e) = Gives(e))
    => /\ elem[1] \in {"glimagesink", "xvimagesink", "fakesink"}
       /\ \A i \in 2 .. Len(elem) : Gives(elem[i]) = Accepts(elem[i - 1])
       /\ Accepts(Last(elem)) = "nothing"

\* st->sink and st->jitter, which the timers of the grid use, point at
\* elements of the running pipeline (stream_remove_all).
PointersLive == {sink, jitter} \subseteq {None} \cup Range(elem)

\* The videobox never cuts off more than there is, also when it is computed
\* again from what it left (stream_config_videobox).
BoxFits == box # NoBox => Fits(box.width, box.left, box.right)

\* A monitor of a wall shows its own part of the picture: neighbours leave
\* nothing out and share less than two pixels, unless the code was changed
\* after the stream was started or the pipeline played again when it was cut.
BoxCovers ==
    (/\ box # NoBox /\ ~recrop /\ gap = 0
     /\ Len(code) = 4 /\ CropValid(code[1], code[2] + 1))
    => Covers(box.width, code[1], code[2], box.left, box.right)

\* The packets shown since the start of a pipeline add up to what its jitter
\* buffer counted, up to the last time it was asked (do_stats).
CountsAddUp == jitter # None => shown = pushed /\ pushed <= counted
=============================================================================
