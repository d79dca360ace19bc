------------------------------ MODULE MCStream ------------------------------
(***************************************************************************)
(* Two instances in one run.  When alone, the stream is used in any order  *)
(* by nobody in particular (StreamSpec), with crops, every kind of stream  *)
(* and plug-ins that are missing.  Otherwise commands are handled (Spec),  *)
(* on a host that lacks nothing, without a crop and without packets that   *)
(* are counted.                                                            *)
(***************************************************************************)
EXTENDS MCSdpPlay

VARIABLE alone

\* Every way into the pipeline and every decoder, with and without an overlay,
\* and encodings that do not go with their location
MCStreams ==
    {[loc |-> c[1], enc |-> c[2], desc |-> c[3], sprops |-> None] :
        c \in {<<"udp", "MPEG2", TRUE>>, <<"rtsp", "MPEG4", FALSE>>,
               <<"udp", "H264", FALSE>>, <<"http", "PNG", TRUE>>,
               <<"http", "MJPEG", TRUE>>, <<"http", "H264", FALSE>>,
               <<"other", "H264", FALSE>>}}

MCParams == MCPlayParams \cup MCStreams

\* The second of three parts, and the last of seven with a gap, in one
\* direction only; none before either is set
MCCrops == MCNoCrops \cup {<<<<1, 2, 0, 1>>, 0>>, <<<<6, 6>>, 10000>>}

MCHosts == {
    Complete,
    [real |-> TRUE, vaapi |-> TRUE,
     missing |-> {"h264parse", "rtpjitterbuffer", "textoverlay"}],
    [real |-> FALSE, vaapi |-> FALSE, missing |-> {"h264parse", "videobox"}]}
MCWidth == {1, 1919}

MCInit ==
    /\ Init /\ alone \in BOOLEAN
    /\ ~alone => real = Complete.real /\ missing = Complete.missing

\* No crop and no packets for the commands
Plainly == code' = <<>> /\ gap' = 0 /\ counted' = 0

MCNext ==
    /\ \/ ~alone /\ Next /\ Plainly
       \/ /\ alone /\ StreamNext /\ params' \in MCStreams \cup {NoParams}
          /\ code' = <<>> => ~recrop'
          /\ UNCHANGED <<playerVars, configuring, mid, timerVars, diskVars,
                         history>>
    /\ UNCHANGED alone

MCSymmetry == Permutations(MCDesc)

MCSpec == MCInit /\ [][MCNext]_<<vars, alone>>
=============================================================================
