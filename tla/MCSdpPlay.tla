----------------------------- MODULE MCSdpPlay -----------------------------
(* SdpPlay for TLC: two descriptions, and a host that lacks nothing. *)
EXTENDS SdpPlay

CONSTANTS d1, d2

MCDesc == {d1, d2}

\* Two commands with a description to fetch, one without
MCPlays == {
    [loc |-> "sdp_query", enc |-> "H264", desc |-> TRUE],
    [loc |-> "sdp_query", enc |-> "MPEG2", desc |-> FALSE],
    [loc |-> "rtsp", enc |-> "MPEG4", desc |-> FALSE]}

\* One whose name is at the very end of the location
MCSdpPlays == {[loc |-> "sdp", enc |-> "H264", desc |-> TRUE]}

MCPlayParams ==
    [loc : {"sdp", "sdp_query", "rtsp"} \cup MCDesc,
     enc : {"H264", "MPEG2", "MPEG4"}, desc : BOOLEAN,
     sprops : MCDesc \cup {None}]

MCNoCrops == {<<<<>>, 0>>}
Complete == [real |-> TRUE, vaapi |-> FALSE, missing |-> {}]
MCOneHost == {Complete}
=============================================================================
