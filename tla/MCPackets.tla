----------------------------- MODULE MCPackets -----------------------------
EXTENDS Packets

PlayCmd(index, name) == <<"play", US>> \o index \o <<US>> \o name

\* Whole, cut in a field, as long as still fits, too long for elog_cmd by the
\* terminator, too long for LoadSize as well, with a rejected command where
\* the buffer ends and elsewhere, without a separator at the end, without a
\* monitor, for none, for one beyond the grid, and behind an empty command
MCPacket == {
    PlayCmd(<<"0">>, <<"a">>) \o <<RS>>,
    PlayCmd(<<"0">>, <<"a">>) \o <<RS>> \o PlayCmd(<<"1">>, <<"b">>) \o <<RS>>,
    PlayCmd(<<"0">>, <<"a", "b", "a">>),
    PlayCmd(<<"0">>, <<"a", "b", "a", "b">>),
    PlayCmd(<<"1">>, <<"a", "b", "a", "b", "a">>) \o <<RS>>,
    <<"x", RS>> \o PlayCmd(<<"1">>, <<"b">>) \o <<RS>>,
    <<RS>> \o PlayCmd(<<"2">>, <<"b">>) \o <<RS>>,
    PlayCmd(<<>>, <<"b">>) \o <<RS>> \o PlayCmd(<<"0", "1">>, <<>>),
    <<"display", US, "a", RS, "play">>}
=============================================================================
