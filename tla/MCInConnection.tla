--------------------------- MODULE MCInConnection ---------------------------
(***************************************************************************)
(* Requests and users lists for model checking InLine.                     *)
(***************************************************************************)
EXTENDS InLine

AllConfigs == [guest : BOOLEAN, valid : BOOLEAN, numeric : BOOLEAN]

Plain     == <<"marker", "ids", "eol", "crlf", "text", "text">>
BareLines == <<"text", "marker", "ids", "eol", "lf", "text">>
NoBody    == <<"marker", "ids", "eol">>
WithLogin == <<"marker", "cred", "ids", "eol", "crlf", "text">>
LoginOnly == <<"marker", "cred", "eol", "crlf", "cmd">>
LoginStat == <<"marker", "cred", "eol", "crlf", "stats", "crlf">>
BareCmd   == <<"cmd", "text", "lf", "cmd", "lf">>
CmdInBody == <<"marker", "ids", "eol", "crlf", "text", "cmd", "lf", "text">>
GapInBody == <<"marker", "ids", "eol", "crlf", "text", "lf", "text">>
OddCursor == <<"marker", "odd", "eol", "crlf", "text">>
OddLogin  == <<"marker", "cred", "odd", "eol", "crlf", "text">>
OddCmd    == <<"marker", "cred", "odd", "eol", "crlf", "cmd">>

AllStreams == {Plain, BareLines, NoBody, WithLogin, LoginOnly, LoginStat,
               BareCmd, CmdInBody, GapInBody, OddCursor, OddLogin, OddCmd}
LoginStreams == {WithLogin}
=============================================================================
