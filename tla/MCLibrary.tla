------------------------------- MODULE MCLibrary -------------------------------
(* Library for TLC. *)
EXTENDS Library, MCResponses

\* 40 hours in milliseconds are more than MaxLong, 40 hours ago less than the smallest.
MCSettingTexts == {Text(TRUE, 0, ""), Text(TRUE, 1, ""), Text(TRUE, 80, "x"), Text(TRUE, 65536, ""),
                   Text(TRUE, 200000, "ms"), Text(TRUE, 2, "m"), Text(TRUE, 40, "h"), Text(TRUE, -40, "h"),
                   Word("on"), Word("m")}
=============================================================================
