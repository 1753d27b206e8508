------------------------------- MODULE MCSite -------------------------------
(***************************************************************************)
(* Two tabs and one path of each kind: canonical, without prefix, with a   *)
(* slash, with two prefixes, and each kind of page behind a prefix.        *)
(***************************************************************************)
EXTENDS Site

CONSTANTS t1, t2

MixedStarts ==
    {Home, Path(<<>>, "/docs", FALSE), Path(<<>>, "/docs", TRUE),
     Path(<<"en">>, "/", TRUE), Path(<<"zh">>, "/docs", FALSE),
     Path(<<>>, "/auth", FALSE), Path(<<>>, "/dashboard", FALSE),
     Path(<<"zh", "en">>, "/dashboard", TRUE), Path(<<>>, "/robots.txt", FALSE)}
=============================================================================
