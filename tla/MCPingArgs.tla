----------------------------- MODULE MCPingArgs -----------------------------
(* PingArgs for TLC: numbers at the limits, patterns around the maximum.   *)
EXTENDS PingArgs

\* 3 and 4 are about the preload limit and MaxOctet, 5 and 6 about IntMax.
Limits == {0, 3, 4, 6}

\* Empty, short, longer than another, cut by the maximum, and not
\* hexadecimal, before and after what is read.
SomePatterns == {<<>>, <<1>>, <<1, 2>>, <<2, 1, 1, 3>>, <<2, Bad>>, <<1, 1, 2, Bad>>}

=============================================================================
