------------------------- MODULE MCPlatformIdentity -------------------------
(* Model-checking instance of PlatformIdentity.                           *)
EXTENDS PlatformIdentity

CONSTANTS t1, t2, t3

MCThreads == {t1, t2, t3}

(* A known type, an unknown one, an empty first line, and files whose    *)
(* only line has no trailing newline.                                     *)
MCFileContents ==
  { <<"p5.48xlarge", NL>>, <<"m5.large", NL>>, <<NL>>,
    <<"p5.48xlarge">>, <<>> }
=============================================================================
