------------------------------ MODULE MCGuidParse ------------------------------
(* node_guid contents around the checks get_rail_vf_idx makes: a hex or  *)
(* non-hex head, the colon at guid[14] or not, every pair of last two     *)
(* characters over an alphabet with decimal and hex digits, white space   *)
(* and signs, and lines of 18 to 21 characters with or without newline.  *)
EXTENDS GuidParse

CONSTANT MCNL

MCHeads == { <<"0","0","0","0",":","0","0","0","0",":","0","0","0","0">>,
             <<"z","z","z","z",":","z","z","z","z",":","z","z","z","z">> }
MCAlphabet == {"0", "1", "3", "a", "F", " ", "+", "-", "z"}
MCTails == { <<>>, <<MCNL>>, <<"0">>, <<"0", MCNL>> }

MCFull == { h \o <<c14, "0", "0", c17, c18>> \o t :
              h \in MCHeads, c14 \in {":", "0"}, c17 \in MCAlphabet,
              c18 \in MCAlphabet, t \in MCTails }

MCLines == MCFull \cup { SubSeq(l, 1, 18) \o <<MCNL>> : l \in MCFull }
                  \cup { SubSeq(l, 1, 18) : l \in MCFull } \cup { <<>>, Absent }
=============================================================================
