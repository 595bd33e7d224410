------------------------------- MODULE GuidParse -------------------------------
(***************************************************************************)
(* get_rail_vf_idx() of src/platform-aws.c: reads the first line of        *)
(* /sys/class/infiniband/<dev>/node_guid with fgets into a 20-byte buffer, *)
(* checks its length and one colon, and parses the last two characters     *)
(* with strtol(..., 10) as the virtual-function index.  The file's content *)
(* is a sequence of characters (one-character strings); strtol is modelled *)
(* by what it does: skip white space, an optional sign, the longest run of *)
(* decimal digits, and endptr after it (at the start if there is none).    *)
(***************************************************************************)
EXTENDS Integers, Sequences

CONSTANTS
  NL,       \* the '\n' character
  Absent,   \* fopen() fails
  Lines     \* the node_guid contents considered

ASSUME GuidConstantsAssumption == NL # Absent

EIO == -5
EINVAL == -22

GuidSize == 20   \* char guid[20]

Digits == [c \in {"0", "1", "2", "3", "4", "5", "6", "7", "8", "9"} |->
            CHOOSE d \in 0..9 : <<"0", "1", "2", "3", "4", "5", "6", "7", "8", "9">>[d + 1] = c]
Spaces == {" ", NL}

(* fgets(guid, 20, fp): at most 19 characters, stopping after a newline. *)
FgetsLine(content) ==
  LET nl == {k \in DOMAIN content : content[k] = NL}
      upto == IF nl = {} THEN Len(content)
              ELSE CHOOSE k \in nl : \A j \in nl : k <= j
  IN SubSeq(content, 1, IF upto < GuidSize - 1 THEN upto ELSE GuidSize - 1)

(* strtol(s, &endptr, 10) on the characters of s: the value, and endptr as *)
(* the number of characters consumed (0 when no digit was found).          *)
Strtol10(s) ==
  LET IsRun(from, n, S) == \A k \in from + 1..from + n : s[k] \in S
      Longest(from, S) == CHOOSE n \in 0..Len(s) - from :
                            IsRun(from, n, S) /\ (from + n = Len(s) \/ s[from + n + 1] \notin S)
      ws == Longest(0, Spaces)
      sg == IF ws < Len(s) /\ s[ws + 1] \in {"+", "-"} THEN 1 ELSE 0
      nd == Longest(ws + sg, DOMAIN Digits)
      val[n \in 0..nd] == IF n = 0 THEN 0 ELSE 10 * val[n - 1] + Digits[s[ws + sg + n]]
      neg == sg = 1 /\ s[ws + 1] = "-"
  IN [value |-> IF neg THEN -val[nd] ELSE val[nd],
      end   |-> IF nd = 0 THEN 0 ELSE ws + sg + nd]

(* Mutant: endptr is not compared with the end of the string.            *)
VfIdxFromGuidNoEndCheck(guid) == Strtol10(SubSeq(guid, 18, 19)).value

(* Lines 789-794: strtol(guid + 17, &endptr, 10), and endptr must reach  *)
(* guid + 19.                                                             *)
VfIdxFromGuid(guid) ==
  LET r == Strtol10(SubSeq(guid, 18, 19))
  IN IF r.end # 2 THEN EINVAL ELSE r.value

(* Lines 757-795, the whole function (guid[14] is guid[15] here).        *)
GetRailVfIdx(content) ==
  IF content = Absent THEN EIO
  ELSE LET guid == FgetsLine(content)
       IN CASE guid = <<>>     -> EIO          \* fgets at end of file
            [] Len(guid) # 19  -> EINVAL
            [] guid[15] # ":"  -> EINVAL
            [] OTHER           -> VfIdxFromGuid(guid)

-----------------------------------------------------------------------------
(* The reference: spec.md 4.4 and section 6.  A well-formed GUID line is  *)
(* exactly XXXX:XXXX:XXXX:XXXX (hexadecimal, either case) before the      *)
(* newline; the slot is the value of its last two hexadecimal digits.     *)
HexDigits == [c \in {"0", "1", "2", "3", "4", "5", "6", "7", "8", "9",
                     "a", "b", "c", "d", "e", "f", "A", "B", "C", "D", "E", "F"} |->
               IF c \in DOMAIN Digits THEN Digits[c]
               ELSE CASE c \in {"a", "A"} -> 10 [] c \in {"b", "B"} -> 11
                      [] c \in {"c", "C"} -> 12 [] c \in {"d", "D"} -> 13
                      [] c \in {"e", "E"} -> 14 [] OTHER -> 15]

SpecLine(content) ==
  LET nl == {k \in DOMAIN content : content[k] = NL}
  IN IF nl = {} THEN content
     ELSE SubSeq(content, 1, (CHOOSE k \in nl : \A j \in nl : k <= j) - 1)

WellFormed(content) ==
  /\ content # Absent
  /\ Len(SpecLine(content)) = 19
  /\ \A k \in 1..19 : IF k \in {5, 10, 15} THEN SpecLine(content)[k] = ":"
                      ELSE SpecLine(content)[k] \in DOMAIN HexDigits

SpecSlot(content) ==
  16 * HexDigits[SpecLine(content)[18]] + HexDigits[SpecLine(content)[19]]

(* A node_guid file that opens holds characters, and '\n' is neither a    *)
(* hexadecimal digit nor a sign that strtol would take.                  *)
GuidChars == UNION {{l[k] : k \in DOMAIN l} : l \in Lines \ {Absent}}

ASSUME LinesAssumption ==
  /\ Lines \ {Absent} \subseteq Seq(GuidChars)
  /\ NL \notin DOMAIN HexDigits \cup {"+", "-"}

-----------------------------------------------------------------------------
(* One call of get_rail_vf_idx on a node_guid file.                       *)
VARIABLES line, called, result

vars == <<line, called, result>>

Init ==
  /\ line \in Lines
  /\ called = FALSE
  /\ result = 0

Call ==
  /\ ~called
  /\ called' = TRUE
  /\ result' = GetRailVfIdx(line)
  /\ UNCHANGED line

Returned ==
  /\ called
  /\ UNCHANGED vars

Next == Call \/ Returned

Spec == Init /\ [][Next]_vars

(* platform_sort_rails accepts the index when it is 0 or 1.               *)
Accepted(r) == r \in 0..1

(* On a well-formed GUID file, get_rail_vf_idx leads platform_sort_rails *)
(* to the decision the spec makes: the rail is accepted exactly when the *)
(* GUID's low byte is 0 or 1, and then with that byte as its VF index,   *)
(* although strtol parses the two hex digits in base 10.                 *)
WellFormedAgree ==
  (called /\ WellFormed(line)) =>
    /\ Accepted(result) <=> SpecSlot(line) < 2
    /\ Accepted(result) => result = SpecSlot(line)

(* spec.md 4.4 and 8: a GUID that is not exactly XXXX:XXXX:XXXX:XXXX (19  *)
(* characters, hexadecimal) is a format error: no rail is accepted.       *)
SpecRejectsMalformed ==
  (called /\ Accepted(result)) => WellFormed(line)

=============================================================================
