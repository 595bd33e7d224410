-------------------------- MODULE GuidParseProofs --------------------------
(***************************************************************************)
(* Proofs about get_rail_vf_idx (GuidParse).  strtol is applied to the    *)
(* last two characters only, so its recursive accumulator val has at most *)
(* three points: the proof exhibits it instead of inducting over digits.  *)
(***************************************************************************)
EXTENDS GuidParse, SequenceTheorems, WellFoundedInduction, TLAPS

(* The decimal digits strtol base 10 takes.                              *)
Dec == DOMAIN Digits

(* Every decimal digit has its value in 0..9.                             *)

LEMMA Dig == \A c \in Dec : Digits[c] \in 0..9
<1> SUFFICES ASSUME NEW c \in Dec PROVE Digits[c] \in 0..9
  OBVIOUS
<1>1. \E d \in 0..9 : <<"0", "1", "2", "3", "4", "5", "6", "7", "8", "9">>[d + 1] = c
  BY DEF Digits, Dec
<1>2. QED BY <1>1, Zenon DEF Digits, Dec

(* strtol(s, &endptr, 10) on two hexadecimal digits (lines 789-790): no  *)
(* white space or sign is skipped, endptr stops at the first non-decimal *)
(* digit, and two decimal digits give 10 * d1 + d2.                      *)
LEMMA Strtol2 ==
  ASSUME NEW a \in DOMAIN HexDigits, NEW b \in DOMAIN HexDigits
  PROVE  /\ Strtol10(<<a, b>>).end = IF a \in Dec THEN IF b \in Dec THEN 2 ELSE 1 ELSE 0
         /\ a \in Dec /\ b \in Dec =>
              Strtol10(<<a, b>>).value = 10 * Digits[a] + Digits[b]
<1> DEFINE s == <<a, b>>
           IsRun(from, n, S) == \A k \in from + 1..from + n : s[k] \in S
           Longest(from, S) == CHOOSE n \in 0..Len(s) - from :
                            IsRun(from, n, S) /\ (from + n = Len(s) \/ s[from + n + 1] \notin S)
           ws == Longest(0, Spaces)
           sg == IF ws < Len(s) /\ s[ws + 1] \in {"+", "-"} THEN 1 ELSE 0
           nd == Longest(ws + sg, DOMAIN Digits)
           val == CHOOSE val : val = [n \in 0..nd |-> IF n = 0 THEN 0 ELSE 10 * val[n - 1] + Digits[s[ws + sg + n]]]
           neg == sg = 1 /\ s[ws + 1] = "-"
<1>1. Strtol10(s) = [value |-> IF neg THEN -val[nd] ELSE val[nd],
                     end   |-> IF nd = 0 THEN 0 ELSE ws + sg + nd]
  BY DEF Strtol10
<1> HIDE DEF val
<1>1a. Strtol10(s).end = IF nd = 0 THEN 0 ELSE ws + sg + nd
  <2> HIDE DEF s, ws, sg, nd, neg, IsRun, Longest
  <2> QED BY <1>1
<1>1b. Strtol10(s).value = IF neg THEN -val[nd] ELSE val[nd]
  <2> HIDE DEF s, ws, sg, nd, neg, IsRun, Longest
  <2> QED BY <1>1
<1>2. a \notin Spaces /\ a \notin {"+", "-"} /\ Len(s) = 2 /\ s[1] = a /\ s[2] = b
  BY LinesAssumption DEF Spaces, HexDigits, Digits
<1>3. ws = 0
  <2>1. \A n \in 0..2 : (IsRun(0, n, Spaces) /\ (n = 2 \/ s[n + 1] \notin Spaces)) <=> n = 0
    BY <1>2
  <2>2. QED BY <2>1, <1>2
<1>4. sg = 0
  BY <1>2, <1>3
<1>5. nd = IF a \in Dec THEN IF b \in Dec THEN 2 ELSE 1 ELSE 0
  <2> DEFINE k == IF a \in Dec THEN IF b \in Dec THEN 2 ELSE 1 ELSE 0
  <2>1. \A n \in 0..2 : (IsRun(0, n, Dec) /\ (n = 2 \/ s[n + 1] \notin Dec)) <=> n = k
    BY <1>2
  <2>2. QED BY <2>1, <1>2, <1>3, <1>4 DEF Dec
<1> HIDE DEF ws, sg, nd, IsRun, Longest
<1>6. ASSUME a \in Dec, b \in Dec PROVE val[nd] = 10 * Digits[a] + Digits[b]
  <2>1. nd = 2
    BY <1>5, <1>6
  <2> DEFINE F(f) == [n \in 0..2 |-> IF n = 0 THEN 0 ELSE 10 * f[n - 1] + Digits[s[n]]]
             g == [n \in 0..2 |-> IF n = 0 THEN 0 ELSE IF n = 1 THEN Digits[a] ELSE 10 * Digits[a] + Digits[b]]
  <2>2. g = F(g)
    BY <1>2, <1>6, Dig
  <2>3. g = [n \in 0..nd |-> IF n = 0 THEN 0 ELSE 10 * g[n - 1] + Digits[s[ws + sg + n]]]
    <3>0. nd = 2 /\ ws = 0 /\ sg = 0
      BY <2>1, <1>3, <1>4
    <3>1. 0..nd = 0..2 /\ \A n \in 0..2 : ws + sg + n = n
      BY <3>0
    <3>2. \A n \in 0..2 : g[n] = IF n = 0 THEN 0 ELSE 10 * g[n - 1] + Digits[s[n]]
      BY <2>2
    <3>3. QED
      BY <3>1, <3>2
  <2> USE DEF val
  <2>4. val = [n \in 0..nd |-> IF n = 0 THEN 0 ELSE 10 * val[n - 1] + Digits[s[ws + sg + n]]]
    BY <2>3, Zenon
  <2> HIDE DEF val
  <2>5. /\ val[0] = 0
        /\ val[1] = 10 * val[0] + Digits[s[ws + sg + 1]]
        /\ val[2] = 10 * val[1] + Digits[s[ws + sg + 2]]
    BY <2>4, <2>1
  <2>6. QED
    BY <2>5, <2>1, <1>2, <1>3, <1>4, <1>6, Dig
<1>9. QED
  <2>1. Strtol10(s).end = IF a \in Dec THEN IF b \in Dec THEN 2 ELSE 1 ELSE 0
    BY <1>1a, <1>3, <1>4, <1>5
  <2>2. ASSUME a \in Dec, b \in Dec PROVE Strtol10(s).value = 10 * Digits[a] + Digits[b]
    BY <2>2, <1>1b, <1>4, <1>6
  <2>3. QED
    BY <2>1, <2>2
(* The spec's value of a hexadecimal digit: the decimal value for 0-9,  *)
(* 10 to 15 for a letter.                                                 *)
LEMMA HexFacts ==
  ASSUME NEW c \in DOMAIN HexDigits
  PROVE  /\ c \in Dec => HexDigits[c] = Digits[c]
         /\ c \notin Dec => HexDigits[c] \in 10..15
BY DEF HexDigits, Dec

(* The first newline of a line that has one.                              *)
LEMMA FirstNlExists ==
  ASSUME NEW c \in Seq(GuidChars), {k \in DOMAIN c : c[k] = NL} # {}
  PROVE  LET nl == {k \in DOMAIN c : c[k] = NL}
         IN  (CHOOSE k \in nl : \A j \in nl : k <= j) \in nl
<1> DEFINE T == {k \in DOMAIN c : c[k] = NL}
<1>1. T \subseteq Nat /\ T # {}
  OBVIOUS
<1>2. \E m \in T : \A y \in T : ~(<<y, m>> \in OpToRel(<, Nat))
  BY <1>1, NatLessThanWellFounded, WFMin
<1>3. \E m \in T : \A j \in T : m <= j
  <2>1. PICK m \in T : \A y \in T : ~(<<y, m>> \in OpToRel(<, Nat))
    BY <1>2
  <2>2. \A y \in T : ~(y < m)
    BY <1>1, <2>1 DEF OpToRel
  <2>3. QED
    BY <1>1, <2>2
<1>4. QED
  BY <1>3

(* On a well-formed file, fgets returns the spec's first line.            *)
LEMMA FgetsSpec ==
  ASSUME NEW c \in Seq(GuidChars), Len(SpecLine(c)) = 19
  PROVE  /\ FgetsLine(c) = SpecLine(c)
         /\ SpecLine(c) = SubSeq(c, 1, 19) /\ 19 <= Len(c)
<1> DEFINE nl == {k \in DOMAIN c : c[k] = NL}
           m == CHOOSE k \in nl : \A j \in nl : k <= j
<1>1. CASE nl = {}
  <2>1. SpecLine(c) = c
    BY <1>1 DEF SpecLine
  <2>2. Len(c) = 19
    BY <2>1
  <2>3. FgetsLine(c) = SubSeq(c, 1, 19)
    BY <1>1, <2>2 DEF FgetsLine, GuidSize
  <2>4. QED
    BY <2>1, <2>2, <2>3
<1>2. CASE nl # {}
  <2>0. m \in nl
    BY <1>2, FirstNlExists, Zenon
  <2>1. m \in 1..Len(c)
    BY <2>0
  <2>2. SpecLine(c) = SubSeq(c, 1, m - 1)
    BY <1>2 DEF SpecLine
  <2>3. FgetsLine(c) = SubSeq(c, 1, IF m < 19 THEN m ELSE 19)
    <3>1. FgetsLine(c) = SubSeq(c, 1, IF (IF nl = {} THEN Len(c) ELSE m) < GuidSize - 1
                                      THEN IF nl = {} THEN Len(c) ELSE m ELSE GuidSize - 1)
      BY Zenon DEF FgetsLine
    <3> HIDE DEF m, nl
    <3>2. (IF (IF nl = {} THEN Len(c) ELSE m) < GuidSize - 1
           THEN IF nl = {} THEN Len(c) ELSE m ELSE GuidSize - 1) = IF m < 19 THEN m ELSE 19
      BY <1>2 DEF GuidSize
    <3>3. QED
      BY <3>1, <3>2, Zenon
  <2> HIDE DEF m, nl
  <2>4. Len(SubSeq(c, 1, m - 1)) = m - 1
    BY <2>1, SubSeqProperties
  <2>5. m - 1 = 19
    BY <2>2, <2>4
  <2>6. SpecLine(c) = SubSeq(c, 1, 19)
    BY <2>2, <2>5
  <2>7. FgetsLine(c) = SubSeq(c, 1, 19)
    BY <2>1, <2>3, <2>5
  <2>8. 19 <= Len(c)
    BY <2>1, <2>5
  <2>9. QED
    BY <2>6, <2>7, <2>8
<1>3. QED
  BY <1>1, <1>2
(* get_rail_vf_idx on a well-formed file agrees with the spec's slot.     *)
LEMMA WellFormedResult ==
  ASSUME NEW c \in Lines, WellFormed(c)
  PROVE  LET r == GetRailVfIdx(c)
         IN  /\ Accepted(r) <=> SpecSlot(c) < 2
             /\ Accepted(r) => r = SpecSlot(c)
<1> DEFINE guid == SpecLine(c)
           x == guid[18]
           y == guid[19]
<1>1. c \in Seq(GuidChars) /\ c # Absent
  BY LinesAssumption DEF WellFormed
<1>2. /\ Len(guid) = 19 /\ guid[15] = ":"
      /\ x \in DOMAIN HexDigits /\ y \in DOMAIN HexDigits
  BY DEF WellFormed
<1>3. FgetsLine(c) = guid /\ guid = SubSeq(c, 1, 19) /\ 19 <= Len(c)
  BY <1>1, <1>2, FgetsSpec
<1> HIDE DEF guid
<1>4. guid \in Seq(GuidChars) /\ \A i \in 1..19 : guid[i] = c[i]
  <2>0. c \in [1..Len(c) -> GuidChars] /\ Len(c) \in Nat
    BY <1>1, LenProperties
  <2>1. \A i \in 1..19 : c[i] \in GuidChars
    <3>1. 19 <= Len(c)
      BY <1>3
    <3>2. QED
      BY <2>0, <3>1
  <2>2. SubSeq(c, 1, 19) \in Seq(GuidChars) /\ \A i \in 1..19 : SubSeq(c, 1, 19)[i] = c[i]
    BY <2>1, SubSeqProperties
  <2>3. QED
    BY <1>3, <2>2
<1>5. GetRailVfIdx(c) = VfIdxFromGuid(guid)
  <2>1. guid # <<>>
    <3>1. Len(guid) = 19 /\ Len(<<>>) = 0 /\ 19 # 0
      BY <1>2
    <3>2. QED
      BY <3>1, Zenon
  <2>2. QED
    BY <1>1, <1>2, <1>3, <2>1 DEF GetRailVfIdx
<1>6. SubSeq(guid, 18, 19) = <<x, y>>
  <2> DEFINE t == SubSeq(guid, 18, 19)
  <2>1. guid \in [1..Len(guid) -> GuidChars]
    BY <1>4, LenProperties
  <2>2. \A i \in 18..19 : guid[i] \in GuidChars
    BY <2>1, <1>2
  <2>3. t \in Seq(GuidChars) /\ Len(t) = 2 /\ t[1] = x /\ t[2] = y
    BY <2>2, SubSeqProperties
  <2>4. t \in [1..2 -> GuidChars]
    BY <2>3, LenProperties
  <2> HIDE DEF t
  <2>5. \A i \in 1..2 : t[i] = <<x, y>>[i]
    BY <2>3
  <2>6. t = [i \in 1..2 |-> t[i]] /\ <<x, y>> = [i \in 1..2 |-> <<x, y>>[i]]
    BY <2>4
  <2>7. t = <<x, y>>
    BY <2>5, <2>6, Zenon
  <2>8. QED
    BY <2>7 DEF t
<1>7. GetRailVfIdx(c) = IF Strtol10(<<x, y>>).end # 2 THEN EINVAL ELSE Strtol10(<<x, y>>).value
  BY <1>5, <1>6, Zenon DEF VfIdxFromGuid
<1>8. SpecSlot(c) = 16 * HexDigits[x] + HexDigits[y]
  BY DEF SpecSlot, guid
<1>9. HexDigits[x] \in 0..15 /\ HexDigits[y] \in 0..15
  BY <1>2, HexFacts, Dig
<1> HIDE DEF guid, x, y
<1>10. CASE x \in Dec /\ y \in Dec
  <2>1. GetRailVfIdx(c) = 10 * Digits[x] + Digits[y]
    BY <1>2, <1>7, <1>10, Strtol2
  <2>2. SpecSlot(c) = 16 * Digits[x] + Digits[y]
    BY <1>2, <1>8, <1>10, HexFacts
  <2>3. QED
    BY <2>1, <2>2, <1>10, Dig DEF Accepted
<1>11. CASE ~(x \in Dec /\ y \in Dec)
  <2>1. GetRailVfIdx(c) = EINVAL
    BY <1>2, <1>7, <1>11, Strtol2
  <2>2. HexDigits[x] >= 10 \/ HexDigits[y] >= 10
    BY <1>2, <1>11, HexFacts
  <2>3. QED
    BY <2>1, <2>2, <1>8, <1>9 DEF Accepted, EINVAL
<1>12. QED
  BY <1>10, <1>11

-----------------------------------------------------------------------------
(* The single call stores get_rail_vf_idx's result for the file.        *)
GuidInv ==
  /\ line \in Lines
  /\ called \in BOOLEAN
  /\ called => result = GetRailVfIdx(line)

LEMMA GuidInit == Init => GuidInv
BY DEF Init, GuidInv

LEMMA GuidStep == GuidInv /\ [Next]_vars => GuidInv'
<1> SUFFICES ASSUME GuidInv, [Next]_vars PROVE GuidInv'
  OBVIOUS
<1>1. CASE Call
  <2>1. line' = line /\ called' = TRUE /\ result' = GetRailVfIdx(line)
    BY <1>1 DEF Call
  <2>2. QED
    BY <2>1, Zenon DEF GuidInv
<1>2. CASE Returned \/ UNCHANGED vars
  <2>1. line' = line /\ called' = called /\ result' = result
    BY <1>2 DEF Returned, vars
  <2>2. QED
    BY <2>1, Zenon DEF GuidInv
<1>3. QED
  BY <1>1, <1>2 DEF Next

LEMMA GuidInvImpliesAgree == GuidInv => WellFormedAgree
<1> SUFFICES ASSUME GuidInv, called, WellFormed(line)
             PROVE  /\ Accepted(result) <=> SpecSlot(line) < 2
                    /\ Accepted(result) => result = SpecSlot(line)
  BY DEF WellFormedAgree
<1>1. result = GetRailVfIdx(line) /\ line \in Lines
  BY DEF GuidInv
<1>2. QED
  BY <1>1, WellFormedResult

(* get_rail_vf_idx leads platform_sort_rails to the spec's decision on  *)
(* every well-formed node_guid file: the rail is accepted exactly when   *)
(* the GUID's low byte is 0 or 1, with that byte as its VF index, though  *)
(* lines 789-794 parse the two hexadecimal digits with strtol base 10.   *)
THEOREM WellFormedAgreeHolds == Spec => []WellFormedAgree
<1>1. Spec => []GuidInv
  BY GuidInit, GuidStep, PTL DEF Spec
<1>2. QED
  BY <1>1, GuidInvImpliesAgree, PTL
=============================================================================
