----------------------------- MODULE WireProofs ------------------------------
(***************************************************************************)
(* The two ends of a connection: what is read from it and what is written  *)
(* to it.                                                                  *)
(*                                                                         *)
(* Receive buffer: what a broken connection leaves in the buffer, and a    *)
(* line longer than the buffer, spoil two lines at most, for any length of *)
(* the buffer and of the lines. Before the first line behind either has    *)
(* ended nothing is known of the buffer. After that it holds what was sent *)
(* of the line, or in the second an LF before it, when the buffer was      *)
(* cleared between CR and LF; then only what was sent of the line.         *)
(*                                                                         *)
(* Sending: of a message that is reported as sent and of which no write    *)
(* was cut the server has read all, and of a command what it was given,    *)
(* for any texts and any room. Each write takes up the message where the   *)
(* one before it ended, unless what is left does not fit into a line at    *)
(* all; the line of a command is taken apart token by token.               *)
(*                                                                         *)
(* Incoming messages: whatever form a message is written in, the client    *)
(* calls the handler for what was meant, for any texts and tags, but for   *)
(* the forms on which the parser fails, whose outcome is shown. The line   *)
(* is cut into tags, source, command and parameters as it was put          *)
(* together; of a tag, every escaped character is read back.               *)
(***************************************************************************)
EXTENDS ReceiveBuffer, Sending, SequenceLemmas, TLAPS

EndsWithCR(s) == s # <<>> /\ s[Len(s)] = CR

LineInv ==
  /\ sending \in Seq(Bytes \cup {CR}) /\ Len(sending) < MaxLine
  /\ ~EndsWithCR(sending) => Len(sending) < MaxLine - 1

BufferInv ==
  /\ buf \in Seq(Octets) /\ Len(buf) <= BufLen
  /\ EndsWithCR(sending) => buf = <<>> \/ EndsWithCR(buf)
  /\ nlines = 1 /\ Len(sending) < BufLen => buf = sending \/ buf = <<LF>> \o sending
  /\ nlines \in {2, 3} /\ Len(sending) <= BufLen => buf = sending

ReceiveInv ==
  /\ reading \in BOOLEAN /\ nlines \in 0..3 /\ intact \in BOOLEAN
  /\ LineInv /\ BufferInv /\ LinesRecover

LEMMA ReceiveInvImplies == ReceiveInv => ReceiveTypeOK
<1>1. ASSUME ReceiveInv PROVE sending \in Seq(Octets)
  <2>1. Bytes \cup {CR} \subseteq Octets
    BY DEF Octets
  <2> QED BY <1>1, <2>1 DEF ReceiveInv, LineInv
<1>2. ReceiveInv => bufptr <= BufLen /\ buf \in Seq(Octets)
  BY DEF ReceiveInv, BufferInv, bufptr
<1>3. ReceiveInv => Len(sending) < MaxLine
  BY DEF ReceiveInv, LineInv
<1> QED BY <1>1, <1>2, <1>3 DEF ReceiveInv, ReceiveTypeOK

LEMMA EmptyBuffer ==
  /\ \A S : <<>> \in Seq(S)
  /\ Len(<<>>) = 0 /\ 0 < MaxLine - 1 /\ 0 < MaxLine /\ 1 <= BufLen /\ 0 <= BufLen
  /\ ~EndsWithCR(<<>>)
BY BufLenAssumption, MaxLineAssumption DEF EndsWithCR

LEMMA ReceiveInitInv == ReceiveInit => ReceiveInv
<1> SUFFICES ASSUME ReceiveInit PROVE ReceiveInv
  OBVIOUS
<1>1. LineInv
  BY EmptyBuffer DEF ReceiveInit, LineInv
<1>2. BufferInv
  BY EmptyBuffer DEF ReceiveInit, BufferInv
<1>3. nlines \in 0..3
  BY DEF ReceiveInit
<1>4. reading \in BOOLEAN /\ intact \in BOOLEAN /\ LinesRecover
  BY Zenon DEF ReceiveInit, LinesRecover
<1> QED BY <1>1, <1>2, <1>3, <1>4 DEF ReceiveInv

(* on_connect_finish and the end of a connection leave the buffer alone. *)
LEMMA ConnectionStep ==
  ASSUME ReceiveInv, StartReading \/ StopReading
  PROVE  ReceiveInv'
<1>1. /\ reading' \in BOOLEAN /\ sending' = <<>> /\ nlines' = 0 /\ intact' = TRUE
      /\ buf' = buf
  BY DEF StartReading, StopReading
<1> QED
  BY <1>1, MaxLineAssumption
  DEF ReceiveInv, LineInv, BufferInv, LinesRecover, EndsWithCR

(* A byte within a line. *)
LEMMA ByteStep ==
  ASSUME ReceiveInv, NEW b \in Octets, b # LF, ReceiveByte(b)
  PROVE  ReceiveInv'
<1>1. /\ buf' = Kept(Append(buf, b)) /\ sending' = Append(sending, b)
      /\ UNCHANGED <<reading, nlines, intact>>
  BY DEF ReceiveByte
<1>2. ~EndsWithCR(sending) /\ (b = CR \/ (b \in Bytes /\ Len(sending) < MaxLine - 2))
  BY DEF ReceiveByte, MaySend, EndsWithCR
<1>3. buf \in Seq(Octets) /\ sending \in Seq(Bytes \cup {CR}) /\ Len(sending) \in Nat /\ MaxLine \in Nat
  BY BufLenAssumption, MaxLineAssumption DEF ReceiveInv, LineInv, BufferInv
<1>4. /\ Append(buf, b) \in Seq(Octets) /\ Len(Append(buf, b)) = Len(buf) + 1
      /\ Append(buf, b)[Len(buf) + 1] = b
      /\ Append(sending, b) \in Seq(Bytes \cup {CR}) /\ Len(Append(sending, b)) = Len(sending) + 1
      /\ Append(sending, b)[Len(sending) + 1] = b
  BY <1>2, <1>3
<1>5. LineInv'
  BY <1>1, <1>2, <1>3, <1>4 DEF ReceiveInv, LineInv, EndsWithCR
<1>6. ~EndsLine(Append(buf, b))
  BY <1>3, <1>4 DEF EndsLine
<1>7. BufferInv'
  <2>1. buf' \in Seq(Octets) /\ Len(buf') <= BufLen
    BY <1>1, <1>3, <1>4, BufLenAssumption DEF Kept, TooLong
  <2>2. EndsWithCR(sending') => buf' = <<>> \/ EndsWithCR(buf')
    BY <1>1, <1>3, <1>4, <1>6 DEF Kept, EndsWithCR
  <2>3. Len(sending) < BufLen /\ buf = sending => buf' = sending'
    BY <1>1, <1>3, <1>4, <1>6, BufLenAssumption DEF Kept, TooLong
  <2>4. Len(sending') < BufLen /\ buf = <<LF>> \o sending => buf' = <<LF>> \o sending'
    <3>1. ASSUME buf = <<LF>> \o sending
          PROVE  Append(buf, b) = <<LF>> \o Append(sending, b)
      BY <1>3, <3>1, <1>4
    <3>2. ASSUME Len(sending') < BufLen, buf = <<LF>> \o sending
          PROVE  ~TooLong(Append(buf, b))
      <4>1. Len(buf) = Len(sending) + 1
        BY <3>2, <1>3
      <4> QED BY <3>2, <4>1, <1>1, <1>3, <1>4, BufLenAssumption DEF TooLong
    <3> QED BY <1>1, <1>6, <3>1, <3>2 DEF Kept
  <2>5. Len(sending') = Len(sending) + 1
    BY <1>1, <1>4
  <2>6. Len(sending') <= BufLen => Len(sending) < BufLen
    BY <2>5, <1>3, BufLenAssumption
  <2>7. Len(sending') < BufLen => Len(sending') <= BufLen
    BY <2>5, <1>3, BufLenAssumption
  <2>8. nlines = 1 /\ Len(sending') < BufLen => buf' = sending' \/ buf' = <<LF>> \o sending'
    BY <2>3, <2>4, <2>6, <2>7 DEF ReceiveInv, BufferInv
  <2>9. nlines \in {2, 3} /\ Len(sending') <= BufLen => buf' = sending'
    <3>1. nlines \in {2, 3} /\ Len(sending) < BufLen => buf = sending
      BY <1>3, BufLenAssumption DEF ReceiveInv, BufferInv
    <3> QED BY <2>3, <2>6, <3>1
  <2> QED BY <1>1, <2>1, <2>2, <2>8, <2>9 DEF BufferInv
<1> QED BY <1>1, <1>5, <1>7 DEF ReceiveInv, LinesRecover

(* The LF that ends a line. *)
LEMMA LineEndStep ==
  ASSUME ReceiveInv, ReceiveByte(LF)
  PROVE  ReceiveInv'
<1>1. /\ buf' = Kept(Append(buf, LF)) /\ sending' = <<>> /\ reading' = reading
      /\ nlines' = IF TooLong(Append(sending, LF)) THEN 1
                   ELSE IF nlines < 3 THEN nlines + 1 ELSE 3
      /\ intact' = Handed(Append(buf, LF), Append(sending, LF))
  BY DEF ReceiveByte
<1>2. EndsWithCR(sending)
  BY BytesAssumption DEF ReceiveByte, MaySend, EndsWithCR, CR, LF
<1>3. buf \in Seq(Octets) /\ sending \in Seq(Octets) /\ Len(sending) \in Nat /\ nlines \in 0..3
  BY DEF ReceiveInv, LineInv, BufferInv, Octets
<1>4. LF \in Octets
  BY DEF Octets
<1>5. /\ Len(Append(buf, LF)) = Len(buf) + 1 /\ Append(buf, LF)[Len(buf) + 1] = LF
      /\ \A i \in 1..Len(buf) : Append(buf, LF)[i] = buf[i]
      /\ Len(Append(sending, LF)) = Len(sending) + 1
  BY <1>3, <1>4
<1>6. EndsWithCR(buf) => EndsLine(Append(buf, LF)) /\ buf' = <<>>
  <2> SUFFICES ASSUME EndsWithCR(buf) PROVE EndsLine(Append(buf, LF)) /\ buf' = <<>>
    OBVIOUS
  <2>1. Len(buf) \in Nat \ {0} /\ buf[Len(buf)] = CR
    BY <1>3 DEF EndsWithCR
  <2>2. EndsLine(Append(buf, LF))
    BY <1>5, <2>1 DEF EndsLine
  <2> QED BY <1>1, <2>2 DEF Kept
<1>7. buf' \in {<<>>, <<LF>>}
  <2>1. CASE buf = <<>>
    <3>1. Append(buf, LF) = <<LF>>
      BY <2>1
    <3> QED BY <1>1, <3>1 DEF Kept
  <2> QED BY <2>1, <1>2, <1>6 DEF ReceiveInv, BufferInv
<1>8. ASSUME ~TooLong(Append(sending, LF)) PROVE Len(sending) < BufLen /\ Len(sending) <= BufLen
  BY <1>3, <1>5, <1>8, BufLenAssumption DEF TooLong
<1>9. ASSUME buf = sending, ~TooLong(Append(sending, LF)) PROVE intact'
  BY <1>1, <1>2, <1>6, <1>9 DEF Handed
<1>10. ASSUME nlines # 0, ~TooLong(Append(sending, LF)) PROVE buf' = <<>>
  <2>1. buf = sending => EndsWithCR(buf)
    BY <1>2
  <2>2. ASSUME buf = <<LF>> \o sending PROVE EndsWithCR(buf)
    BY <1>2, <1>3, <2>2 DEF EndsWithCR
  <2> QED BY <1>3, <1>6, <1>8, <1>10, <2>1, <2>2 DEF ReceiveInv, BufferInv
<1>11. BufferInv'
  <2>1. buf' \in Seq(Octets) /\ Len(buf') <= BufLen
    <3>1. Len(<<LF>>) = 1 /\ <<LF>> \in Seq(Octets)
      BY <1>4
    <3> QED BY <1>7, <3>1, EmptyBuffer
  <2>2. <<LF>> \o <<>> = <<LF>>
    OBVIOUS
  <2>3. nlines' \in {2, 3} => buf' = <<>>
    BY <1>1, <1>3, <1>10
  <2> QED BY <1>1, <1>7, <2>1, <2>2, <2>3, EmptyBuffer DEF BufferInv
<1>12. LineInv'
  BY <1>1, MaxLineAssumption DEF LineInv, EndsWithCR
<1>13. LinesRecover'
  <2>1. ASSUME nlines' = 3 PROVE intact'
    <3>1. nlines \in {2, 3} /\ ~TooLong(Append(sending, LF))
      BY <1>1, <1>3, <2>1
    <3> QED BY <1>8, <1>9, <3>1 DEF ReceiveInv, BufferInv
  <2> QED BY <2>1 DEF LinesRecover
<1>14. intact' \in BOOLEAN
  BY <1>1, Zenon DEF Handed
<1>15. nlines' \in 0..3
  BY <1>1, <1>3
<1> QED BY <1>1, <1>11, <1>12, <1>13, <1>14, <1>15 DEF ReceiveInv

LEMMA ReceiveInvKept == ReceiveInv /\ [ReceiveNext]_receiveVars => ReceiveInv'
<1> SUFFICES ASSUME ReceiveInv, [ReceiveNext]_receiveVars PROVE ReceiveInv'
  OBVIOUS
<1>1. CASE UNCHANGED receiveVars
  BY <1>1 DEF receiveVars, ReceiveInv, LineInv, BufferInv, LinesRecover, EndsWithCR
<1>2. CASE ReceiveNext
  BY <1>2, ConnectionStep, ByteStep, LineEndStep DEF ReceiveNext
<1> QED BY <1>1, <1>2

-----------------------------------------------------------------------------
(* What the buffer holds is what was sent of the line, but for the rest of *)
(* an earlier connection, behind a line longer than the buffer, and within *)
(* one.                                                                    *)
THEOREM ReceiveInvariance == ReceiveSpec => []ReceiveInv
<1> QED BY ReceiveInitInv, ReceiveInvKept, PTL DEF ReceiveSpec

(* bufptr is never more than one beyond the last index of the buffer. *)
THEOREM ReceiveTypeCorrect == ReceiveSpec => []ReceiveTypeOK
<1> QED BY ReceiveInvariance, ReceiveInvImplies, PTL

(* However connections end, and however long lines are, longer than the    *)
(* buffer as well: from the third line on after the beginning or a line    *)
(* that was too long, on_recv_ready hands over what was sent.              *)
THEOREM ReceptionRecovers == ReceiveSpec => []LinesRecover
<1>1. ReceiveInv => LinesRecover
  BY DEF ReceiveInv
<1> QED BY <1>1, ReceiveInvariance, PTL

-----------------------------------------------------------------------------
LEMMA LeastIs ==
  ASSUME NEW at, at \subseteq Int, NEW k \in at, \A j \in at : k <= j
  PROVE  (CHOOSE i \in at : \A j \in at : i <= j) = k
<1>1. \A i \in at : (\A j \in at : i <= j) => i = k
  OBVIOUS
<1> QED BY <1>1

LEMMA FirstOfIs ==
  ASSUME NEW S, NEW s \in Seq(S), NEW cs, NEW k \in 1..Len(s), s[k] \in cs,
         \A j \in 1..k - 1 : s[j] \notin cs
  PROVE  FirstOf(s, cs) = k
<1> DEFINE at == {i \in DOMAIN s : s[i] \in cs}
<1>1. Len(s) \in Nat /\ DOMAIN s = 1..Len(s)
  BY LenProperties
<1>2. at \subseteq Int /\ k \in at /\ \A j \in at : k <= j
  BY <1>1
<1>3. FirstOf(s, cs) = CHOOSE i \in at : \A j \in at : i <= j
  BY <1>2 DEF FirstOf
<1> HIDE DEF at
<1> QED BY <1>2, <1>3, LeastIs

LEMMA FirstOfNone ==
  ASSUME NEW S, NEW s \in Seq(S), NEW cs, \A j \in 1..Len(s) : s[j] \notin cs
  PROVE  FirstOf(s, cs) = Len(s) + 1
BY LenProperties DEF FirstOf

LEMMA FromIs ==
  ASSUME NEW S, NEW s \in Seq(S), NEW i \in 1..Len(s) + 1
  PROVE  /\ From(s, i) \in Seq(S) /\ Len(From(s, i)) = Len(s) - i + 1
         /\ \A j \in 1..Len(s) - i + 1 : From(s, i)[j] = s[i + j - 1]
<1>1. Len(s) \in Nat /\ i \in Int /\ Len(s) \in Int /\ \A j \in i..Len(s) : s[j] \in S
  BY LenProperties, ElementOfSeq
<1>2. /\ SubSeq(s, i, Len(s)) \in Seq(S)
      /\ Len(SubSeq(s, i, Len(s))) = IF i <= Len(s) THEN Len(s) - i + 1 ELSE 0
      /\ \A j \in 1..Len(s) - i + 1 : SubSeq(s, i, Len(s))[j] = s[i + j - 1]
  BY <1>1, SubSeqProperties
<1> DEFINE t == SubSeq(s, i, Len(s))
<1>3. From(s, i) = t
  BY DEF From
<1> HIDE DEF t
<1> QED BY <1>1, <1>2, <1>3 DEF t

LEMMA SubSeqIs ==
  ASSUME NEW S, NEW s \in Seq(S), NEW m \in 1..Len(s) + 1, NEW n \in 0..Len(s), m <= n + 1
  PROVE  /\ SubSeq(s, m, n) \in Seq(S) /\ Len(SubSeq(s, m, n)) = n - m + 1
         /\ \A j \in 1..n - m + 1 : SubSeq(s, m, n)[j] = s[m + j - 1]
<1>1. m \in Int /\ n \in Int /\ \A j \in m..n : s[j] \in S
  BY LenProperties, ElementOfSeq
<1>2. /\ SubSeq(s, m, n) \in Seq(S)
      /\ Len(SubSeq(s, m, n)) = IF m <= n THEN n - m + 1 ELSE 0
      /\ \A j \in 1..n - m + 1 : SubSeq(s, m, n)[j] = s[m + j - 1]
  BY <1>1, SubSeqProperties
<1> DEFINE t == SubSeq(s, m, n)
<1> HIDE DEF t
<1> QED BY <1>1, <1>2 DEF t

LEMMA SkipNothing ==
  ASSUME NEW S, NEW s \in Seq(S), s # <<>>, NEW c, s[1] # c
  PROVE  Skip(s, c) = s
<1> DEFINE other == {i \in DOMAIN s : s[i] # c}
<1>1. Len(s) \in Nat \ {0} /\ DOMAIN s = 1..Len(s)
  BY LenProperties, EmptySeq
<1>2. other \subseteq Int /\ 1 \in other /\ \A j \in other : 1 <= j
  BY <1>1
<1>3. Skip(s, c) = From(s, CHOOSE i \in other : \A j \in other : i <= j)
  BY <1>2 DEF Skip
<1> HIDE DEF other
<1>4. Skip(s, c) = From(s, 1)
  BY <1>2, <1>3, LeastIs
<1> QED BY <1>4, SubSeqFull DEF From

(* The token before the first c, and what is behind it. *)
LEMMA TokenIs ==
  ASSUME NEW S, NEW s \in Seq(S), NEW c, NEW k \in 2..Len(s), s[k] = c,
         \A j \in 1..k - 1 : s[j] # c
  PROVE  Token(s, c) = SubSeq(s, 1, k - 1) /\ Rest(s, c) = From(s, k + 1)
<1>1. Len(s) \in Nat /\ s # <<>> /\ s[1] # c
  BY LenProperties
<1>2. Skip(s, c) = s
  BY <1>1, SkipNothing
<1>3. FirstOf(s, {c}) = k
  <2>1. k \in 1..Len(s) /\ s[k] \in {c} /\ \A j \in 1..k - 1 : s[j] \notin {c}
    OBVIOUS
  <2> QED BY <2>1, FirstOfIs
<1>4. Len(SubSeq(s, 1, k - 1)) = k - 1
  <2>1. 1 \in 1..Len(s) + 1 /\ k - 1 \in 0..Len(s) /\ 1 <= k - 1 + 1 /\ k - 1 - 1 + 1 = k - 1
    BY <1>1
  <2>2. Len(SubSeq(s, 1, k - 1)) = k - 1 - 1 + 1
    BY <2>1, SubSeqIs, Zenon
  <2> QED BY <2>1, <2>2
<1>5. SubSeq(s, 1, k - 1) # <<>>
  BY <1>4
<1> QED BY <1>2, <1>3, <1>5 DEF Token, Rest

LEMMA LastToken ==
  ASSUME NEW S, NEW s \in Seq(S), NEW c, s # <<>>, \A j \in 1..Len(s) : s[j] # c
  PROVE  Token(s, c) = s
<1>1. Len(s) \in Nat \ {0} /\ s[1] # c
  BY LenProperties, EmptySeq
<1>2. Skip(s, c) = s
  BY <1>1, SkipNothing
<1>3. FirstOf(s, {c}) = Len(s) + 1
  <2>1. \A j \in 1..Len(s) : s[j] \notin {c}
    OBVIOUS
  <2> QED BY <2>1, FirstOfNone
<1>4. SubSeq(s, 1, FirstOf(s, {c}) - 1) = s
  <2>1. FirstOf(s, {c}) - 1 = Len(s)
    BY <1>1, <1>3
  <2> QED BY <2>1, SubSeqFull
<1> QED BY <1>2, <1>4 DEF Token

-----------------------------------------------------------------------------
(* The k-th of the places in a set, as Tokens and TagsOf look for it. *)
IsRanking(a, n) == n \in Nat /\ a \in [1..n -> Nat] /\ \A i, j \in 1..n : i < j => a[i] < a[j]

Ranked(T, k) == CHOOSE j \in T : Cardinality({x \in T : x < j}) = k - 1
Places(T, a, n) == T = {a[i] : i \in 1..n}

LEMMA RankIs ==
  ASSUME NEW n, NEW a, IsRanking(a, n), NEW T, Places(T, a, n)
  PROVE  Cardinality(T) = n /\ \A k \in 1..n : Ranked(T, k) = a[k]
<1> USE DEF Places
<1>0. n \in Nat /\ a \in [1..n -> Nat] /\ \A i, j \in 1..n : i < j => a[i] < a[j]
  BY DEF IsRanking
<1>1. ASSUME NEW k \in 0..n PROVE Cardinality({a[i] : i \in 1..k}) = k
  <2> DEFINE b == [i \in 1..k |-> a[i]]
  <2>1. b \in Seq(Nat) /\ Len(b) = k /\ DOMAIN b = 1..k
    BY <1>0
  <2>2. IsInjective(b)
    BY <1>0, <2>1 DEF IsInjective
  <2>3. ToSet(b) = {a[i] : i \in 1..k}
    BY <2>1 DEF ToSet
  <2> HIDE DEF b
  <2> QED BY <2>1, <2>2, <2>3, InjectiveCount
<1>2. ASSUME NEW k \in 1..n PROVE Cardinality({x \in T : x < a[k]}) = k - 1
  <2>1. {x \in T : x < a[k]} = {a[i] : i \in 1..k - 1}
    <3>1. \A i \in 1..n : a[i] < a[k] <=> i \in 1..k - 1
      BY <1>0
    <3> QED BY <1>0, <3>1
  <2>2. k - 1 \in 0..n
    BY <1>0
  <2> QED BY <1>1, <2>1, <2>2
<1>3. Cardinality(T) = n
  <2>1. n \in 0..n
    BY <1>0
  <2> QED BY <1>1, <2>1
<1>4. ASSUME NEW k \in 1..n PROVE Ranked(T, k) = a[k]
  <2>1. a[k] \in T
    OBVIOUS
  <2>2. ASSUME NEW i \in 1..n, Cardinality({x \in T : x < a[i]}) = k - 1 PROVE i = k
    <3>1. Cardinality({x \in T : x < a[i]}) = i - 1
      BY <1>2
    <3> QED BY <1>0, <2>2, <3>1
  <2>3. \A j \in T : Cardinality({x \in T : x < j}) = k - 1 => j = a[k]
    BY <2>2
  <2> QED BY <1>2, <2>1, <2>3 DEF Ranked
<1> QED BY <1>3, <1>4

-----------------------------------------------------------------------------
(* The words of s, between any blanks: the k-th is from a[k] to e[k].      *)
Located(s, a, e, n) ==
  /\ n \in Nat /\ a \in [1..n -> Nat] /\ e \in [1..n -> Nat]
  /\ \A k \in 1..n : 1 <= a[k] /\ a[k] <= e[k] /\ e[k] <= Len(s)
  /\ \A k \in 1..n : \A j \in a[k]..e[k] : s[j] # SPACE
  /\ \A i, k \in 1..n : i < k => e[i] + 1 < a[k]
  /\ \A j \in 1..Len(s) : s[j] # SPACE => \E k \in 1..n : j \in a[k]..e[k]

WordsAt(s, a, e, n) == [k \in 1..n |-> SubSeq(s, a[k], e[k])]

(* There is a blank, or nothing, before and behind a word. *)
LEMMA BlankAround ==
  ASSUME NEW s, NEW a, NEW e, NEW n, Located(s, a, e, n), Len(s) \in Nat, NEW k \in 1..n,
         NEW j \in 1..Len(s), j = e[k] + 1 \/ j = a[k] - 1
  PROVE  s[j] = SPACE
<1>1. SUFFICES ASSUME s[j] # SPACE PROVE FALSE
  OBVIOUS
<1>2. PICK m \in 1..n : j \in a[m]..e[m]
  BY <1>1 DEF Located
<1>3. /\ a[k] \in Nat /\ e[k] \in Nat /\ a[m] \in Nat /\ e[m] \in Nat /\ n \in Nat
      /\ a[k] <= e[k] /\ a[m] <= e[m]
      /\ (m < k => e[m] + 1 < a[k]) /\ (k < m => e[k] + 1 < a[m])
  BY DEF Located
<1>4. CASE m < k
  BY <1>2, <1>3, <1>4
<1>5. CASE k < m
  BY <1>2, <1>3, <1>5
<1>6. CASE k = m
  BY <1>2, <1>3, <1>6
<1> QED BY <1>3, <1>4, <1>5, <1>6

LEMMA TokenLocated ==
  ASSUME NEW S, NEW s \in Seq(S), NEW a, NEW e, NEW n, Located(s, a, e, n), NEW k \in 1..n
  PROVE  Token(From(s, a[k]), SPACE) = SubSeq(s, a[k], e[k])
<1>1. PICK l \in Nat : l = Len(s)
  BY LenProperties
<1>2. PICK p \in 1..l : p = a[k]
  BY <1>1 DEF Located
<1>3. PICK q \in 1..l : q = e[k] /\ p <= q
  BY <1>1, <1>2 DEF Located
<1>4. \A j \in p..q : s[j] # SPACE
  BY <1>2, <1>3 DEF Located
<1> DEFINE t == From(s, p)
           r == SubSeq(s, p, q)
<1>5. t \in Seq(S) /\ Len(t) = l - p + 1 /\ \A j \in 1..l - p + 1 : t[j] = s[p + j - 1]
  <2>1. p \in 1..Len(s) + 1
    BY <1>1
  <2> QED BY <1>1, <2>1, FromIs
<1>6. r \in Seq(S) /\ Len(r) = q - p + 1 /\ \A j \in 1..q - p + 1 : r[j] = s[p + j - 1]
  <2>1. p \in 1..Len(s) + 1 /\ q \in 0..Len(s) /\ p <= q + 1
    BY <1>1, <1>3
  <2> QED BY <2>1, SubSeqIs
<1> HIDE DEF t, r
<1>7. t # <<>> /\ \A j \in 1..q - p + 1 : t[j] # SPACE /\ t[j] = r[j]
  <2>1. ASSUME NEW j \in 1..q - p + 1 PROVE t[j] # SPACE /\ t[j] = r[j]
    <3>1. j \in 1..l - p + 1 /\ p + j - 1 \in p..q
      BY <1>3
    <3> QED BY <1>4, <1>5, <1>6, <3>1
  <2>2. Len(t) > 0
    BY <1>5
  <2> QED BY <2>1, <2>2
<1>8. CASE q = l
  <2>1. t = r
    BY <1>5, <1>6, <1>7, <1>8, SeqEqual
  <2>2. Token(t, SPACE) = t
    <3>1. \A j \in 1..Len(t) : t[j] # SPACE
      BY <1>5, <1>7, <1>8
    <3> QED BY <1>5, <1>7, <3>1, LastToken
  <2> QED BY <1>2, <1>3, <2>1, <2>2 DEF t, r
<1>9. CASE q < l
  <2>1. PICK m \in 2..Len(t) : m = q - p + 2 /\ m - 1 = q - p + 1
    <3>1. p \in Nat /\ q \in Nat /\ p <= q /\ q < l
      BY <1>3, <1>9
    <3>2. PICK m \in Nat : m = q - p + 2
      BY <3>1
    <3>3. m \in 2..l - p + 1 /\ m - 1 = q - p + 1
      BY <3>1, <3>2
    <3> QED BY <1>5, <3>2, <3>3
  <2>2. t[m] = SPACE
    <3>1. PICK j \in 1..Len(s) : j = q + 1
      BY <1>1, <1>9
    <3>2. s[j] = SPACE
      BY <1>1, <1>3, <3>1, BlankAround
    <3>3. m \in 1..l - p + 1 /\ p + m - 1 = j
      BY <1>5, <2>1, <3>1
    <3> QED BY <1>5, <3>2, <3>3
  <2>3. \A j \in 1..m - 1 : t[j] # SPACE
    BY <1>7, <2>1
  <2>4. Token(t, SPACE) = SubSeq(t, 1, m - 1)
    BY <1>5, <2>2, <2>3, TokenIs
  <2>5. SubSeq(t, 1, m - 1) = r
    <3>1. PICK h \in 0..Len(t) : h = m - 1 /\ h = q - p + 1
      BY <1>5, <2>1
    <3>2. PICK u : u = SubSeq(t, 1, h)
      OBVIOUS
    <3>3. u \in Seq(S) /\ Len(u) = h /\ \A j \in 1..h : u[j] = t[j]
      <4>1. 1 \in 1..Len(t) + 1 /\ 1 <= h + 1 /\ h - 1 + 1 = h
        BY <1>5, <3>1
      <4>2. u \in Seq(S) /\ Len(u) = h - 1 + 1 /\ \A j \in 1..h - 1 + 1 : u[j] = t[1 + j - 1]
        BY <1>5, <3>2, <4>1, SubSeqIs
      <4>3. \A j \in 1..h : 1 + j - 1 = j
        OBVIOUS
      <4> QED BY <4>1, <4>2, <4>3
    <3>4. u = r
      BY <1>6, <1>7, <3>1, <3>3, SeqEqual
    <3> QED BY <3>1, <3>2, <3>4
  <2> QED BY <1>2, <1>3, <2>4, <2>5 DEF t, r
<1> QED BY <1>8, <1>9

LEMMA TokensOfWords ==
  ASSUME NEW S, NEW s \in Seq(S), NEW a, NEW e, NEW n, Located(s, a, e, n)
  PROVE  Tokens(s) = IF n = 0 THEN <<NULL>> ELSE WordsAt(s, a, e, n)
<1> DEFINE starts == {i \in DOMAIN s : s[i] # SPACE /\ (i = 1 \/ s[i - 1] = SPACE)}
<1>0. /\ n \in Nat /\ a \in [1..n -> Nat] /\ e \in [1..n -> Nat]
      /\ Len(s) \in Nat /\ DOMAIN s = 1..Len(s)
  BY LenProperties DEF Located
<1>1. ASSUME NEW k \in 1..n PROVE a[k] \in starts
  <2>1. a[k] \in 1..Len(s) /\ a[k] \in a[k]..e[k]
    BY <1>0 DEF Located
  <2>2. s[a[k]] # SPACE
    BY <2>1 DEF Located
  <2>3. ASSUME a[k] # 1 PROVE s[a[k] - 1] = SPACE
    <3>1. PICK j \in 1..Len(s) : j = a[k] - 1
      BY <1>0, <2>1, <2>3
    <3> QED BY <1>0, <3>1, BlankAround
  <2> QED BY <1>0, <2>1, <2>2, <2>3
<1>2. ASSUME NEW i \in starts PROVE \E k \in 1..n : i = a[k]
  <2>1. i \in 1..Len(s) /\ s[i] # SPACE /\ (i = 1 \/ s[i - 1] = SPACE)
    BY <1>0
  <2>2. PICK k \in 1..n : i \in a[k]..e[k]
    BY <2>1 DEF Located
  <2>3. a[k] \in Nat /\ e[k] \in Nat /\ 1 <= a[k]
    BY <1>0, <2>2 DEF Located
  <2>4. ASSUME i > a[k] PROVE FALSE
    <3>1. i - 1 \in a[k]..e[k] /\ i # 1
      BY <2>1, <2>2, <2>3, <2>4
    <3> QED BY <2>1, <3>1 DEF Located
  <2> QED BY <2>1, <2>2, <2>3, <2>4
<1>3. starts = {a[k] : k \in 1..n}
  BY <1>1, <1>2
<1>4. IsRanking(a, n)
  <2>1. ASSUME NEW i \in 1..n, NEW j \in 1..n, i < j PROVE a[i] < a[j]
    <3>1. a[i] \in Nat /\ e[i] \in Nat /\ a[j] \in Nat /\ a[i] <= e[i] /\ e[i] + 1 < a[j]
      BY <1>0, <2>1 DEF Located
    <3> QED BY <3>1
  <2> QED BY <1>0, <2>1 DEF IsRanking
<1>5. Tokens(s) = IF starts = {} THEN <<NULL>>
                  ELSE [k \in 1..Cardinality(starts) |-> Token(From(s, Ranked(starts, k)), SPACE)]
  BY DEF Tokens, Ranked
<1> HIDE DEF starts
<1>6. Cardinality(starts) = n /\ \A k \in 1..n : Ranked(starts, k) = a[k]
  <2>1. Places(starts, a, n)
    BY <1>3 DEF Places
  <2> QED BY <1>4, <2>1, RankIs
<1>7. CASE n = 0
  <2>1. starts = {}
    BY <1>3, <1>7
  <2> QED BY <1>5, <1>7, <2>1
<1>8. CASE n # 0
  <2>1. starts # {}
    <3>1. 1 \in 1..n
      BY <1>0, <1>8
    <3> QED BY <1>3, <3>1
  <2>2. Tokens(s) = [k \in 1..n |-> Token(From(s, a[k]), SPACE)]
    BY <1>5, <1>6, <2>1
  <2>3. \A k \in 1..n : Token(From(s, a[k]), SPACE) = SubSeq(s, a[k], e[k])
    BY TokenLocated
  <2> QED BY <1>8, <2>2, <2>3 DEF WordsAt
<1> QED BY <1>7, <1>8

-----------------------------------------------------------------------------
LEMMA BytesFold ==
  ASSUME NEW s \in Seq(Nat)
  PROVE  \E f \in [0..Len(s) -> Nat] :
           f[0] = 0 /\ (\A k \in 1..Len(s) : f[k] = f[k - 1] + s[k]) /\ f[Len(s)] = Bytes8(s)
<1>0. PICK n \in Nat : n = Len(s) /\ DOMAIN s = 1..n /\ \A k \in 1..n : s[k] \in Nat
  BY LenProperties, ElementOfSeq
<1> DEFINE F == [p \in (1..n) \X Nat |-> p[2] + s[p[1]]]
           Next(it, t) == IF t = {} THEN 0 ELSE it[t \ {Max(t)}] + s[Max(t)]
           g == CHOOSE h : h = [t \in SUBSET (1..n) |-> Next(h, t)]
<1>1. Steps(F, Nat, n)
  BY <1>0 DEF Steps
<1>2. \A k \in 1..n, x \in Nat : F[<<k, x>>] = x + s[k]
  OBVIOUS
<1>3. Bytes8(s) = g[1..n]
  BY <1>0 DEF Bytes8, FoldLeft, MapThenFoldSet
<1> HIDE DEF F
<1>4. PICK it : IsFold(it, Nat, n, 0, F)
  BY <1>1, FoldExists
<1>5. it = [t \in SUBSET (1..n) |-> Next(it, t)]
  <2>1. ASSUME NEW t \in SUBSET (1..n), t # {}
        PROVE  it[t] = it[t \ {Max(t)}] + s[Max(t)]
    BY <1>2, <1>4, <2>1, MaxIn DEF IsFold
  <2>2. \A t \in SUBSET (1..n) : it[t] = Next(it, t)
    BY <1>4, <2>1 DEF IsFold
  <2>3. it = [t \in SUBSET (1..n) |-> it[t]]
    BY <1>4 DEF IsFold
  <2> QED BY <2>2, <2>3
<1>6. g = [t \in SUBSET (1..n) |-> Next(g, t)]
  BY <1>5
<1> HIDE DEF g
<1>7. Recurs(g, Nat, n, 0, F)
  BY <1>2, <1>6, MaxIn DEF Recurs
<1>8. PICK f : IsLeftFold(f, g, Nat, n, 0, F)
  BY <1>1, <1>7, FoldValues
<1>9. f \in [0..n -> Nat] /\ f[0] = 0 /\ f[n] = Bytes8(s)
  BY <1>3, <1>8 DEF IsLeftFold
<1>10. ASSUME NEW k \in 1..n PROVE f[k] = f[k - 1] + s[k]
  <2>0. k - 1 \in 0..n
    BY <1>0
  <2>1. f[k - 1] \in Nat
    BY <2>0, <1>9
  <2>2. f[k] = F[<<k, f[k - 1]>>]
    BY <1>8 DEF IsLeftFold
  <2> QED BY <1>2, <2>1, <2>2
<1> QED BY <1>0, <1>9, <1>10

LEMMA BytesOfPart ==
  ASSUME NEW s \in Seq(Nat), NEW n \in 0..Len(s)
  PROVE  /\ SubSeq(s, 1, n) \in Seq(Nat) /\ Len(SubSeq(s, 1, n)) = n
         /\ Bytes8(SubSeq(s, 1, n)) \in Nat
<1>1. SubSeq(s, 1, n) \in Seq(Nat) /\ Len(SubSeq(s, 1, n)) = n
  BY SubSeqProperties, LenProperties, ElementOfSeq
<1>2. PICK f \in [0..n -> Nat] : f[n] = Bytes8(SubSeq(s, 1, n))
  BY <1>1, BytesFold
<1> QED BY <1>1, <1>2

LEMMA NoBytes == Bytes8(<<>>) = 0
<1>1. <<>> \in Seq(Nat) /\ Len(<<>>) = 0
  OBVIOUS
<1> QED BY <1>1, BytesFold

(* The builder takes as much of a message as has room, and nothing of it   *)
(* only when its first character has none.                                 *)
LEMMA FittingFits ==
  ASSUME NEW s \in Seq(Nat)
  PROVE  Fitting(s) \in 0..Len(s) /\ Bytes8(SubSeq(s, 1, Fitting(s))) <= Room
<1>0. PICK n \in Nat : n = Len(s)
  BY LenProperties
<1>1. SubSeq(s, 1, n) = s
  BY <1>0, SubSeqProperties, LenProperties, ElementOfSeq
<1>2. Room \in Nat \ {0}
  BY SendingAssumption
<1>3. CASE Bytes8(s) <= Room
  <2>1. Fitting(s) = n
    BY <1>0, <1>3 DEF Fitting
  <2>2. Bytes8(SubSeq(s, 1, Fitting(s))) <= Room
    BY <1>1, <1>3, <2>1, Zenon
  <2> QED BY <1>0, <2>1, <2>2
<1>4. CASE ~(Bytes8(s) <= Room)
  <2> DEFINE B == [k \in 0..n |-> Bytes8(SubSeq(s, 1, k))]
             S == {k \in 0..n : B[k] < Room}
  <2>1. \A k \in 0..n : B[k] \in Nat
    BY <1>0, BytesOfPart
  <2>2. SubSeq(s, 1, 0) = <<>>
    OBVIOUS
  <2>3. B[0] = 0 /\ B[n] = Bytes8(s)
    <3>1. 0 \in 0..n /\ n \in 0..n
      BY <1>0
    <3>2. B[0] = Bytes8(SubSeq(s, 1, 0)) /\ B[n] = Bytes8(SubSeq(s, 1, n))
      BY <3>1, Zenon
    <3> QED BY <1>1, <2>2, <3>2, NoBytes, Zenon
  <2> HIDE DEF B
  <2>4. 0 \in S /\ n \notin S
    BY <1>2, <1>4, <2>1, <2>3
  <2>5. \E k \in 0..n : k < n /\ k \in S /\ k + 1 \notin S
    <3> HIDE DEF S
    <3>1. CASE \A k \in 0..n : k < n /\ k \in S => k + 1 \in S
      <4>1. \A k \in 0..n : k \in S
        BY <1>0, <2>4, <3>1, BoundedInduction
      <4> QED BY <1>0, <2>4, <4>1
    <3> QED BY <3>1
  <2>6. PICK k \in 0..n : k < n /\ B[k] < Room /\ B[k + 1] >= Room
    BY <1>2, <2>1, <2>5
  <2>7. \E m \in 0..Len(s) : Bytes8(SubSeq(s, 1, m)) < Room /\ Bytes8(SubSeq(s, 1, m + 1)) >= Room
    BY <1>0, <2>6 DEF B
  <2>8. Fitting(s) = CHOOSE m \in 0..Len(s) : Bytes8(SubSeq(s, 1, m)) < Room /\ Bytes8(SubSeq(s, 1, m + 1)) >= Room
    BY <1>4 DEF Fitting
  <2>9. Fitting(s) \in 0..Len(s) /\ Bytes8(SubSeq(s, 1, Fitting(s))) < Room
    BY <2>7, <2>8
  <2> QED BY <1>0, <1>2, <2>1, <2>9 DEF B
<1> QED BY <1>3, <1>4

-----------------------------------------------------------------------------
WriteType == [from : Nat, to : Nat, taken : Outcomes, behind : BOOLEAN]

(* What was sent before the i-th write, in characters. *)
Before(i) == IF i = 1 THEN 0 ELSE writes[i - 1].to

(* Each write takes up the message where the one before it ended, and is   *)
(* glued to it when that was cut.                                          *)
Part(i) ==
  /\ writes[i].from = Before(i) + 1
  /\ writes[i].from <= writes[i].to /\ writes[i].to <= Len(text)
  /\ Bytes8(SubSeq(text, writes[i].from, writes[i].to)) <= Room
  /\ i > 1 => (writes[i].behind <=> writes[i - 1].taken = "part")

(* What was read of a message of which nothing was cut is what was sent.   *)
InOrder ==
  /\ \A i \in DOMAIN writes : Part(i)
  /\ sent = IF writes = <<>> THEN 0 ELSE writes[Len(writes)].to
  /\ writes # <<>> => (unended <=> writes[Len(writes)].taken = "part")
  /\ (\A i \in DOMAIN writes : ReadWhole(writes[i])) => got = SubSeq(text, 1, sent)

(* What is left does not fit into a line, which is sent empty for ever. *)
Stuck == result = "sending" /\ sent > 0 /\ Fitting(Remaining) = 0

Reply(c, args, outcome, behind) ==
  IF FitsLine(c, args) /\ ReadWhole(AskedFor(c, args, outcome, behind)) THEN args ELSE NULL

Asking ==
  \/ asked = NULL /\ reply = NULL
  \/ \E c \in DOMAIN Commands : \E args \in ArgumentsOf(c), o \in Outcomes, b \in BOOLEAN :
       asked = AskedFor(c, args, o, b) /\ reply = Reply(c, args, o, b)

SendingInv ==
  /\ text \in Seq(Widths) /\ sent \in 0..Len(text) /\ got \in Seq(Widths)
  /\ result \in {"idle", "sending", "ok", "err"} /\ unended \in BOOLEAN
  /\ writes \in Seq(WriteType)
  /\ result = "idle" => text = <<>> /\ sent = 0 /\ writes = <<>> /\ got = <<>>
  /\ result = "sending" => sent < Len(text) /\ (InOrder \/ Stuck)
  /\ result = "ok" => Len(text) > 0 /\ sent = Len(text) /\ InOrder
  /\ Asking

LEMMA SendingInit1 == SendingInit => SendingInv
<1> SUFFICES ASSUME SendingInit PROVE SendingInv
  OBVIOUS
<1>1. /\ text = <<>> /\ sent = 0 /\ result = "idle" /\ writes = <<>> /\ asked = NULL /\ reply = NULL
      /\ got = <<>> /\ unended = FALSE
  BY DEF SendingInit
<1>2. text \in Seq(Widths) /\ Len(text) = 0 /\ writes \in Seq(WriteType) /\ got \in Seq(Widths)
  BY <1>1
<1>3. Asking
  BY <1>1 DEF Asking
<1>4. sent \in 0..Len(text) /\ result = "idle"
  BY <1>1, <1>2
<1>5. unended \in BOOLEAN
  BY <1>1, Zenon
<1> QED BY <1>1, <1>2, <1>3, <1>4, <1>5 DEF SendingInv

LEMMA StartStep == SendingInv /\ StartMessage => SendingInv'
<1> SUFFICES ASSUME SendingInv, StartMessage PROVE SendingInv'
  OBVIOUS
<1>1. /\ sent' = 0 /\ result' = "sending" /\ writes' = <<>> /\ UNCHANGED <<asked, reply>>
      /\ got' = <<>> /\ unended' \in BOOLEAN
  BY DEF SendingInv, StartMessage
<1>2. PICK n \in 1..MaxMessage : text' \in [1..n -> Widths]
  BY DEF StartMessage
<1>3. text' \in Seq(Widths) /\ Len(text') = n /\ n \in Nat /\ n > 0
  BY <1>2, SendingAssumption
<1>4. InOrder'
  <2>1. DOMAIN writes' = {} /\ SubSeq(text', 1, sent') = <<>>
    BY <1>1
  <2> QED BY <1>1, <2>1 DEF InOrder
<1>5. Asking'
  BY <1>1 DEF SendingInv, Asking
<1>6. writes' \in Seq(WriteType) /\ got' \in Seq(Widths) /\ sent' \in 0..Len(text')
  BY <1>1, <1>3, EmptySeq
<1> QED BY <1>1, <1>3, <1>4, <1>5, <1>6 DEF SendingInv

(* Two parts of a sequence that meet. *)
LEMMA PartsMeet ==
  ASSUME NEW S, NEW s \in Seq(S), NEW a \in 0..Len(s), NEW b \in 0..Len(s), a <= b
  PROVE  SubSeq(s, 1, a) \o SubSeq(s, a + 1, b) = SubSeq(s, 1, b)
<1>1. PICK n \in Nat : n = Len(s)
  BY LenProperties
<1>2. PICK p : p = SubSeq(s, 1, a)
  OBVIOUS
<1>3. PICK q : q = SubSeq(s, a + 1, b)
  OBVIOUS
<1>4. PICK t : t = SubSeq(s, 1, b)
  OBVIOUS
<1>5. p \in Seq(S) /\ Len(p) = a /\ \A j \in 1..a : p[j] = s[j]
  <2>1. 1 \in 1..Len(s) + 1 /\ a - 1 + 1 = a /\ 1 <= a + 1 /\ \A j \in 1..a : 1 + j - 1 = j
    BY <1>1
  <2> QED BY <1>2, <2>1, SubSeqIs
<1>6. t \in Seq(S) /\ Len(t) = b /\ \A j \in 1..b : t[j] = s[j]
  <2>1. 1 \in 1..Len(s) + 1 /\ b - 1 + 1 = b /\ 1 <= b + 1 /\ \A j \in 1..b : 1 + j - 1 = j
    BY <1>1
  <2> QED BY <1>4, <2>1, SubSeqIs
<1>7. q \in Seq(S) /\ Len(q) = b - a /\ \A j \in 1..b - a : q[j] = s[a + j]
  <2>1. PICK m \in 1..Len(s) + 1 : m = a + 1
    BY <1>1
  <2>2. m <= b + 1 /\ b - m + 1 = b - a /\ \A j \in 1..b - a : m + j - 1 = a + j
    BY <1>1, <2>1
  <2>3. /\ SubSeq(s, m, b) \in Seq(S) /\ Len(SubSeq(s, m, b)) = b - m + 1
        /\ \A j \in 1..b - m + 1 : SubSeq(s, m, b)[j] = s[m + j - 1]
    BY <2>2, SubSeqIs
  <2> QED BY <1>3, <2>1, <2>2, <2>3
<1>8. p \o q \in Seq(S) /\ Len(p \o q) = b
      /\ \A j \in 1..b : (p \o q)[j] = IF j <= a THEN p[j] ELSE q[j - a]
  <2>1. /\ p \o q \in Seq(S) /\ Len(p \o q) = Len(p) + Len(q)
        /\ \A j \in 1..Len(p) + Len(q) : (p \o q)[j] = IF j <= Len(p) THEN p[j] ELSE q[j - Len(p)]
    BY <1>5, <1>7, ConcatProperties
  <2>2. Len(p) + Len(q) = b
    BY <1>1, <1>5, <1>7
  <2>3. PICK v : v = p \o q
    OBVIOUS
  <2>4. v \in Seq(S) /\ Len(v) = b
    BY <2>1, <2>2, <2>3
  <2>5. ASSUME NEW j \in 1..b PROVE v[j] = IF j <= a THEN p[j] ELSE q[j - a]
    <3>1. v[j] = IF j <= Len(p) THEN p[j] ELSE q[j - Len(p)]
      BY <2>1, <2>2, <2>3
    <3> QED BY <1>5, <3>1
  <2> QED BY <2>3, <2>4, <2>5
<1>9. PICK u : u = p \o q
  OBVIOUS
<1>10. ASSUME NEW j \in 1..Len(u) PROVE u[j] = t[j]
  <2>1. j \in 1..b
    BY <1>8, <1>9
  <2>2. CASE j <= a
    <3>1. j \in 1..a
      BY <2>1, <2>2
    <3>2. u[j] = p[j]
      BY <1>8, <1>9, <2>1, <2>2
    <3> QED BY <1>5, <1>6, <2>1, <3>1, <3>2
  <2>3. CASE ~(j <= a)
    <3>1. j - a \in 1..b - a /\ a + (j - a) = j
      BY <1>1, <2>1, <2>3
    <3> QED BY <1>6, <1>7, <1>8, <1>9, <2>1, <2>3, <3>1
  <2> QED BY <2>2, <2>3
<1>11. u = t
  BY <1>6, <1>8, <1>9, <1>10, SeqEqual
<1> QED BY <1>2, <1>3, <1>4, <1>9, <1>11

LEMMA SentPart ==
  ASSUME SendingInv, NEW outcome \in Outcomes, SendPart(outcome)
  PROVE  SendingInv'
<1> DEFINE n == Fitting(Remaining)
           w == [from |-> sent + 1, to |-> sent + n, taken |-> outcome, behind |-> unended]
<1>1. /\ text \in Seq(Widths) /\ sent \in 0..Len(text) /\ sent < Len(text) /\ writes \in Seq(WriteType)
      /\ result = "sending" /\ (InOrder \/ Stuck) /\ text' = text
      /\ Len(text) \in Nat /\ sent \in Nat /\ got \in Seq(Widths) /\ unended \in BOOLEAN
  BY LenProperties DEF SendingInv, SendPart
<1>2. Asking'
  BY DEF SendingInv, SendPart, Asking
<1>3. text \in Seq(Nat) /\ \A i \in 1..Len(text) : text[i] \in Widths /\ text[i] \in Nat
  <2>1. Widths \subseteq Nat
    BY SendingAssumption
  <2>2. text \in Seq(Nat)
    BY <1>1, <2>1, SeqMonotonic
  <2>3. \A i \in 1..Len(text) : text[i] \in Widths
    BY <1>1, ElementOfSeq
  <2> QED BY <2>1, <2>2, <2>3
<1>4. /\ Remaining \in Seq(Nat) /\ Len(Remaining) = Len(text) - sent
      /\ \A j \in 1..Len(text) - sent : Remaining[j] = text[sent + j]
  BY SMTT(30), <1>1, <1>3, SubSeqProperties DEF Remaining
<1>5. n \in 0..Len(text) - sent /\ n \in Nat /\ Bytes8(SubSeq(Remaining, 1, n)) <= Room
  BY <1>1, <1>4, FittingFits
<1>6. CASE n = 0 /\ sent = 0
  <2>1. result' = "err" /\ sent' = sent /\ writes' = writes /\ got' = got /\ unended' = unended
    BY <1>6 DEF SendPart
  <2> QED BY <1>1, <1>2, <2>1 DEF SendingInv
<1>7. CASE ~(n = 0 /\ sent = 0)
  <2>1. /\ sent' = sent + n /\ writes' = Append(writes, w)
        /\ result' = CASE outcome = "none" -> "err"
                       [] outcome # "none" /\ sent + n = Len(text) -> "ok"
                       [] OTHER -> "sending"
        /\ got' = (IF ReadWhole(w) THEN got \o SubSeq(text, w.from, w.to) ELSE got)
        /\ unended' = Left(TRUE, outcome)
    BY <1>7 DEF SendPart
  <2> HIDE DEF n
  <2>10. w.from = sent + 1 /\ w.to = sent + n /\ w.taken = outcome /\ w.behind = unended
    OBVIOUS
  <2>11. PICK t : t = SubSeq(text, sent + 1, sent + n)
    OBVIOUS
  <2>12. t \in Seq(Widths) /\ SubSeq(text, 1, sent) \o t = SubSeq(text, 1, sent + n)
    <3>1. PICK b \in 0..Len(text) : b = sent + n /\ sent <= b
      BY <1>1, <1>5
    <3>2. SubSeq(text, 1, sent) \o SubSeq(text, sent + 1, b) = SubSeq(text, 1, b)
      BY <1>1, <3>1, PartsMeet
    <3>3. PICK m \in 1..Len(text) + 1 : m = sent + 1 /\ m <= b + 1
      BY <1>1, <3>1
    <3>4. SubSeq(text, m, b) \in Seq(Widths)
      BY <1>1, <3>3, SubSeqIs
    <3> QED BY <2>11, <3>1, <3>2, <3>3, <3>4
  <2>13. got' \in Seq(Widths) /\ unended' \in BOOLEAN
         /\ (ReadWhole(w) => got' = got \o t)
    <3>1. got \o t \in Seq(Widths)
      BY <1>1, <2>12, ConcatProperties
    <3>2. SubSeq(text, w.from, w.to) = t
      BY <2>10, <2>11
    <3>3. got' = (IF ReadWhole(w) THEN got \o t ELSE got)
      BY <2>1, <3>2
    <3>4. unended' \in BOOLEAN
      BY <1>1, <2>1 DEF Left
    <3> QED BY <1>1, <3>1, <3>3, <3>4
  <2>14. outcome # "none" => (unended' <=> outcome = "part")
    BY <2>1 DEF Left, Outcomes
  <2>2. w \in WriteType /\ sent' \in 0..Len(text) /\ sent' \in Nat
    <3>1. w \in WriteType
      BY <1>1, <1>5 DEF WriteType
    <3> QED BY <1>1, <1>5, <2>1, <3>1
  <2>3. /\ writes' \in Seq(WriteType) /\ Len(writes) \in Nat /\ Len(writes') = Len(writes) + 1
        /\ DOMAIN writes' = 1..Len(writes) + 1 /\ DOMAIN writes = 1..Len(writes)
        /\ writes'[Len(writes) + 1] = w /\ \A i \in 1..Len(writes) : writes'[i] = writes[i]
    BY <1>1, <2>1, <2>2, AppendProperties, LenProperties
  <2>4. writes' # <<>>
    BY <2>3
  <2>5. result' \in {"err", "ok", "sending"} /\ (outcome = "none" => result' = "err") /\ (result' = "ok" => sent' = Len(text))
        /\ (result' = "sending" => sent' < Len(text))
    BY <1>1, <1>5, <2>1
  <2>6. CASE n = 0
    <3>1. sent' = sent /\ sent > 0
      BY <1>1, <1>7, <2>1, <2>6
    <3>2. Remaining' = Remaining
      BY <1>1, <3>1 DEF Remaining
    <3>3. Fitting(Remaining') = 0
      BY <2>6, <3>2 DEF n
    <3>4. result' = "sending" => Stuck'
      BY <3>1, <3>3 DEF Stuck
    <3> QED BY <1>1, <1>2, <2>2, <2>3, <2>5, <2>13, <3>1, <3>4 DEF SendingInv
  <2>7. CASE n # 0 /\ InOrder
    <3>0. PICK k \in Nat : k = Len(writes)
      BY <2>3
    <3>1. /\ w.from = sent + 1 /\ w.to = sent + n
      OBVIOUS
    <3>2. sent = IF writes = <<>> THEN 0 ELSE writes[k].to
      BY <2>7, <3>0 DEF InOrder
    <3>3. writes = <<>> <=> k = 0
      BY <1>1, <3>0, EmptySeq
    <3>4. Before(k + 1)' = sent
      <4>1. CASE k = 0
        BY <3>0, <3>2, <3>3, <4>1 DEF Before
      <4>2. CASE k # 0
        BY <2>3, <3>0, <3>2, <3>3, <4>2 DEF Before
      <4> QED BY <4>1, <4>2
    <3>5. SubSeq(text, w.from, w.to) = SubSeq(Remaining, 1, n)
      <4> DEFINE a == SubSeq(text, sent + 1, sent + n)
                 b == SubSeq(Remaining, 1, n)
      <4>1. a \in Seq(Nat) /\ Len(a) = n /\ \A j \in 1..n : a[j] = text[sent + j]
        <5>1. PICK p \in Int, q \in Int : p = sent + 1 /\ q = sent + n
          BY <1>1, <1>5
        <5>2. \A j \in p..q : text[j] \in Nat
          BY <1>1, <1>3, <1>5, <5>1
        <5>3. /\ SubSeq(text, p, q) \in Seq(Nat)
              /\ Len(SubSeq(text, p, q)) = IF p <= q THEN q - p + 1 ELSE 0
              /\ \A j \in 1..q - p + 1 : SubSeq(text, p, q)[j] = text[p + j - 1]
          BY <5>2, SubSeqProperties
        <5>4. a = SubSeq(text, p, q)
          BY <5>1
        <5> HIDE DEF a
        <5>5. a \in Seq(Nat) /\ Len(a) = n
          BY <1>1, <1>5, <5>1, <5>3, <5>4
        <5>6. ASSUME NEW j \in 1..n PROVE a[j] = text[sent + j]
          <6>1. j \in 1..q - p + 1 /\ p + j - 1 = sent + j
            BY <1>1, <1>5, <5>1
          <6>2. a[j] = text[p + j - 1]
            BY <5>3, <5>4, <6>1
          <6> QED BY <6>1, <6>2
        <5> QED BY <5>5, <5>6
      <4>2. b \in Seq(Nat) /\ Len(b) = n /\ \A j \in 1..n : b[j] = Remaining[j]
        BY <1>1, <1>4, <1>5, SubSeqProperties
      <4> HIDE DEF a, b
      <4>3. ASSUME NEW j \in 1..n PROVE a[j] = b[j]
        <5>1. j \in 1..Len(text) - sent
          BY <1>1, <1>5
        <5>2. Remaining[j] = text[sent + j]
          BY <1>4, <5>1
        <5> QED BY <4>1, <4>2, <5>2
      <4>4. a = b
        BY <4>1, <4>2, <4>3, SeqEqual
      <4> QED BY <3>1, <4>4 DEF a, b
    <3>6. Part(k + 1)'
      <4>1. writes'[k + 1] = w
        BY <2>3, <3>0
      <4>2. w.from = sent + 1 /\ w.from <= w.to /\ w.to <= Len(text)
        BY <1>1, <1>5, <2>7, <3>1
      <4>3. Bytes8(SubSeq(text, w.from, w.to)) <= Room
        BY <1>5, <3>5 DEF n
      <4>5. k > 0 => (w.behind <=> writes'[k].taken = "part")
        BY <2>3, <2>7, <2>10, <3>0, <3>3 DEF InOrder
      <4> HIDE DEF w
      <4>4. writes'[k + 1].from = Before(k + 1)' + 1
        BY <3>4, <4>1, <4>2
      <4>6. k + 1 > 1 => (writes'[k + 1].behind <=> writes'[k + 1 - 1].taken = "part")
        BY <4>1, <4>5
      <4> QED BY <1>1, <4>1, <4>2, <4>3, <4>4, <4>6 DEF Part
    <3>7. ASSUME NEW i \in 1..k PROVE Part(i)'
      <4>1. Before(i)' = Before(i)
        BY <2>3, <3>0 DEF Before
      <4>2. Part(i)
        BY <2>3, <3>0, <2>7 DEF InOrder
      <4>3. writes'[i] = writes[i] /\ (i > 1 => writes'[i - 1] = writes[i - 1])
        BY <2>3, <3>0
      <4> QED BY <1>1, <4>1, <4>2, <4>3 DEF Part
    <3>8. sent' = writes'[Len(writes')].to
      BY <2>1, <2>3, <3>0, <3>1
    <3>10. writes'[k + 1] = w /\ k + 1 = Len(writes') /\ DOMAIN writes' = 1..k + 1
      BY <2>3, <3>0
    <3>11. ASSUME \A i \in DOMAIN writes' : ReadWhole(writes'[i])
           PROVE  got' = SubSeq(text', 1, sent')
      <4>1. \A i \in DOMAIN writes : ReadWhole(writes[i])
        BY <2>3, <3>0, <3>10, <3>11
      <4>2. got = SubSeq(text, 1, sent)
        BY <2>7, <4>1 DEF InOrder
      <4>3. ReadWhole(w)
        <5>1. k + 1 \in DOMAIN writes'
          BY <3>10
        <5> QED BY <3>10, <3>11, <5>1, Zenon
      <4>4. got' = SubSeq(text, 1, sent) \o t
        BY <2>13, <4>2, <4>3
      <4> QED BY <1>1, <2>1, <2>12, <4>4
    <3>9. ASSUME outcome # "none" PROVE InOrder'
      <4>1. \A i \in DOMAIN writes' : Part(i)'
        BY <3>6, <3>7, <3>10
      <4>2. unended' <=> writes'[Len(writes')].taken = "part"
        BY <2>10, <2>14, <3>9, <3>10
      <4> QED BY <2>4, <3>8, <3>11, <4>1, <4>2 DEF InOrder
    <3> QED BY <1>1, <1>2, <2>2, <2>3, <2>5, <2>13, <3>9 DEF SendingInv
  <2>8. CASE n # 0 /\ ~InOrder
    BY <1>1, <2>8 DEF Stuck, n
  <2> QED BY <2>6, <2>7, <2>8
<1> QED BY <1>6, <1>7

-----------------------------------------------------------------------------
(* n words, each behind a space. *)
Words(n) == [i \in 1..2 * n |-> IF i % 2 = 1 THEN SPACE ELSE "w"]

(* y is a, c and b in a row. *)
Joint(y, S, a, c, b) ==
  /\ y \in Seq(S) /\ Len(y) = Len(a) + 1 + Len(b)
  /\ \A i \in 1..Len(a) + 1 + Len(b) :
       y[i] = IF i <= Len(a) THEN a[i] ELSE IF i = Len(a) + 1 THEN c ELSE b[i - Len(a) - 1]

LEMMA JointJoined ==
  ASSUME NEW S, NEW c \in S, NEW a \in Seq(S), NEW b \in Seq(S)
  PROVE  Joint(a \o <<c>> \o b, S, a, c, b)
<1>1. <<c>> \in Seq(S) /\ Len(<<c>>) = 1 /\ <<c>>[1] = c
  OBVIOUS
<1> DEFINE s == <<c>>
           d == a \o s
<1>2. Len(a) \in Nat /\ Len(b) \in Nat
  BY LenProperties
<1> HIDE DEF s
<1>3. d \in Seq(S) /\ Len(d) = Len(a) + 1 /\ \A i \in 1..Len(a) + 1 : d[i] = IF i <= Len(a) THEN a[i] ELSE s[i - Len(a)]
  BY <1>1, ConcatProperties DEF s
<1> HIDE DEF d
<1> DEFINE y == d \o b
<1>4. /\ y \in Seq(S) /\ Len(y) = Len(d) + Len(b)
      /\ \A i \in 1..Len(d) + Len(b) : y[i] = IF i <= Len(d) THEN d[i] ELSE b[i - Len(d)]
  <2>1. d \in Seq(S)
    BY <1>3
  <2> QED BY <2>1, ConcatProperties, Zenon
<1> HIDE DEF y
<1>5. s[1] = c
  BY <1>1 DEF s
<1>6. ASSUME NEW i \in 1..Len(a) + 1 + Len(b)
      PROVE  y[i] = IF i <= Len(a) THEN a[i] ELSE IF i = Len(a) + 1 THEN c ELSE b[i - Len(a) - 1]
  <2>1. i \in 1..Len(d) + Len(b)
    BY <1>2, <1>3
  <2>2. CASE i <= Len(a)
    BY <1>2, <1>3, <1>4, <2>1, <2>2
  <2>3. CASE i = Len(a) + 1
    BY <1>2, <1>3, <1>4, <1>5, <2>1, <2>3
  <2>4. CASE i > Len(a) + 1
    BY <1>2, <1>3, <1>4, <2>1, <2>4
  <2> QED BY <1>2, <2>2, <2>3, <2>4
<1> DEFINE e == a \o <<c>> \o b
<1>7. e = y
  BY DEF d, s, y
<1> HIDE DEF e
<1>8. /\ e \in Seq(S) /\ Len(e) = Len(a) + 1 + Len(b)
      /\ \A i \in 1..Len(a) + 1 + Len(b) : e[i] =
           IF i <= Len(a) THEN a[i] ELSE IF i = Len(a) + 1 THEN c ELSE b[i - Len(a) - 1]
  BY <1>2, <1>3, <1>4, <1>6, <1>7
<1> QED BY <1>8 DEF e, Joint

IsJoin(f, S, c, ps, n) ==
  /\ f \in [0..n -> Seq(S)] /\ f[0] = <<>> /\ f[n] = JoinedBy(c, ps)
  /\ \A k \in 1..n : f[k] = f[k - 1] \o <<c>> \o ps[k]

LEMMA JoinedFold ==
  ASSUME NEW S, NEW c \in S, NEW ps \in Seq(Seq(S)), NEW n, n = Len(ps)
  PROVE  \E f : IsJoin(f, S, c, ps, n)
<1>0. n \in Nat /\ DOMAIN ps = 1..n /\ \A k \in 1..n : ps[k] \in Seq(S)
  BY LenProperties, ElementOfSeq
<1> DEFINE X == Seq(S)
           F == [p \in (1..n) \X X |-> p[2] \o <<c>> \o ps[p[1]]]
           Next(it, t) == IF t = {} THEN <<>> ELSE it[t \ {Max(t)}] \o <<c>> \o ps[Max(t)]
           g == CHOOSE h : h = [t \in SUBSET (1..n) |-> Next(h, t)]
<1>1. Steps(F, X, n) /\ <<>> \in X
  BY <1>0, JointJoined DEF Steps, Joint
<1>2. \A k \in 1..n, x \in X : F[<<k, x>>] = x \o <<c>> \o ps[k]
  OBVIOUS
<1>3. JoinedBy(c, ps) = g[1..n]
  BY <1>0 DEF JoinedBy, FoldLeft, MapThenFoldSet
<1> HIDE DEF F, X
<1>4. PICK it : IsFold(it, X, n, <<>>, F)
  BY <1>1, FoldExists
<1>5. it = [t \in SUBSET (1..n) |-> Next(it, t)]
  <2>1. ASSUME NEW t \in SUBSET (1..n), t # {}
        PROVE  it[t] = it[t \ {Max(t)}] \o <<c>> \o ps[Max(t)]
    BY <1>0, <1>2, <1>4, <2>1, MaxIn DEF IsFold
  <2>2. \A t \in SUBSET (1..n) : it[t] = Next(it, t)
    BY <1>4, <2>1 DEF IsFold
  <2>3. it = [t \in SUBSET (1..n) |-> it[t]]
    BY <1>4 DEF IsFold
  <2> QED BY <2>2, <2>3
<1>6. g = [t \in SUBSET (1..n) |-> Next(g, t)]
  BY <1>5
<1> HIDE DEF g
<1>7. Recurs(g, X, n, <<>>, F)
  <2>1. g[{}] = <<>> /\ \A t \in SUBSET (1..n) : t # {} => g[t] = g[t \ {Max(t)}] \o <<c>> \o ps[Max(t)]
    <3>1. {} \in SUBSET (1..n)
      OBVIOUS
    <3> QED BY <1>6, <3>1
  <2>2. \A t \in SUBSET (1..n) : t # {} => Max(t) \in 1..n
    BY <1>0, MaxIn
  <2> QED BY <1>2, <2>1, <2>2 DEF Recurs
<1>8. PICK f : IsLeftFold(f, g, X, n, <<>>, F)
  BY <1>0, <1>1, <1>7, FoldValues
<1>9. f \in [0..n -> X] /\ f[0] = <<>> /\ f[n] = JoinedBy(c, ps)
  BY <1>3, <1>8 DEF IsLeftFold
<1>10. ASSUME NEW k \in 1..n PROVE f[k] = f[k - 1] \o <<c>> \o ps[k]
  <2>0. k - 1 \in 0..n
    BY <1>0
  <2>1. f[k - 1] \in X
    BY <2>0, <1>9
  <2>2. f[k] = F[<<k, f[k - 1]>>]
    BY <1>8 DEF IsLeftFold
  <2> QED BY <1>2, <2>1, <2>2
<1> QED BY <1>0, <1>9, <1>10 DEF X, IsJoin

LEMMA WordsJoined ==
  ASSUME NEW n \in 0..3, NEW ps, ps = [i \in 1..n |-> Word]
  PROVE  JoinedBy(SPACE, ps) = Words(n)
<1> DEFINE S == {SPACE, "w"}
<1>1. Word \in Seq(S) /\ Len(Word) = 1 /\ Word[1] = "w"
  BY DEF Word
<1>2. ps \in Seq(Seq(S)) /\ Len(ps) = n /\ \A k \in 1..n : ps[k] = Word
  BY <1>1
<1> HIDE DEF S
<1>3. SPACE \in S
  BY DEF S
<1>4. PICK f \in [0..n -> Seq(S)] :
        /\ f[0] = <<>> /\ \A k \in 1..n : f[k] = f[k - 1] \o <<SPACE>> \o ps[k]
        /\ f[n] = JoinedBy(SPACE, ps)
  <2>1. n \in Nat /\ n = Len(ps)
    BY <1>2
  <2>2. ps \in Seq(Seq(S))
    BY <1>2
  <2>3. PICK f : IsJoin(f, S, SPACE, ps, n)
    BY <1>3, <2>1, <2>2, JoinedFold
  <2> QED BY <2>3 DEF IsJoin
<1>5. ASSUME NEW k \in 1..n, f[k - 1] = Words(k - 1) PROVE f[k] = Words(k)
  <2>0. PICK j \in 0..2 : j = k - 1
    OBVIOUS
  <2>1. f[j] = Words(j) /\ f[k] = f[j] \o <<SPACE>> \o Word /\ k = j + 1 /\ f[j] \in Seq(S)
    <3>1. k = j + 1 /\ j \in 0..n
      BY <2>0
    <3>2. f[j] \in Seq(S) /\ f[k] = f[k - 1] \o <<SPACE>> \o ps[k] /\ ps[k] = Word
      BY <1>2, <1>4, <3>1
    <3> QED BY <1>5, <2>0, <3>1, <3>2
  <2>2. Len(f[j]) = 2 * j /\ \A i \in 1..2 * j : f[j][i] = IF i % 2 = 1 THEN SPACE ELSE "w"
    BY <2>1 DEF Words
  <2> DEFINE y == f[j] \o <<SPACE>> \o Word
             z == Words(k)
  <2>3. /\ y \in Seq(S) /\ Len(y) = 2 * j + 2
        /\ \A i \in 1..2 * j + 2 : y[i] =
             IF i <= 2 * j THEN f[j][i] ELSE IF i = 2 * j + 1 THEN SPACE ELSE Word[i - 2 * j - 1]
    <3>1. f[j] \in Seq(S) /\ Word \in Seq(S) /\ Len(Word) = 1 /\ Len(f[j]) = 2 * j
      BY <1>1, <2>1, <2>2
    <3>2. /\ y \in Seq(S) /\ Len(y) = Len(f[j]) + 1 + Len(Word)
          /\ \A i \in 1..Len(f[j]) + 1 + Len(Word) : y[i] =
             IF i <= Len(f[j]) THEN f[j][i] ELSE IF i = Len(f[j]) + 1 THEN SPACE ELSE Word[i - Len(f[j]) - 1]
      <4>1. Joint(y, S, f[j], SPACE, Word)
        BY <1>3, <3>1, JointJoined
      <4> HIDE DEF y
      <4> QED BY <4>1 DEF Joint
    <3> HIDE DEF y
    <3>3. 2 * j + 1 + 1 = 2 * j + 2 /\ \A i \in Int : i - 2 * j - 1 = i - (2 * j) - 1
      OBVIOUS
    <3> QED BY <3>1, <3>2, <3>3
  <2> HIDE DEF y
  <2>4. z \in Seq(S) /\ Len(z) = 2 * j + 2 /\ \A i \in 1..2 * j + 2 : z[i] = IF i % 2 = 1 THEN SPACE ELSE "w"
    BY SMTT(30), <2>1, <1>3, <1>1 DEF Words, S
  <2> HIDE DEF z
  <2>5. ASSUME NEW i \in 1..2 * j + 2 PROVE y[i] = z[i]
    <3>1. CASE i <= 2 * j
      <4>1. i \in 1..2 * j
        BY <3>1
      <4>2. y[i] = f[j][i]
        BY <2>3, <3>1
      <4>3. f[j][i] = IF i % 2 = 1 THEN SPACE ELSE "w"
        BY <2>2, <4>1
      <4> QED BY <2>4, <4>2, <4>3
    <3>2. CASE i = 2 * j + 1
      BY <2>3, <2>4, <3>2
    <3>3. CASE i = 2 * j + 2
      BY <1>1, <2>3, <2>4, <3>3
    <3> QED BY <3>1, <3>2, <3>3
  <2>6. y = z
    BY <2>3, <2>4, <2>5, SeqEqual
  <2> QED BY <2>1, <2>6 DEF y, z
<1>6. f[0] = Words(0)
  BY <1>4 DEF Words
<1>7. CASE n = 0
  BY <1>4, <1>6, <1>7
<1>8. CASE n = 1
  BY <1>4, <1>5, <1>6, <1>8
<1>9. CASE n = 2
  <2>1. f[1] = Words(1)
    BY <1>5, <1>6, <1>9
  <2> QED BY <1>4, <1>5, <1>9, <2>1
<1>10. CASE n = 3
  <2>1. f[1] = Words(1)
    BY <1>5, <1>6, <1>10
  <2>2. f[2] = Words(2)
    BY <1>5, <2>1, <1>10
  <2> QED BY <1>4, <1>5, <1>10, <2>2
<1> QED BY <1>7, <1>8, <1>9, <1>10

-----------------------------------------------------------------------------
LEMMA SpaceIs == SPACE # "w" /\ SPACE # ":" /\ ":" # "w"
<1>1. SPACE # "w"
  BY Zenon DEF SPACE
<1>2. SPACE # ":"
  BY Zenon DEF SPACE
<1> QED BY <1>1, <1>2

(* The words alone, without the space before the first. *)
Bare(m) == [i \in 1..2 * m - 1 |-> IF i % 2 = 1 THEN "w" ELSE SPACE]

LEMMA BareTokens ==
  ASSUME NEW m \in 1..3
  PROVE  Tokens(Bare(m)) = [k \in 1..m |-> Word]
<1> DEFINE S == {SPACE, "w"}
           s == Bare(m)
           a == [k \in 1..m |-> 2 * k - 1]
<1>1. s \in Seq(S) /\ Len(s) = 2 * m - 1 /\ \A i \in 1..2 * m - 1 : s[i] = IF i % 2 = 1 THEN "w" ELSE SPACE
  BY DEF Bare
<1>2. \A k \in 1..m : a[k] = 2 * k - 1
  OBVIOUS
<1>3. a \in [1..m -> Nat]
  OBVIOUS
<1> HIDE DEF s, a, S
<1>4. Located(s, a, a, m)
  <2>1. ASSUME NEW k \in 1..m PROVE 1 <= a[k] /\ a[k] <= a[k] /\ a[k] <= Len(s)
    BY <1>1, <1>2
  <2>2. ASSUME NEW k \in 1..m, NEW j \in a[k]..a[k] PROVE s[j] # SPACE
    <3>1. j = 2 * k - 1 /\ j \in 1..2 * m - 1 /\ j % 2 = 1
      BY <1>2
    <3> QED BY <1>1, <3>1, SpaceIs
  <2>3. ASSUME NEW i \in 1..m, NEW k \in 1..m, i < k PROVE a[i] + 1 < a[k]
    BY <1>2, <2>3
  <2>4. ASSUME NEW j \in 1..Len(s), s[j] # SPACE PROVE \E k \in 1..m : j \in a[k]..a[k]
    <3>1. j \in 1..2 * m - 1 /\ j % 2 = 1
      BY <1>1, <2>4
    <3>2. PICK k \in 1..m : j = 2 * k - 1
      BY <3>1
    <3> QED BY <1>2, <3>2
  <2> QED BY <1>3, <2>1, <2>2, <2>3, <2>4 DEF Located
<1>5. Tokens(s) = [k \in 1..m |-> SubSeq(s, a[k], a[k])]
  <2>1. m \in Nat /\ m # 0
    OBVIOUS
  <2>2. Tokens(s) = WordsAt(s, a, a, m)
    BY <1>1, <1>4, <2>1, TokensOfWords
  <2> QED BY <2>2 DEF WordsAt
<1>6. ASSUME NEW k \in 1..m PROVE SubSeq(s, a[k], a[k]) = Word
  <2>1. PICK p \in 1..Len(s) : p = a[k] /\ p = 2 * k - 1
    BY <1>1, <1>2
  <2> DEFINE t == SubSeq(s, p, p)
  <2>2. t \in Seq(S) /\ Len(t) = p - p + 1 /\ \A j \in 1..p - p + 1 : t[j] = s[p + j - 1]
    <3>1. Len(s) \in Nat /\ p \in 1..Len(s) + 1 /\ p \in 0..Len(s) /\ p <= p + 1
      BY <1>1, <2>1
    <3> QED BY <1>1, <3>1, SubSeqIs
  <2> HIDE DEF t
  <2>3. t \in Seq(S) /\ Len(t) = 1 /\ t[1] = s[p]
    <3>1. p \in Int /\ p - p + 1 = 1 /\ p + 1 - 1 = p
      BY <1>1, <2>1
    <3>2. 1 \in 1..p - p + 1
      BY <3>1
    <3> QED BY <2>2, <3>1, <3>2
  <2>4. s[p] = "w"
    BY <1>1, <2>1
  <2>5. t = Word
    BY <2>3, <2>4 DEF Word
  <2> QED BY <2>1, <2>5 DEF t
<1> QED BY <1>5, <1>6 DEF s

(* A line: the command, words, and what is behind them. *)
WrittenLine(c, m, e) == <<c>> \o Words(m) \o e

Layout(l, S, c, m, e) ==
  /\ l \in Seq(S) /\ Len(l) = 1 + 2 * m + Len(e) /\ l[1] = c
  /\ \A i \in 1..2 * m : l[i + 1] = IF i % 2 = 1 THEN SPACE ELSE "w"
  /\ \A i \in 1..Len(e) : l[1 + 2 * m + i] = e[i]

LEMMA WrittenIs ==
  ASSUME NEW S, {SPACE, "w"} \subseteq S, NEW c \in S, NEW m \in 0..3, NEW e \in Seq(S)
  PROVE  Layout(WrittenLine(c, m, e), S, c, m, e)
<1> DEFINE w == Words(m)
           d == <<c>> \o w
           l == d \o e
           n == Len(e)
<1>1. w \in Seq(S) /\ Len(w) = 2 * m /\ \A i \in 1..2 * m : w[i] = IF i % 2 = 1 THEN SPACE ELSE "w"
  BY DEF Words
<1>2. <<c>> \in Seq(S) /\ Len(<<c>>) = 1 /\ <<c>>[1] = c
  OBVIOUS
<1> HIDE DEF w
<1>3. d \in Seq(S) /\ Len(d) = Len(<<c>>) + Len(w)
      /\ \A i \in 1..Len(<<c>>) + Len(w) : d[i] = IF i <= Len(<<c>>) THEN <<c>>[i] ELSE w[i - Len(<<c>>)]
  BY <1>1, <1>2, ConcatProperties, Zenon
<1>4. d \in Seq(S) /\ Len(d) = 1 + 2 * m /\ \A i \in 1..1 + 2 * m : d[i] = IF i <= 1 THEN c ELSE w[i - 1]
  <2> HIDE DEF d
  <2>1. d \in Seq(S) /\ Len(d) = 1 + 2 * m
    BY <1>1, <1>2, <1>3
  <2>2. ASSUME NEW i \in 1..1 + 2 * m PROVE d[i] = IF i <= 1 THEN c ELSE w[i - 1]
    BY <1>1, <1>2, <1>3
  <2> QED BY <2>1, <2>2
<1> HIDE DEF d
<1>5. l \in Seq(S) /\ Len(l) = Len(d) + Len(e) /\ \A i \in 1..Len(d) + Len(e) : l[i] = IF i <= Len(d) THEN d[i] ELSE e[i - Len(d)]
  BY <1>4, ConcatProperties, Zenon
<1>6. n \in Nat /\ n = Len(e)
  BY LenProperties
<1> HIDE DEF l, n
<1>7. l \in Seq(S) /\ Len(l) = 1 + 2 * m + n
  BY <1>4, <1>5, <1>6
<1>8. l[1] = c
  <2>1. 1 \in 1..Len(d) + Len(e) /\ 1 <= Len(d) /\ 1 \in 1..1 + 2 * m
    BY <1>4, <1>6
  <2> QED BY <1>4, <1>5, <2>1
<1>9. ASSUME NEW i \in 1..2 * m PROVE l[i + 1] = IF i % 2 = 1 THEN SPACE ELSE "w"
  <2>1. i + 1 \in 1..Len(d) + Len(e) /\ i + 1 <= Len(d) /\ i + 1 \in 1..1 + 2 * m /\ ~(i + 1 <= 1) /\ i + 1 - 1 = i
    BY <1>4, <1>6
  <2>2. l[i + 1] = d[i + 1]
    BY <1>5, <2>1
  <2>3. d[i + 1] = w[i]
    BY <1>4, <2>1
  <2> QED BY <1>1, <2>2, <2>3
<1>10. ASSUME NEW i \in 1..n PROVE l[1 + 2 * m + i] = e[i]
  <2>1. 1 + 2 * m + i \in 1..Len(d) + Len(e) /\ ~(1 + 2 * m + i <= Len(d)) /\ 1 + 2 * m + i - Len(d) = i
    BY <1>4, <1>6
  <2>2. PICK j \in 1..Len(d) + Len(e) : j = 1 + 2 * m + i
    BY <2>1
  <2>3. l[j] = e[j - Len(d)]
    BY <1>5, <2>1, <2>2
  <2> QED BY <2>1, <2>2, <2>3
<1>11. WrittenLine(c, m, e) = l
  BY DEF WrittenLine, l, d, w
<1>12. Layout(l, S, c, m, e)
  BY <1>6, <1>7, <1>8, <1>9, <1>10 DEF Layout
<1> QED BY <1>11, <1>12

(* Behind the command and its space. *)
RestLaid(r, S, m, e) ==
  /\ r \in Seq(S) /\ Len(r) = 2 * m + Len(e) - 1
  /\ \A i \in 1..2 * m + Len(e) - 1 :
       r[i] = IF i < 2 * m THEN (IF i % 2 = 1 THEN "w" ELSE SPACE) ELSE e[i + 1 - 2 * m]

LEMMA RestOfWritten ==
  ASSUME NEW S, {SPACE, "w"} \subseteq S, NEW c \in S, c # SPACE, NEW m \in 0..3, NEW e \in Seq(S),
         m > 0 \/ (e # <<>> /\ e[1] = SPACE)
  PROVE  RestLaid(Rest(WrittenLine(c, m, e), SPACE), S, m, e)
<1> DEFINE l == WrittenLine(c, m, e)
           n == Len(e)
           r == Rest(l, SPACE)
<1>1. /\ l \in Seq(S) /\ Len(l) = 1 + 2 * m + n /\ l[1] = c
      /\ \A i \in 1..2 * m : l[i + 1] = IF i % 2 = 1 THEN SPACE ELSE "w"
      /\ \A i \in 1..n : l[1 + 2 * m + i] = e[i]
  <2>1. Layout(l, S, c, m, e)
    BY WrittenIs
  <2> HIDE DEF l
  <2> QED BY <2>1 DEF Layout
<1>2. n \in Nat /\ (m = 0 => n > 0 /\ e[1] = SPACE)
  BY LenProperties, EmptySeq
<1> HIDE DEF l, n
<1>3. l[2] = SPACE
  <2>1. CASE m = 0
    <3>1. 1 \in 1..n /\ 1 + 2 * m + 1 = 2
      BY <1>2, <2>1
    <3> QED BY <1>1, <1>2, <2>1, <3>1
  <2>2. CASE m > 0
    <3>1. 1 \in 1..2 * m /\ 1 % 2 = 1 /\ 1 + 1 = 2
      BY <2>2
    <3> QED BY <1>1, <3>1
  <2> QED BY <2>1, <2>2
<1>4. r = From(l, 3)
  <2>1. 2 \in 2..Len(l) /\ \A j \in 1..2 - 1 : l[j] # SPACE
    BY <1>1, <1>2
  <2> QED BY <1>1, <1>3, <2>1, TokenIs
<1>5. r \in Seq(S) /\ Len(r) = Len(l) - 3 + 1 /\ \A j \in 1..Len(l) - 3 + 1 : r[j] = l[3 + j - 1]
  <2>1. PICK h \in 1..Len(l) + 1 : h = 3
    BY <1>1, <1>2
  <2> HIDE DEF r
  <2>2. l \in Seq(S)
    BY <1>1
  <2>3. /\ From(l, h) \in Seq(S) /\ Len(From(l, h)) = Len(l) - h + 1
        /\ \A j \in 1..Len(l) - h + 1 : From(l, h)[j] = l[h + j - 1]
    BY ZenonT(30), <2>1, <2>2, FromIs
  <2>4. r = From(l, h)
    BY <1>4, <2>1
  <2> QED BY <2>1, <2>3, <2>4
<1> HIDE DEF r
<1>6. r \in Seq(S) /\ Len(r) = 2 * m + n - 1
  BY <1>1, <1>2, <1>5
<1>7. ASSUME NEW i \in 1..2 * m + n - 1
      PROVE  r[i] = IF i < 2 * m THEN (IF i % 2 = 1 THEN "w" ELSE SPACE) ELSE e[i + 1 - 2 * m]
  <2>1. r[i] = l[i + 2]
    <3>1. i \in 1..Len(l) - 3 + 1 /\ 3 + i - 1 = i + 2
      BY <1>1, <1>2
    <3> QED BY <1>5, <3>1
  <2>2. CASE i < 2 * m
    <3>1. i + 1 \in 1..2 * m /\ i + 1 + 1 = i + 2 /\ ((i + 1) % 2 = 1 <=> i % 2 # 1)
      BY <2>2
    <3> QED BY <1>1, <2>1, <2>2, <3>1
  <2>3. CASE ~(i < 2 * m)
    <3>1. i + 1 - 2 * m \in 1..n /\ 1 + 2 * m + (i + 1 - 2 * m) = i + 2
      BY <1>2, <2>3
    <3>2. PICK k \in 1..n : k = i + 1 - 2 * m /\ 1 + 2 * m + k = i + 2
      BY <3>1
    <3>3. l[1 + 2 * m + k] = e[k]
      BY <1>1
    <3>4. r[i] = e[k]
      BY <2>1, <3>2, <3>3
    <3> QED BY <2>3, <3>2, <3>4
  <2> QED BY <2>2, <2>3
<1> QED BY <1>6, <1>7 DEF r, l, n, RestLaid

(* What ParamsOf makes of the parameters: words and a text behind a colon. *)
LEMMA ParamsWithText ==
  ASSUME NEW S, NEW s \in Seq(S), NEW m \in 0..3, NEW x \in Seq(S), Len(s) = 2 * m + 1 + Len(x),
         \A i \in 1..2 * m : s[i] = IF i % 2 = 1 THEN "w" ELSE SPACE,
         s[2 * m + 1] = ":", \A i \in 1..Len(x) : s[2 * m + 1 + i] = x[i]
  PROVE  ParamsOf(s) = Append([k \in 1..m |-> Word], x)
<1> DEFINE n == Len(x)
<1>1. n \in Nat /\ n = Len(x) /\ Len(s) = 2 * m + 1 + n
  BY LenProperties
<1> HIDE DEF n
<1>2. CASE m = 0
  <2>1. s[1] = ":" /\ Len(s) = n + 1 /\ s # <<>>
    BY <1>1, <1>2
  <2>2. ParamsOf(s) = <<Tail(s)>>
    BY <2>1 DEF ParamsOf
  <2>3. Tail(s) \in Seq(S) /\ Len(Tail(s)) = n /\ \A i \in 1..n : Tail(s)[i] = s[i + 1]
    BY <1>1, <2>1
  <2>4. \A i \in 1..n : Tail(s)[i] = x[i]
    BY <1>1, <1>2, <2>3
  <2>5. Tail(s) = x
    BY <1>1, <2>3, <2>4, SeqEqual
  <2>6. [k \in 1..m |-> Word] = <<>>
    BY <1>2
  <2>7. Append(<<>>, x) = <<x>>
    OBVIOUS
  <2> QED BY <2>2, <2>5, <2>6, <2>7, Zenon
<1>3. CASE m > 0
  <2> DEFINE at == {i \in 1..Len(s) - 1 : s[i] = SPACE /\ s[i + 1] = ":"}
  <2>1. s[1] # ":"
    <3>1. 1 \in 1..2 * m /\ 1 % 2 = 1
      BY <1>3
    <3> QED BY <3>1, SpaceIs
  <2>2. 2 * m \in at
    <3>1. 2 * m \in 1..2 * m /\ (2 * m) % 2 = 0 /\ 2 * m \in 1..Len(s) - 1
      BY <1>1, <1>3
    <3>2. s[2 * m] = SPACE
      BY <3>1
    <3> QED BY <3>1, <3>2
  <2>3. ASSUME NEW i \in at PROVE 2 * m <= i
    <3>1. CASE i < 2 * m
      <4>1. i \in 1..2 * m /\ i + 1 \in 1..2 * m
        BY <1>1, <3>1
      <4>2. s[i + 1] # ":"
        BY <4>1, SpaceIs
      <4> QED BY <4>2
    <3> QED BY <3>1, <1>1
  <2>4. ParamsOf(s) = LET i == CHOOSE i \in at : \A j \in at : i <= j
                      IN  Append(Tokens(SubSeq(s, 1, i - 1)), From(s, i + 2))
    BY <2>1, <2>2 DEF ParamsOf
  <2>5. at \subseteq Int
    OBVIOUS
  <2>6. PICK p \in Int : p = 2 * m
    OBVIOUS
  <2> HIDE DEF at
  <2>7. (CHOOSE i \in at : \A j \in at : i <= j) = p
    BY <2>2, <2>3, <2>5, <2>6, LeastIs
  <2>8. ParamsOf(s) = Append(Tokens(SubSeq(s, 1, p - 1)), From(s, p + 2))
    BY <2>4, <2>7
  <2>9. SubSeq(s, 1, p - 1) = Bare(m)
    <3> DEFINE t == SubSeq(s, 1, p - 1)
    <3>1. PICK h \in 0..Len(s) : h = p - 1 /\ h = 2 * m - 1 /\ 1 \in 1..Len(s) + 1 /\ 1 <= h + 1
      BY <1>1, <1>3, <2>6
    <3>2. SubSeq(s, 1, h) \in Seq(S) /\ Len(SubSeq(s, 1, h)) = h - 1 + 1
          /\ \A j \in 1..h - 1 + 1 : SubSeq(s, 1, h)[j] = s[1 + j - 1]
      BY <3>1, SubSeqIs
    <3>3. t = SubSeq(s, 1, h)
      BY <3>1
    <3> HIDE DEF t
    <3>4. t \in Seq(S) /\ Len(t) = 2 * m - 1 /\ \A j \in 1..2 * m - 1 : t[j] = s[j]
      BY <3>1, <3>2, <3>3
    <3>5. \A j \in 1..2 * m - 1 : t[j] = IF j % 2 = 1 THEN "w" ELSE SPACE
      BY <3>4
    <3>6. t = [j \in 1..2 * m - 1 |-> t[j]]
      BY <3>4, LenProperties
    <3>7. t = Bare(m)
      BY <3>5, <3>6 DEF Bare
    <3> QED BY <3>7 DEF t
  <2>10. From(s, p + 2) = x
    <3> DEFINE t == From(s, p + 2)
    <3>1. PICK h \in 1..Len(s) + 1 : h = p + 2 /\ h = 2 * m + 2
      BY <1>1, <1>3, <2>6
    <3>2. From(s, h) \in Seq(S) /\ Len(From(s, h)) = Len(s) - h + 1
          /\ \A j \in 1..Len(s) - h + 1 : From(s, h)[j] = s[h + j - 1]
      BY FromIs
    <3>3. t = From(s, h)
      BY <3>1
    <3> HIDE DEF t
    <3>4. t \in Seq(S) /\ Len(t) = n
      BY <1>1, <3>1, <3>2, <3>3
    <3>5. ASSUME NEW j \in 1..n PROVE t[j] = x[j]
      <4>1. j \in 1..Len(s) - h + 1 /\ h + j - 1 = 2 * m + 1 + j
        BY <1>1, <3>1
      <4>2. s[2 * m + 1 + j] = x[j]
        BY <1>1
      <4> QED BY <3>2, <3>3, <4>1, <4>2
    <3>6. t = x
      BY <1>1, <3>4, <3>5, SeqEqual
    <3> QED BY <3>6 DEF t
  <2>11. m \in 1..3
    BY <1>3
  <2>12. Tokens(Bare(m)) = [k \in 1..m |-> Word]
    BY <2>11, BareTokens
  <2> QED BY <2>8, <2>9, <2>10, <2>12
<1> QED BY <1>2, <1>3

LEMMA ParamsOfWords ==
  ASSUME NEW S, NEW s \in Seq(S), NEW m \in 1..3, Len(s) = 2 * m - 1,
         \A i \in 1..2 * m - 1 : s[i] = IF i % 2 = 1 THEN "w" ELSE SPACE
  PROVE  ParamsOf(s) = [k \in 1..m |-> Word]
<1>1. s = Bare(m)
  <2>1. s = [j \in 1..2 * m - 1 |-> s[j]]
    BY LenProperties
  <2> QED BY <2>1 DEF Bare
<1>2. s[1] # ":"
  <2>1. 1 \in 1..2 * m - 1 /\ 1 % 2 = 1
    OBVIOUS
  <2> QED BY <2>1, SpaceIs
<1>3. {i \in 1..Len(s) - 1 : s[i] = SPACE /\ s[i + 1] = ":"} = {}
  <2>1. ASSUME NEW i \in 1..Len(s) - 1 PROVE s[i + 1] # ":"
    <3>1. i + 1 \in 1..2 * m - 1
      OBVIOUS
    <3> QED BY <3>1, SpaceIs
  <2> QED BY <2>1
<1>4. ParamsOf(s) = Tokens(s)
  BY <1>2, <1>3 DEF ParamsOf
<1> QED BY <1>1, <1>4, BareTokens

-----------------------------------------------------------------------------
(* m arguments that are words. *)
Several(m) == [k \in 1..m |-> Word]

CommandNames ==
  {"PING", "PONG", "USER", "JOIN", "PART", "NICK", "QUIT", "TOPIC", "NAMES", "WHOIS",
   "INVITE", "KICK", "PASS", "LIST", "AUTHENTICATE", "AWAY"}

Kind(c) ==
  /\ c \in TextCommands <=> Commands[c].colon
  /\ Commands[c].optional \in BOOLEAN /\ Commands[c].colon \in BOOLEAN
  /\ Commands[c].needs \in 0..4
  /\ Commands[c].colon /\ ~Commands[c].optional => Commands[c].needs \in {1, 4}
  /\ Commands[c].colon /\ Commands[c].optional => Commands[c].needs \in 0..2
  /\ ~Commands[c].colon /\ ~Commands[c].optional => Commands[c].needs \in 1..2
  /\ ~Commands[c].colon /\ Commands[c].optional => Commands[c].needs = 0

LEMMA Entries ==
  /\ Commands["PING"] = Command(1, FALSE, TRUE)
  /\ Commands["PONG"] = Command(1, FALSE, TRUE)
  /\ Commands["USER"] = Command(4, FALSE, TRUE)
  /\ Commands["JOIN"] = Command(1, TRUE, TRUE)
  /\ Commands["PART"] = Command(1, TRUE, TRUE)
  /\ Commands["NICK"] = Command(1, FALSE, FALSE)
  /\ Commands["QUIT"] = Command(0, TRUE, TRUE)
  /\ Commands["TOPIC"] = Command(1, TRUE, TRUE)
  /\ Commands["NAMES"] = Command(1, FALSE, FALSE)
  /\ Commands["WHOIS"] = Command(1, FALSE, FALSE)
  /\ Commands["INVITE"] = Command(2, FALSE, FALSE)
  /\ Commands["KICK"] = Command(2, TRUE, TRUE)
  /\ Commands["PASS"] = Command(1, FALSE, TRUE)
  /\ Commands["LIST"] = Command(0, TRUE, FALSE)
  /\ Commands["AUTHENTICATE"] = Command(1, FALSE, FALSE)
  /\ Commands["AWAY"] = Command(0, TRUE, FALSE)
BY DEF Commands

(* sirc_cmd.c: where each kind of command has its arguments. *)
LEMMA CommandTable ==
  ASSUME NEW c \in DOMAIN Commands
  PROVE  c \in CommandNames /\ c # SPACE /\ Kind(c)
<1>1. c \in CommandNames
  BY DEF Commands, CommandNames
<1>2. c # SPACE
  BY <1>1, Zenon DEF CommandNames, SPACE
<1>3. Kind(c)
  <2>1. CASE c \in {"PING", "PONG", "PASS"}
    <3>1. Commands[c] = Command(1, FALSE, TRUE)
      BY <2>1, Entries
    <3>2. c \in TextCommands
      BY <2>1 DEF TextCommands
    <3> QED BY <3>1, <3>2 DEF Kind, Command
  <2>2. CASE c \in {"USER"}
    <3>1. Commands[c] = Command(4, FALSE, TRUE)
      BY <2>2, Entries
    <3>2. c \in TextCommands
      BY <2>2 DEF TextCommands
    <3> QED BY <3>1, <3>2 DEF Kind, Command
  <2>3. CASE c \in {"JOIN", "PART", "TOPIC"}
    <3>1. Commands[c] = Command(1, TRUE, TRUE)
      BY <2>3, Entries
    <3>2. c \in TextCommands
      BY <2>3 DEF TextCommands
    <3> QED BY <3>1, <3>2 DEF Kind, Command
  <2>4. CASE c \in {"NICK", "NAMES", "WHOIS", "AUTHENTICATE"}
    <3>1. Commands[c] = Command(1, FALSE, FALSE)
      BY <2>4, Entries
    <3>2. c \notin TextCommands
      BY <2>4 DEF TextCommands
    <3> QED BY <3>1, <3>2 DEF Kind, Command
  <2>5. CASE c \in {"QUIT"}
    <3>1. Commands[c] = Command(0, TRUE, TRUE)
      BY <2>5, Entries
    <3>2. c \in TextCommands
      BY <2>5 DEF TextCommands
    <3> QED BY <3>1, <3>2 DEF Kind, Command
  <2>6. CASE c \in {"INVITE"}
    <3>1. Commands[c] = Command(2, FALSE, FALSE)
      BY <2>6, Entries
    <3>2. c \notin TextCommands
      BY <2>6 DEF TextCommands
    <3> QED BY <3>1, <3>2 DEF Kind, Command
  <2>7. CASE c \in {"KICK"}
    <3>1. Commands[c] = Command(2, TRUE, TRUE)
      BY <2>7, Entries
    <3>2. c \in TextCommands
      BY <2>7 DEF TextCommands
    <3> QED BY <3>1, <3>2 DEF Kind, Command
  <2>8. CASE c \in {"LIST", "AWAY"}
    <3>1. Commands[c] = Command(0, TRUE, FALSE)
      BY <2>8, Entries
    <3>2. c \notin TextCommands
      BY <2>8 DEF TextCommands
    <3> QED BY <3>1, <3>2 DEF Kind, Command
  <2> QED BY <1>1, <2>1, <2>2, <2>3, <2>4, <2>5, <2>6, <2>7, <2>8 DEF CommandNames
<1> QED BY <1>1, <1>2, <1>3

Shape(c, args) ==
  \/ \E m \in 1..3 : args = Several(m) /\ ~(Commands[c].colon /\ m = Full(c))
  \/ \E m \in 0..3, x \in Texts : args = Append(Several(m), x) /\ Commands[c].colon /\ m + 1 = Full(c)

LEMMA ArgumentsShape ==
  ASSUME NEW c \in DOMAIN Commands, NEW args \in ArgumentsOf(c)
  PROVE  Shape(c, args)
<1>1. Kind(c)
  BY CommandTable
<1> DEFINE n == Commands[c].needs
           words == [i \in 1..n |-> Word]
<1>2. words = Several(n)
  BY DEF Several
<1>3. CASE Commands[c].colon /\ ~Commands[c].optional
  <2>1. n \in {1, 4} /\ Full(c) = n
    BY <1>1, <1>3 DEF Kind, Full
  <2>2. PICK x \in Texts : args = [words EXCEPT ![Len(words)] = x]
    BY <1>1, <1>3 DEF ArgumentsOf, Kind
  <2> HIDE DEF n
  <2>3. PICK m \in 0..3 : m = n - 1
    BY <2>1
  <2>4. Len(words) = n
    BY <2>1
  <2>5. args = Append(Several(m), x)
    BY <2>1, <2>2, <2>3, <2>4 DEF Several
  <2>6. m + 1 = Full(c)
    BY <2>1, <2>3
  <2> QED BY <1>3, <2>5, <2>6 DEF Shape
<1>4. CASE Commands[c].colon /\ Commands[c].optional
  <2>1. n \in 0..2 /\ Full(c) = n + 1
    BY <1>1, <1>4 DEF Kind, Full
  <2>2. args \in {words} \ {<<>>} \/ \E x \in Texts : args = Append(words, x)
    BY <1>1, <1>4 DEF ArgumentsOf, Kind
  <2> HIDE DEF n
  <2>3. CASE args \in {words} \ {<<>>}
    <3>1. n # 0
      BY <2>3
    <3>2. n \in 1..3 /\ n # Full(c)
      BY <2>1, <3>1
    <3>3. args = Several(n)
      BY <1>2, <2>3
    <3> QED BY <3>2, <3>3 DEF Shape
  <2>4. CASE \E x \in Texts : args = Append(words, x)
    <3>1. n \in 0..3
      BY <2>1
    <3> QED BY <1>2, <1>4, <2>1, <2>4, <3>1 DEF Shape
  <2> QED BY <2>2, <2>3, <2>4
<1>5. CASE ~Commands[c].colon
  <2>1. \/ args = Append(words, Word) /\ n = 0
        \/ args = [words EXCEPT ![Len(words)] = Word] /\ n \in 1..2
    <3>1. c \notin TextCommands
      BY <1>1, <1>5 DEF Kind
    <3>2. CASE Commands[c].optional
      <4>1. args \in ({words} \ {<<>>}) \cup {Append(words, x) : x \in {Word}}
        BY <3>1, <3>2 DEF ArgumentsOf
      <4>2. n = 0 /\ words = <<>>
        BY <1>1, <1>5, <3>2 DEF Kind
      <4>3. args = Append(words, Word) /\ n = 0
        BY <4>1, <4>2
      <4> QED BY <4>3, Zenon
    <3>3. CASE ~Commands[c].optional
      <4>1. args \in {[words EXCEPT ![Len(words)] = x] : x \in {Word}}
        BY <3>1, <3>3 DEF ArgumentsOf
      <4>2. n \in 1..2
        BY <1>1, <1>5, <3>3 DEF Kind
      <4> QED BY <4>1, <4>2
    <3> QED BY <3>2, <3>3
  <2> HIDE DEF n
  <2>2. CASE args = Append(words, Word) /\ n = 0
    <3>1. args = Several(1)
      BY <2>2 DEF Several
    <3> QED BY <1>5, <3>1 DEF Shape
  <2>3. CASE args = [words EXCEPT ![Len(words)] = Word] /\ n \in 1..2
    <3>1. args = Several(n)
      BY <2>3 DEF Several
    <3> QED BY <1>5, <2>3, <3>1 DEF Shape
  <2> QED BY <2>1, <2>2, <2>3
<1>6. Commands[c].optional \in BOOLEAN /\ Commands[c].colon \in BOOLEAN
  BY <1>1 DEF Kind
<1> QED BY <1>3, <1>4, <1>5, <1>6

-----------------------------------------------------------------------------
LastBehind(c, args) == WithColon(c) /\ Len(args) = Full(c)

LEMMA TextJoined ==
  ASSUME NEW c, NEW args
  PROVE  CommandText(c, args) =
           <<c>> \o JoinedBy(SPACE, IF LastBehind(c, args) THEN Front(args) ELSE args)
                 \o (IF LastBehind(c, args) THEN <<SPACE, ":">> \o args[Len(args)] ELSE <<>>)
BY Zenon DEF CommandText, LastBehind

(* The line of a command whose last argument stands behind a colon. *)
LEMMA TextBehind ==
  ASSUME NEW c \in DOMAIN Commands, NEW m \in 0..3, NEW S, NEW x \in Seq(S), NEW args,
         args = Append(Several(m), x), Commands[c].colon, m + 1 = Full(c)
  PROVE  CommandText(c, args) = WrittenLine(c, m, <<SPACE, ":">> \o x)
<1> DEFINE w == Several(m)
<1>1. w \in Seq({Word}) /\ Len(w) = m /\ w = [k \in 1..m |-> Word]
  BY DEF Several
<1> HIDE DEF w
<1>2. w \in Seq({Word, x}) /\ x \in {Word, x}
  BY <1>1, SeqMonotonic
<1>3. args \in Seq({Word, x}) /\ Len(args) = m + 1 /\ args[m + 1] = x /\ \A i \in 1..m : args[i] = w[i]
  <2>1. args = Append(w, x)
    BY DEF w
  <2> QED BY <1>1, <1>2, <2>1, AppendProperties
<1>4. Front(args) = w
  <2>1. Front(args) = SubSeq(args, 1, m)
    BY <1>3 DEF Front
  <2> DEFINE f == SubSeq(args, 1, m)
  <2>2. f \in Seq({Word, x}) /\ Len(f) = m /\ \A i \in 1..m : f[i] = args[i]
    BY <1>3, SubSeqProperties
  <2> HIDE DEF f
  <2>3. f = w
    BY <1>1, <1>2, <1>3, <2>2, SeqEqual
  <2> QED BY <2>1, <2>3 DEF f
<1>5. LastBehind(c, args) /\ args[Len(args)] = x
  BY <1>3 DEF LastBehind, WithColon
<1>6. JoinedBy(SPACE, w) = Words(m)
  BY <1>1, WordsJoined
<1> QED BY <1>4, <1>5, <1>6, TextJoined, Zenon DEF WrittenLine

(* The line of a command whose arguments are words. *)
LEMMA TextOfWords ==
  ASSUME NEW c \in DOMAIN Commands, NEW m \in 1..3, ~(Commands[c].colon /\ m = Full(c))
  PROVE  CommandText(c, Several(m)) = WrittenLine(c, m, <<>>)
<1> DEFINE w == Several(m)
<1>1. Len(w) = m /\ w = [k \in 1..m |-> Word]
  BY DEF Several
<1> HIDE DEF w
<1>2. ~LastBehind(c, w)
  BY <1>1 DEF LastBehind, WithColon
<1>3. JoinedBy(SPACE, w) = Words(m)
  <2>1. m \in 0..3
    OBVIOUS
  <2> QED BY <1>1, <2>1, WordsJoined
<1>4. CommandText(c, w) = WrittenLine(c, m, <<>>)
  BY <1>2, <1>3, TextJoined, Zenon DEF WrittenLine
<1> QED BY <1>4 DEF w

(* What the server reads for a command are the arguments it was given. *)
LEMMA IssueRead ==
  ASSUME NEW c \in DOMAIN Commands, NEW args \in ArgumentsOf(c)
  PROVE  ParamsOf(Rest(CommandText(c, args), SPACE)) = args
<1>1. c # SPACE /\ Shape(c, args)
  BY CommandTable, ArgumentsShape
<1>2. ASSUME NEW m \in 1..3, args = Several(m), ~(Commands[c].colon /\ m = Full(c))
      PROVE  ParamsOf(Rest(CommandText(c, args), SPACE)) = args
  <2> DEFINE S == {SPACE, "w", c}
  <2>0. PICK e \in Seq(S) : e = <<>> /\ Len(e) = 0
    <3>1. <<>> \in Seq(S) /\ Len(<<>>) = 0
      OBVIOUS
    <3> QED BY <3>1, Zenon
  <2> DEFINE r == Rest(WrittenLine(c, m, e), SPACE)
  <2>1. {SPACE, "w"} \subseteq S /\ c \in S /\ m \in 0..3 /\ m > 0
    OBVIOUS
  <2>2. /\ r \in Seq(S) /\ Len(r) = 2 * m + Len(e) - 1
        /\ \A i \in 1..2 * m + Len(e) - 1 :
             r[i] = IF i < 2 * m THEN (IF i % 2 = 1 THEN "w" ELSE SPACE) ELSE e[i + 1 - 2 * m]
    <3> HIDE DEF S
    <3>1. e \in Seq(S) /\ c # SPACE
      BY <1>1, <2>0
    <3>2. RestLaid(r, S, m, e)
      BY <2>1, <3>1, RestOfWritten
    <3> HIDE DEF r
    <3> QED BY <3>2 DEF RestLaid
  <2> HIDE DEF r, S
  <2>3. Len(r) = 2 * m - 1
    BY <2>0, <2>2
  <2>4. ASSUME NEW i \in 1..2 * m - 1 PROVE r[i] = IF i % 2 = 1 THEN "w" ELSE SPACE
    <3>1. i \in 1..2 * m + Len(e) - 1 /\ i < 2 * m
      BY <2>0
    <3> QED BY <2>2, <3>1
  <2>5. ParamsOf(r) = [k \in 1..m |-> Word]
    BY <2>2, <2>3, <2>4, ParamsOfWords
  <2>6. CommandText(c, args) = WrittenLine(c, m, e)
    BY <1>2, <2>0, TextOfWords
  <2> QED BY <1>2, <2>5, <2>6 DEF Several, r
<1>3. ASSUME NEW m \in 0..3, NEW x \in Texts, args = Append(Several(m), x),
             Commands[c].colon, m + 1 = Full(c)
      PROVE  ParamsOf(Rest(CommandText(c, args), SPACE)) = args
  <2> DEFINE S == Chars \cup {SPACE, ":", "w", c}
             e == <<SPACE, ":">> \o x
             r == Rest(WrittenLine(c, m, e), SPACE)
             n == Len(x)
  <2>1. {SPACE, "w"} \subseteq S /\ c \in S /\ SPACE \in S /\ ":" \in S
    OBVIOUS
  <2>2. x \in Seq(S)
    <3>1. x \in Seq(Chars)
      BY TextsAreLines DEF Lines
    <3>2. Chars \subseteq S
      OBVIOUS
    <3> HIDE DEF S
    <3> QED BY <3>1, <3>2, SeqMonotonic
  <2> HIDE DEF S
  <2>3. n \in Nat /\ n = Len(x)
    BY <2>2, LenProperties
  <2> HIDE DEF n
  <2>4. e \in Seq(S) /\ Len(e) = n + 2 /\ e[1] = SPACE /\ e[2] = ":" /\ \A i \in 1..n : e[i + 2] = x[i]
    <3>1. <<SPACE, ":">> \in Seq(S) /\ Len(<<SPACE, ":">>) = 2
      BY <2>1
    <3>2. /\ e \in Seq(S) /\ Len(e) = Len(<<SPACE, ":">>) + Len(x)
          /\ \A i \in 1..Len(<<SPACE, ":">>) + Len(x) :
               e[i] = IF i <= Len(<<SPACE, ":">>) THEN <<SPACE, ":">>[i] ELSE x[i - Len(<<SPACE, ":">>)]
      BY <2>2, <3>1, ConcatProperties, Zenon
    <3> HIDE DEF e
    <3>3. \A i \in 1..2 + n : e[i] = IF i <= 2 THEN <<SPACE, ":">>[i] ELSE x[i - 2]
      BY <2>3, <3>1, <3>2
    <3>4. ASSUME NEW i \in 1..n PROVE e[i + 2] = x[i]
      <4>1. i + 2 \in 1..2 + n /\ ~(i + 2 <= 2) /\ i + 2 - 2 = i
        BY <2>3
      <4> QED BY <3>3, <4>1
    <3>5. 1 \in 1..2 + n /\ 2 \in 1..2 + n
      BY <2>3
    <3>6. e[1] = <<SPACE, ":">>[1] /\ e[2] = <<SPACE, ":">>[2]
      BY <3>3, <3>5
    <3> QED BY <2>3, <3>1, <3>2, <3>4, <3>6
  <2> HIDE DEF e
  <2>5. /\ r \in Seq(S) /\ Len(r) = 2 * m + Len(e) - 1
        /\ \A i \in 1..2 * m + Len(e) - 1 :
             r[i] = IF i < 2 * m THEN (IF i % 2 = 1 THEN "w" ELSE SPACE) ELSE e[i + 1 - 2 * m]
    <3>1. e # <<>> /\ e[1] = SPACE
      BY <2>3, <2>4
    <3>2. RestLaid(r, S, m, e)
      BY <1>1, <2>1, <2>4, <3>1, RestOfWritten
    <3> HIDE DEF r
    <3> QED BY <3>2 DEF RestLaid
  <2> HIDE DEF r
  <2>6. Len(r) = 2 * m + 1 + n /\ Len(r) = 2 * m + Len(e) - 1
    BY <2>3, <2>4, <2>5
  <2>7. ASSUME NEW i \in 1..2 * m PROVE r[i] = IF i % 2 = 1 THEN "w" ELSE SPACE
    <3>1. i \in 1..2 * m + Len(e) - 1
      BY <2>3, <2>4
    <3>2. CASE i < 2 * m
      <4>1. i % 2 = 1 \/ i % 2 # 1
        OBVIOUS
      <4> QED BY <2>5, <3>1, <3>2
    <3>3. CASE i = 2 * m
      <4>1. i + 1 - 2 * m = 1 /\ i % 2 # 1 /\ ~(i < 2 * m)
        BY <3>3
      <4> QED BY <2>4, <2>5, <3>1, <4>1
    <3> QED BY <3>2, <3>3
  <2>8. r[2 * m + 1] = ":"
    <3>1. PICK i \in 1..2 * m + Len(e) - 1 : i = 2 * m + 1
      BY <2>3, <2>4
    <3>2. ~(i < 2 * m) /\ i + 1 - 2 * m = 2
      BY <3>1
    <3> QED BY <2>4, <2>5, <3>1, <3>2
  <2>9. ASSUME NEW j \in 1..n PROVE r[2 * m + 1 + j] = x[j]
    <3>1. PICK i \in 1..2 * m + Len(e) - 1 : i = 2 * m + 1 + j
      BY <2>3, <2>4
    <3>2. ~(i < 2 * m) /\ i + 1 - 2 * m = j + 2
      BY <2>3, <3>1
    <3>3. r[i] = e[j + 2]
      BY <2>5, <3>2
    <3> QED BY <2>4, <3>1, <3>3
  <2>10. ParamsOf(r) = Append([k \in 1..m |-> Word], x)
    BY <2>2, <2>3, <2>5, <2>6, <2>7, <2>8, <2>9, ParamsWithText
  <2>11. CommandText(c, args) = WrittenLine(c, m, e)
    BY <1>3, <2>2, TextBehind DEF e
  <2> QED BY <1>3, <2>10, <2>11 DEF Several, r
<1> QED BY <1>1, <1>2, <1>3 DEF Shape

-----------------------------------------------------------------------------
LEMMA EndStep == SendingInv /\ EndMessage => SendingInv'
<1> SUFFICES ASSUME SendingInv, EndMessage PROVE SendingInv'
  OBVIOUS
<1>1. /\ text' = <<>> /\ sent' = 0 /\ result' = "idle" /\ writes' = <<>> /\ got' = <<>>
      /\ UNCHANGED <<unended, asked, reply>> /\ unended \in BOOLEAN
  BY DEF EndMessage, SendingInv
<1>2. text' \in Seq(Widths) /\ Len(text') = 0 /\ writes' \in Seq(WriteType) /\ got' \in Seq(Widths)
  BY <1>1
<1>3. Asking'
  BY <1>1 DEF SendingInv, Asking
<1> QED BY <1>1, <1>2, <1>3 DEF SendingInv

(* A command and the answer to it touch nothing of a message. *)
LEMMA AskStep ==
  ASSUME SendingInv, Asking', UNCHANGED <<text, sent, result, writes, got>>,
         unended' \in BOOLEAN, result = "idle" \/ unended' = unended
  PROVE  SendingInv'
<1>1. InOrder /\ unended' = unended => InOrder'
  BY DEF InOrder, Part, Before
<1>2. Stuck => Stuck'
  BY DEF Stuck, Remaining
<1> QED BY <1>1, <1>2 DEF SendingInv

LEMMA IssueStep ==
  ASSUME SendingInv, NEW outcome \in Outcomes, Issue(outcome)
  PROVE  SendingInv'
<1>1. PICK c \in DOMAIN Commands : \E args \in ArgumentsOf(c) :
        /\ asked' = AskedFor(c, args, outcome, unended)
        /\ reply' = IF FitsLine(c, args) /\ ReadWhole(asked')
                      THEN ParamsOf(Rest(CommandText(c, args), SPACE)) ELSE NULL
        /\ unended' = Left(FitsLine(c, args), outcome)
  BY Zenon DEF Issue
<1>2. PICK args \in ArgumentsOf(c) :
        /\ asked' = AskedFor(c, args, outcome, unended)
        /\ reply' = IF FitsLine(c, args) /\ ReadWhole(asked')
                      THEN ParamsOf(Rest(CommandText(c, args), SPACE)) ELSE NULL
        /\ unended' = Left(FitsLine(c, args), outcome)
  BY <1>1
<1>3. reply' = Reply(c, args, outcome, unended)
  BY <1>1, <1>2, IssueRead, Zenon DEF Reply
<1>4. unended \in BOOLEAN /\ unended' \in BOOLEAN
  BY <1>2 DEF SendingInv, Left
<1>5. Asking'
  BY <1>1, <1>2, <1>3, <1>4, Zenon DEF Asking
<1>6. UNCHANGED <<text, sent, result, writes, got>> /\ result = "idle"
  BY DEF Issue
<1> QED BY <1>4, <1>5, <1>6, AskStep

LEMMA SendingInvKept == SendingInv /\ [SendingNext]_sendingVars => SendingInv'
<1> SUFFICES ASSUME SendingInv, [SendingNext]_sendingVars PROVE SendingInv'
  OBVIOUS
<1>1. CASE StartMessage
  BY <1>1, StartStep
<1>2. ASSUME NEW o \in Outcomes, SendPart(o) PROVE SendingInv'
  BY <1>2, SentPart
<1>3. ASSUME NEW o \in Outcomes, Issue(o) PROVE SendingInv'
  BY <1>3, IssueStep
<1>4. CASE EndMessage
  BY <1>4, EndStep
<1>5. CASE Answered
  <2>1. Asking'
    BY <1>5 DEF Answered, Asking
  <2>2. UNCHANGED <<text, sent, result, writes, got, unended>> /\ unended \in BOOLEAN
    BY <1>5 DEF Answered, SendingInv
  <2> QED BY <2>1, <2>2, AskStep
<1>6. CASE UNCHANGED sendingVars
  <2>1. Asking'
    BY <1>6 DEF sendingVars, SendingInv, Asking
  <2>2. UNCHANGED <<text, sent, result, writes, got, unended>> /\ unended \in BOOLEAN
    BY <1>6 DEF sendingVars, SendingInv
  <2> QED BY <2>1, <2>2, AskStep
<1> QED BY <1>1, <1>2, <1>3, <1>4, <1>5, <1>6 DEF SendingNext

(* The writes of a message, whatever became of each, take up one another   *)
(* character by character, what was read of it is what was sent as long as *)
(* nothing was cut, and the server reads back what was asked.              *)
THEOREM SendingInvariance == SendingSpec => []SendingInv
<1> QED BY SendingInit1, SendingInvKept, PTL DEF SendingSpec

LEMMA InvHeard == SendingInv => HeardAsSent
<1> SUFFICES ASSUME SendingInv PROVE HeardAsSent
  OBVIOUS
<1>1. ASSUME asked # NULL
      PROVE  \/ reply = asked.args
             \/ reply = NULL /\ ~(FitsLine(asked.cmd, asked.args) /\ ReadWhole(asked))
  <2>0. PICK c \in DOMAIN Commands : \E args \in ArgumentsOf(c), o \in Outcomes, b \in BOOLEAN :
          asked = AskedFor(c, args, o, b) /\ reply = Reply(c, args, o, b)
    BY <1>1 DEF SendingInv, Asking
  <2>1. PICK args \in ArgumentsOf(c), o \in Outcomes, b \in BOOLEAN :
          asked = AskedFor(c, args, o, b) /\ reply = Reply(c, args, o, b)
    BY <2>0
  <2>2. asked.cmd = c /\ asked.args = args
    BY <2>1 DEF AskedFor
  <2> QED BY <2>1, <2>2, Zenon DEF Reply
<1>2. CASE result = "ok"
  <2>1. /\ InOrder /\ sent = Len(text) /\ writes \in Seq(WriteType) /\ text \in Seq(Widths)
    BY <1>2 DEF SendingInv
  <2>2. ASSUME \A i \in DOMAIN writes : ReadWhole(writes[i]) PROVE got = text
    <3>1. got = SubSeq(text, 1, Len(text))
      BY <2>1, <2>2 DEF InOrder
    <3>2. SubSeq(text, 1, Len(text)) = text
      BY <2>1, SubSeqProperties, LenProperties, ElementOfSeq
    <3> QED BY <3>1, <3>2
  <2>3. \A i \in DOMAIN writes :
          /\ Bytes8(SubSeq(text, writes[i].from, writes[i].to)) <= Room
          /\ i > 1 => (writes[i].behind <=> writes[i - 1].taken = "part")
    BY <2>1 DEF InOrder, Part
  <2> QED BY <1>1, <2>2, <2>3, Zenon DEF HeardAsSent
<1> QED BY <1>1, <1>2, Zenon DEF HeardAsSent

(* A message of sirc_cmd_msg that is reported as sent and of which no line *)
(* was cut was read in full, in order and split between characters, for    *)
(* every message and every room the builder leaves it; a cut line spoils   *)
(* the one behind it and no other; and the server reads of any other       *)
(* command of sirc_cmd.c the arguments it was given, for every text, or    *)
(* nothing where the line was too long, cut, or behind a cut one.          *)
THEOREM SentIsHeard == SendingSpec => []HeardAsSent
<1> QED BY SendingInvariance, InvHeard, PTL

(* The variables of sending keep their types, and a reply is that to a     *)
(* command.                                                                *)
THEOREM SendingTypeCorrect == SendingSpec => []SendingTypeOK
<1>1. SendingInv => SendingTypeOK
  <2> SUFFICES ASSUME SendingInv PROVE SendingTypeOK
    OBVIOUS
  <2>1. \A i \in DOMAIN writes : writes[i].taken \in Outcomes
    <3>1. writes \in Seq(WriteType)
      BY DEF SendingInv
    <3>2. DOMAIN writes = 1..Len(writes) /\ \A i \in 1..Len(writes) : writes[i] \in WriteType
      BY <3>1, LenProperties, ElementOfSeq
    <3> QED BY <3>2 DEF WriteType
  <2>2. asked = NULL => reply = NULL
    BY CommandsAreValues DEF SendingInv, Asking
  <2> QED BY <2>1, <2>2 DEF SendingInv, SendingTypeOK
<1> QED BY <1>1, SendingInvariance, PTL

-----------------------------------------------------------------------------
(* Lines of the server: what strtok makes of them. *)
LEMMA Marks ==
  /\ {SPACE, SEMICOLON, BSL, SOH, ":", "@", "=", "!"} \subseteq Chars
  /\ SPACE # ":" /\ SPACE # "@" /\ SPACE # "=" /\ SPACE # SEMICOLON /\ ":" # "@"
<1>1. {SPACE, SEMICOLON, BSL, SOH, ":", "@", "=", "!"} \subseteq Chars
  BY DEF Chars
<1>2. SPACE # ":" /\ SPACE # "@" /\ SPACE # "=" /\ SPACE # SEMICOLON
  BY Zenon DEF SPACE, SEMICOLON
<1> QED BY <1>1, <1>2

LEMMA TokenNone == ASSUME NEW c PROVE Token(<<>>, c) = NULL /\ Rest(<<>>, c) = <<>>
<1>1. Skip(<<>>, c) = <<>>
  BY DEF Skip
<1>2. FirstOf(<<>>, {c}) = 1
  BY DEF FirstOf
<1>3. SubSeq(<<>>, 1, 0) = <<>> /\ From(<<>>, 2) = <<>>
  BY DEF From
<1>4. FirstOf(<<>>, {c}) - 1 = 0 /\ FirstOf(<<>>, {c}) + 1 = 2
  BY <1>2
<1> QED BY <1>1, <1>3, <1>4, Zenon DEF Token, Rest

LEMMA TokenAlone ==
  ASSUME NEW S, NEW s \in Seq(S), NEW c, s # <<>>, \A j \in 1..Len(s) : s[j] # c
  PROVE  Token(s, c) = s /\ Rest(s, c) = <<>>
<1>1. PICK n \in Nat : n = Len(s) /\ n > 0 /\ s[1] # c /\ \A j \in 1..n : s[j] \in S
  BY LenProperties, EmptySeq, ElementOfSeq
<1>2. Skip(s, c) = s
  BY <1>1, SkipNothing
<1>3. FirstOf(s, {c}) = n + 1
  <2>1. \A j \in 1..Len(s) : s[j] \notin {c}
    OBVIOUS
  <2> QED BY <1>1, <2>1, FirstOfNone
<1>4. SubSeq(s, n + 2, n) = <<>>
  <2>1. \A j \in n + 2..n : s[j] \in S
    BY <1>1
  <2>2. SubSeq(s, n + 2, n) \in Seq(S) /\ Len(SubSeq(s, n + 2, n)) = 0
    BY <1>1, <2>1, SubSeqProperties
  <2> QED BY <2>2, EmptySeq
<1>5. Rest(s, c) = SubSeq(s, n + 1 + 1, n)
  BY <1>1, <1>2, <1>3 DEF Rest, From
<1>6. n + 1 + 1 = n + 2
  BY <1>1
<1> QED BY <1>4, <1>5, <1>6, LastToken

(* Both parts of a sequence of two, and of two with a token between them. *)
LEMMA Halves ==
  ASSUME NEW S, NEW y, NEW a \in Seq(S), NEW c, NEW b \in Seq(S), Joint(y, S, a, c, b)
  PROVE  SubSeq(y, 1, Len(a)) = a /\ From(y, Len(a) + 2) = b
<1>1. PICK n \in Nat : n = Len(a)
  BY LenProperties
<1>2. PICK m \in Nat : m = Len(b)
  BY LenProperties
<1>3. y \in Seq(S) /\ Len(y) = n + 1 + m
  BY <1>1, <1>2 DEF Joint
<1>4. \A i \in 1..n : y[i] = a[i]
  BY <1>1, <1>2 DEF Joint
<1>5. ASSUME NEW j \in 1..m PROVE y[n + 1 + j] = b[j]
  <2>1. PICK i \in 1..n + 1 + m : i = n + 1 + j /\ ~(i <= n) /\ i # n + 1 /\ i - n - 1 = j
    BY <1>1, <1>2
  <2>2. y[i] = b[i - n - 1]
    BY <1>1, <1>2, <2>1 DEF Joint
  <2> QED BY <2>1, <2>2
<1>6. SubSeq(y, 1, n) = a
  <2> DEFINE u == SubSeq(y, 1, n)
  <2>1. /\ u \in Seq(S) /\ Len(u) = n - 1 + 1
        /\ \A j \in 1..n - 1 + 1 : u[j] = y[1 + j - 1]
    <3>1. 1 \in 1..Len(y) + 1 /\ n \in 0..Len(y) /\ 1 <= n + 1
      BY <1>1, <1>2, <1>3
    <3> QED BY <1>3, <3>1, SubSeqIs
  <2> HIDE DEF u
  <2>2. u \in Seq(S) /\ Len(u) = n /\ \A j \in 1..n : u[j] = y[j]
    BY <1>1, <2>1
  <2>3. u = a
    BY <1>1, <1>4, <2>2, SeqEqual
  <2> QED BY <2>3 DEF u
<1>7. From(y, n + 2) = b
  <2>1. PICK i \in 1..Len(y) + 1 : i = n + 2
    BY <1>1, <1>2, <1>3
  <2> DEFINE u == From(y, i)
  <2>2. u \in Seq(S) /\ Len(u) = Len(y) - i + 1 /\ \A j \in 1..Len(y) - i + 1 : u[j] = y[i + j - 1]
    BY <1>3, FromIs
  <2> HIDE DEF u
  <2>3. u \in Seq(S) /\ Len(u) = m
    BY <1>1, <1>2, <1>3, <2>1, <2>2
  <2>4. ASSUME NEW j \in 1..m PROVE u[j] = b[j]
    <3>1. j \in 1..Len(y) - i + 1 /\ i + j - 1 = n + 1 + j
      BY <1>1, <1>2, <1>3, <2>1
    <3> QED BY <1>5, <2>2, <3>1
  <2>5. u = b
    BY <1>2, <2>3, <2>4, SeqEqual
  <2> QED BY <2>1, <2>5 DEF u
<1> QED BY <1>1, <1>6, <1>7

LEMMA JointIs ==
  ASSUME NEW S, NEW y, NEW a \in Seq(S), NEW c, NEW b \in Seq(S), Joint(y, S, a, c, b)
  PROVE  /\ Len(y) = Len(a) + 1 + Len(b) /\ \A i \in 1..Len(a) : y[i] = a[i]
         /\ y[Len(a) + 1] = c /\ \A j \in 1..Len(b) : y[Len(a) + 1 + j] = b[j]
<1>1. PICK n \in Nat : n = Len(a)
  BY LenProperties
<1>2. PICK m \in Nat : m = Len(b)
  BY LenProperties
<1>3. ASSUME NEW j \in 1..m PROVE y[n + 1 + j] = b[j]
  <2>1. PICK i \in 1..n + 1 + m : i = n + 1 + j /\ ~(i <= n) /\ i # n + 1 /\ i - n - 1 = j
    BY <1>1, <1>2
  <2>2. y[i] = b[i - n - 1]
    BY <1>1, <1>2, <2>1 DEF Joint
  <2> QED BY <2>1, <2>2
<1>4. y[n + 1] = c
  <2>1. PICK i \in 1..n + 1 + m : i = n + 1 /\ ~(i <= n)
    BY <1>1, <1>2
  <2>2. y[i] = c
    BY <1>1, <1>2, <2>1 DEF Joint
  <2> QED BY <2>1, <2>2
<1>5. \A i \in 1..n : y[i] = a[i]
  BY <1>1, <1>2 DEF Joint
<1> QED BY <1>1, <1>2, <1>3, <1>4, <1>5 DEF Joint

(* strtok finds what stands before a delimiter, and leaves what is behind. *)
LEMMA TokenCut ==
  ASSUME NEW S, NEW c \in S, NEW a \in Seq(S), NEW b \in Seq(S), NEW y, Joint(y, S, a, c, b),
         a # <<>>, \A j \in 1..Len(a) : a[j] # c
  PROVE  Token(y, c) = a /\ Rest(y, c) = b
<1>1. PICK n \in Nat : n = Len(a) /\ n > 0
  BY LenProperties, EmptySeq
<1>2. Len(b) \in Nat
  BY LenProperties
<1>3. Len(y) = n + 1 + Len(b) /\ y[n + 1] = c /\ \A j \in 1..n : y[j] # c
  BY <1>1, JointIs
<1>4. y \in Seq(S)
  BY DEF Joint
<1>5. PICK k \in 2..Len(y) : k = n + 1 /\ k - 1 = n /\ k + 1 = n + 2
  BY <1>1, <1>2, <1>3
<1>6. y[k] = c /\ \A j \in 1..k - 1 : y[j] # c
  BY <1>3, <1>5
<1>7. Token(y, c) = SubSeq(y, 1, k - 1) /\ Rest(y, c) = From(y, k + 1)
  BY <1>4, <1>6, TokenIs
<1>8. SubSeq(y, 1, n) = a /\ From(y, n + 2) = b
  BY <1>1, Halves
<1> QED BY <1>5, <1>7, <1>8

-----------------------------------------------------------------------------
(* No colon that would begin a last parameter. *)
NoColon(s) ==
  /\ s = <<>> \/ s[1] # ":"
  /\ \A i \in 1..Len(s) - 1 : s[i] = SPACE => s[i + 1] # ":"

(* s is the words ws, with blanks between each two and any blanks around. *)
IsWords(s, ws) ==
  /\ s \in Lines /\ NoColon(s) /\ ws \in Seq(Lines)
  /\ \E n, a, e : Located(s, a, e, n) /\ ws = WordsAt(s, a, e, n)

LEMMA NoWords == IsWords(<<>>, <<>>)
<1>1. <<>> \in Lines /\ <<>> \in Seq(Lines) /\ Len(<<>>) = 0 /\ NoColon(<<>>)
  BY DEF Lines, NoColon
<1> DEFINE a == [k \in 1..0 |-> 0]
<1>2. Located(<<>>, a, a, 0)
  BY <1>1 DEF Located
<1>3. <<>> = WordsAt(<<>>, a, a, 0)
  BY DEF WordsAt
<1> QED BY <1>1, <1>2, <1>3 DEF IsWords

LEMMA WordAlone ==
  ASSUME NEW w \in Lines, IsWord(w)
  PROVE  IsWords(w, <<w>>)
<1>1. PICK m \in Nat : m = Len(w) /\ m > 0
  BY LenProperties, EmptySeq DEF IsWord, Lines
<1>2. w # <<>> /\ w[1] # ":" /\ \A i \in 1..m : w[i] # SPACE
  <2>1. DOMAIN w = 1..Len(w)
    BY LenProperties DEF Lines
  <2> QED BY <1>1, <2>1 DEF IsWord
<1>3. NoColon(w)
  BY <1>1, <1>2 DEF NoColon
<1> DEFINE a == [k \in 1..1 |-> 1]
           e == [k \in 1..1 |-> m]
<1>4. a \in [1..1 -> Nat] /\ e \in [1..1 -> Nat] /\ \A k \in 1..1 : a[k] = 1 /\ e[k] = m
  BY <1>1
<1> HIDE DEF a, e
<1>5. Located(w, a, e, 1)
  <2>1. 1 \in 1..1 /\ \A i, k \in 1..1 : ~(i < k)
    OBVIOUS
  <2> QED BY <1>1, <1>2, <1>4, <2>1 DEF Located
<1>6. <<w>> = WordsAt(w, a, e, 1)
  <2>1. SubSeq(w, 1, m) = w
    BY <1>1, SubSeqFull DEF Lines
  <2>2. WordsAt(w, a, e, 1) = [k \in 1..1 |-> w]
    BY <1>4, <2>1 DEF WordsAt
  <2> QED BY <2>2
<1>7. <<w>> \in Seq(Lines)
  OBVIOUS
<1> QED BY <1>3, <1>5, <1>6, <1>7 DEF IsWords

Relocated(S, s, y, d, p, q) ==
  /\ s \in Seq(S) /\ y \in Seq(S) /\ d \in Nat
  /\ p \in 1..Len(s) /\ q \in 1..Len(s) /\ p <= q /\ q + d <= Len(y)
  /\ \A j \in p..q : y[j + d] = s[j]

LEMMA SubSeqMoved ==
  ASSUME NEW S, NEW s, NEW y, NEW d, NEW p, NEW q, Relocated(S, s, y, d, p, q)
  PROVE  SubSeq(y, p + d, q + d) = SubSeq(s, p, q) /\ SubSeq(s, p, q) \in Seq(S)
<1>0. /\ s \in Seq(S) /\ y \in Seq(S) /\ d \in Nat
      /\ p \in 1..Len(s) /\ q \in 1..Len(s) /\ p <= q /\ q + d <= Len(y)
      /\ \A j \in p..q : y[j + d] = s[j]
  BY DEF Relocated
<1> USE <1>0
<1>1. PICK l \in Nat : l = Len(s)
  BY LenProperties
<1>2. PICK k \in Nat : k = Len(y)
  BY LenProperties
<1>3. PICK u : u = SubSeq(y, p + d, q + d)
  OBVIOUS
<1>4. PICK v : v = SubSeq(s, p, q)
  OBVIOUS
<1>5. PICK h \in Nat : h = q - p + 1
  BY <1>1
<1>6. v \in Seq(S) /\ Len(v) = h /\ \A j \in 1..h : v[j] = s[p + j - 1]
  <2>1. p \in 1..Len(s) + 1 /\ q \in 0..Len(s) /\ p <= q + 1
    BY <1>1
  <2> QED BY <1>4, <1>5, <2>1, SubSeqIs
<1>7. u \in Seq(S) /\ Len(u) = h /\ \A j \in 1..h : u[j] = y[p + j - 1 + d]
  <2>1. PICK P \in 1..Len(y) + 1 : P = p + d
    BY <1>1, <1>2
  <2>2. PICK Q \in 0..Len(y) : Q = q + d
    BY <1>1, <1>2
  <2>3. P <= Q + 1 /\ Q - P + 1 = h
    BY <1>1, <1>5, <2>1, <2>2
  <2>4. u \in Seq(S) /\ Len(u) = Q - P + 1 /\ \A j \in 1..Q - P + 1 : u[j] = y[P + j - 1]
    BY <1>3, <2>1, <2>2, <2>3, SubSeqIs
  <2>5. \A j \in 1..h : P + j - 1 = p + j - 1 + d
    BY <1>1, <2>1
  <2> QED BY <2>3, <2>4, <2>5
<1>8. ASSUME NEW j \in 1..h PROVE u[j] = v[j]
  <2>1. p + j - 1 \in p..q
    BY <1>1, <1>5
  <2> QED BY <1>6, <1>7, <2>1
<1>9. u = v
  BY <1>6, <1>7, <1>8, SeqEqual
<1> QED BY <1>3, <1>4, <1>6, <1>9

(* A blank between words and words. *)
LEMMA WordsJoint ==
  ASSUME NEW s, NEW ws, IsWords(s, ws), NEW t, NEW vs, IsWords(t, vs),
         NEW y, Joint(y, Chars, s, SPACE, t)
  PROVE  IsWords(y, ws \o vs)
<1>1. PICK n, a, e : Located(s, a, e, n) /\ ws = WordsAt(s, a, e, n)
  BY DEF IsWords
<1>2. PICK h, b, f : Located(t, b, f, h) /\ vs = WordsAt(t, b, f, h)
  BY DEF IsWords
<1>3. s \in Seq(Chars) /\ t \in Seq(Chars) /\ y \in Seq(Chars) /\ NoColon(s) /\ NoColon(t)
  BY DEF IsWords, Lines, Joint
<1>4. PICK l \in Nat : l = Len(s)
  BY <1>3, LenProperties
<1>5. PICK m \in Nat : m = Len(t)
  BY <1>3, LenProperties
<1>6. /\ Len(y) = l + 1 + m /\ \A i \in 1..l : y[i] = s[i]
      /\ y[l + 1] = SPACE /\ \A j \in 1..m : y[l + 1 + j] = t[j]
  BY <1>3, <1>4, <1>5, JointIs
<1>7. PICK d \in Nat : d = l + 1
  BY <1>4
<1>8. \A j \in 1..m : y[j + d] = t[j]
  <2>1. TAKE j \in 1..m
  <2>2. j + d = l + 1 + j
    BY <1>7
  <2> QED BY <1>6, <2>2
<1>9. NoColon(y)
  <2>1. y # <<>> /\ y[1] # ":"
    <3>1. CASE l = 0
      BY <1>3, <1>6, <3>1, Marks, EmptySeq
    <3>2. CASE l > 0
      <4>1. s # <<>> /\ s[1] # ":"
        BY <1>3, <1>4, <3>2 DEF NoColon
      <4> QED BY <1>3, <1>4, <1>5, <1>6, <3>2, <4>1, EmptySeq
    <3> QED BY <3>1, <3>2
  <2>2. ASSUME NEW i \in 1..Len(y) - 1, y[i] = SPACE PROVE y[i + 1] # ":"
    <3>1. CASE i < l
      <4>1. i \in 1..l - 1 /\ i + 1 \in 1..l /\ i \in 1..l
        BY <1>4, <3>1
      <4>2. s[i] = SPACE => s[i + 1] # ":"
        BY <1>3, <1>4, <4>1 DEF NoColon
      <4> QED BY <1>6, <2>2, <4>1, <4>2
    <3>2. CASE i = l
      BY <1>6, <3>2, Marks
    <3>3. CASE i = l + 1
      <4>1. 1 \in 1..m /\ i + 1 = l + 1 + 1
        BY <1>4, <1>5, <1>6, <3>3
      <4>2. y[i + 1] = t[1]
        BY <1>6, <4>1
      <4>3. t # <<>>
        BY <1>5, <4>1
      <4> QED BY <1>3, <4>2, <4>3 DEF NoColon
    <3>4. CASE i > l + 1
      <4>1. PICK j \in 1..m - 1 : i = l + 1 + j /\ j \in 1..m /\ j + 1 \in 1..m /\ i + 1 = l + 1 + (j + 1)
        <5>1. i - (l + 1) \in 1..m - 1
          BY <1>5, <1>6, <3>4
        <5>2. \A j \in 1..m - 1 : j \in 1..m /\ j + 1 \in 1..m
          OBVIOUS
        <5> QED BY <5>1, <5>2
      <4>2. y[i] = t[j] /\ y[i + 1] = t[j + 1]
        BY <1>6, <4>1
      <4> QED BY <1>3, <1>5, <2>2, <4>1, <4>2 DEF NoColon
    <3> QED BY <1>4, <3>1, <3>2, <3>3, <3>4
  <2> QED BY <2>1, <2>2 DEF NoColon
<1>10. /\ n \in Nat /\ a \in [1..n -> Nat] /\ e \in [1..n -> Nat]
       /\ \A k \in 1..n : 1 <= a[k] /\ a[k] <= e[k] /\ e[k] <= l
       /\ \A k \in 1..n : \A j \in a[k]..e[k] : s[j] # SPACE
       /\ \A i, k \in 1..n : i < k => e[i] + 1 < a[k]
       /\ \A j \in 1..l : s[j] # SPACE => \E k \in 1..n : j \in a[k]..e[k]
  BY <1>1, <1>4 DEF Located
<1>11. /\ h \in Nat /\ b \in [1..h -> Nat] /\ f \in [1..h -> Nat]
       /\ \A k \in 1..h : 1 <= b[k] /\ b[k] <= f[k] /\ f[k] <= m
       /\ \A k \in 1..h : \A j \in b[k]..f[k] : t[j] # SPACE
       /\ \A i, k \in 1..h : i < k => f[i] + 1 < b[k]
       /\ \A j \in 1..m : t[j] # SPACE => \E k \in 1..h : j \in b[k]..f[k]
  BY <1>2, <1>5 DEF Located
<1> DEFINE A == [k \in 1..n + h |-> IF k <= n THEN a[k] ELSE b[k - n] + d]
           E == [k \in 1..n + h |-> IF k <= n THEN e[k] ELSE f[k - n] + d]
<1>12. PICK r \in Nat : r = n + h
  BY <1>10, <1>11
<1>13. /\ A \in [1..r -> Nat] /\ E \in [1..r -> Nat]
       /\ \A k \in 1..n : k \in 1..r /\ A[k] = a[k] /\ E[k] = e[k]
       /\ \A k \in 1..h : n + k \in 1..r /\ A[n + k] = b[k] + d /\ E[n + k] = f[k] + d
       /\ \A k \in 1..r : k \in 1..n \/ \E i \in 1..h : k = n + i
  <2>1. \A k \in 1..r : k \in 1..n \/ (k - n \in 1..h /\ ~(k <= n) /\ k = n + (k - n))
    BY <1>10, <1>11, <1>12
  <2>2. \A k \in 1..h : n + k \in 1..r /\ ~(n + k <= n) /\ (n + k) - n = k
    BY <1>10, <1>11, <1>12
  <2>3. \A k \in 1..n : k \in 1..r /\ k <= n
    BY <1>10, <1>11, <1>12
  <2>4. \A k \in 1..r : A[k] \in Nat /\ E[k] \in Nat
    BY <1>10, <1>11, <1>12, <2>1
  <2>5. A \in [1..r -> Nat] /\ E \in [1..r -> Nat]
    BY <1>12, <2>4
  <2> QED BY <1>12, <2>1, <2>2, <2>3, <2>5
<1> HIDE DEF A, E
<1>14. Located(y, A, E, r)
  <2>1. ASSUME NEW k \in 1..r
        PROVE  /\ 1 <= A[k] /\ A[k] <= E[k] /\ E[k] <= Len(y)
               /\ \A j \in A[k]..E[k] : y[j] # SPACE
    <3>1. CASE k \in 1..n
      <4>1. A[k] = a[k] /\ E[k] = e[k] /\ a[k] \in Nat /\ e[k] \in Nat
            /\ 1 <= a[k] /\ a[k] <= e[k] /\ e[k] <= l
        BY <1>10, <1>13, <3>1
      <4>2. ASSUME NEW j \in a[k]..e[k] PROVE y[j] # SPACE
        <5>1. j \in 1..l
          BY <4>1
        <5> QED BY <1>6, <1>10, <3>1, <5>1
      <4> QED BY <1>4, <1>5, <1>6, <4>1, <4>2
    <3>2. CASE \E i \in 1..h : k = n + i
      <4>0. PICK i \in 1..h : k = n + i
        BY <3>2
      <4>1. PICK x \in Nat, z \in Nat : x = b[i] /\ z = f[i] /\ 1 <= x /\ x <= z /\ z <= m
                                        /\ A[k] = x + d /\ E[k] = z + d
        BY <1>11, <1>13, <4>0
      <4>2. ASSUME NEW j \in x + d..z + d PROVE y[j] # SPACE
        <5>1. PICK o \in x..z : j = o + d
          <6>1. j - d \in x..z /\ j = (j - d) + d
            OBVIOUS
          <6> QED BY <6>1
        <5>2. o \in 1..m /\ t[o] # SPACE
          BY <1>11, <4>1, <5>1
        <5> QED BY <1>8, <5>1, <5>2
      <4>3. 1 <= x + d /\ x + d <= z + d /\ z + d <= l + 1 + m
        BY <1>7, <4>1
      <4> QED BY <1>6, <4>1, <4>2, <4>3
    <3> QED BY <1>13, <3>1, <3>2
  <2>2. ASSUME NEW i \in 1..r, NEW k \in 1..r, i < k PROVE E[i] + 1 < A[k]
    <3>1. CASE k \in 1..n
      <4>1. i \in 1..n
        BY <1>10, <2>2, <3>1
      <4> QED BY <1>10, <1>13, <2>2, <3>1, <4>1
    <3>2. CASE \E x \in 1..h : k = n + x
      <4>1. PICK x \in 1..h : k = n + x
        BY <3>2
      <4>2. A[k] = b[x] + d /\ 1 <= b[x] /\ b[x] \in Nat
        BY <1>11, <1>13, <4>1
      <4>3. CASE i \in 1..n
        <5>1. E[i] = e[i] /\ e[i] <= l /\ e[i] \in Nat
          BY <1>10, <1>13, <4>3
        <5> QED BY <1>7, <4>2, <5>1
      <4>4. CASE \E z \in 1..h : i = n + z
        <5>1. PICK z \in 1..h : i = n + z
          BY <4>4
        <5>2. E[i] = f[z] + d /\ f[z] \in Nat /\ z < x
          BY <1>10, <1>11, <1>13, <2>2, <4>1, <5>1
        <5>3. f[z] + 1 < b[x]
          BY <1>11, <5>2
        <5> QED BY <4>2, <5>2, <5>3
      <4> QED BY <1>13, <4>3, <4>4
    <3> QED BY <1>13, <3>1, <3>2
  <2>3. ASSUME NEW j \in 1..Len(y), y[j] # SPACE PROVE \E k \in 1..r : j \in A[k]..E[k]
    <3>1. CASE j \in 1..l
      <4>1. s[j] # SPACE
        BY <1>6, <2>3, <3>1
      <4>2. PICK k \in 1..n : j \in a[k]..e[k]
        BY <1>10, <3>1, <4>1
      <4> QED BY <1>13, <4>2
    <3>2. CASE j > l
      <4>1. PICK o \in 1..m : j = o + d
        <5>1. j # l + 1
          BY <1>6, <2>3
        <5>2. j - d \in 1..m /\ j = (j - d) + d
          BY <1>4, <1>5, <1>6, <1>7, <3>2, <5>1
        <5> QED BY <5>2
      <4>2. t[o] # SPACE
        BY <1>8, <2>3, <4>1
      <4>3. PICK k \in 1..h : o \in b[k]..f[k]
        BY <1>11, <4>2
      <4>4. PICK x \in Nat, z \in Nat : x = b[k] /\ z = f[k]
        BY <1>11
      <4>5. j \in x + d..z + d
        BY <4>1, <4>3, <4>4
      <4>6. n + k \in 1..r /\ A[n + k] = x + d /\ E[n + k] = z + d
        BY <1>13, <4>4
      <4> QED BY <4>5, <4>6
    <3> QED BY <1>4, <1>5, <1>6, <3>1, <3>2
  <2> QED BY <1>12, <1>13, <2>1, <2>2, <2>3 DEF Located
<1>15. ASSUME NEW k \in 1..n PROVE SubSeq(y, A[k], E[k]) = SubSeq(s, a[k], e[k]) /\ SubSeq(s, a[k], e[k]) \in Lines
  <2>0. PICK p \in Nat, q \in Nat : p = a[k] /\ q = e[k] /\ 1 <= p /\ p <= q /\ q <= l
    BY <1>10
  <2>1. p \in 1..Len(s) /\ q \in 1..Len(s)
    BY <1>4, <2>0
  <2>2. p + 0 = p /\ q + 0 = q /\ 0 \in Nat /\ q + 0 <= Len(y) /\ \A j \in p..q : j + 0 = j /\ j \in 1..l
    BY <1>4, <1>5, <1>6, <2>0
  <2>3. \A j \in p..q : y[j + 0] = s[j]
    BY <1>6, <2>2
  <2>4. s \in Seq(Chars) /\ y \in Seq(Chars)
    BY <1>3
  <2>5. SubSeq(y, p + 0, q + 0) = SubSeq(s, p, q) /\ SubSeq(s, p, q) \in Seq(Chars)
    <3>1. Relocated(Chars, s, y, 0, p, q)
      BY <2>0, <2>1, <2>2, <2>3, <2>4 DEF Relocated
    <3> QED BY <3>1, SubSeqMoved
  <2>6. A[k] = p /\ E[k] = q
    BY <1>13, <2>0
  <2> QED BY <2>0, <2>2, <2>5, <2>6 DEF Lines
<1>16. ASSUME NEW k \in 1..h
       PROVE  SubSeq(y, A[n + k], E[n + k]) = SubSeq(t, b[k], f[k]) /\ SubSeq(t, b[k], f[k]) \in Lines
  <2>0. PICK p \in Nat, q \in Nat : p = b[k] /\ q = f[k] /\ 1 <= p /\ p <= q /\ q <= m
    BY <1>11
  <2>1. p \in 1..Len(t) /\ q \in 1..Len(t)
    BY <1>5, <2>0
  <2>2. d \in Nat /\ q + d <= Len(y) /\ \A j \in p..q : j \in 1..m
    BY <1>4, <1>5, <1>6, <1>7, <2>0
  <2>3. \A j \in p..q : y[j + d] = t[j]
    BY <1>8, <2>2
  <2>4. t \in Seq(Chars) /\ y \in Seq(Chars)
    BY <1>3
  <2>5. SubSeq(y, p + d, q + d) = SubSeq(t, p, q) /\ SubSeq(t, p, q) \in Seq(Chars)
    <3>1. Relocated(Chars, t, y, d, p, q)
      BY <2>0, <2>1, <2>2, <2>3, <2>4 DEF Relocated
    <3> QED BY <3>1, SubSeqMoved
  <2>6. A[n + k] = p + d /\ E[n + k] = q + d
    BY <1>13, <2>0
  <2> QED BY <2>0, <2>5, <2>6 DEF Lines
<1>17. ws \o vs = WordsAt(y, A, E, r)
  <2>1. ws \in Seq(Lines) /\ Len(ws) = n /\ \A k \in 1..n : ws[k] = SubSeq(s, a[k], e[k])
    <3>1. ws = WordsAt(s, a, e, n) /\ n \in Nat /\ ws \in Seq(Lines)
      BY <1>1, <1>10 DEF IsWords
    <3>2. DOMAIN ws = 1..n /\ \A k \in 1..n : ws[k] = SubSeq(s, a[k], e[k])
      BY <3>1 DEF WordsAt
    <3> QED BY <3>1, <3>2, LenProperties
  <2>2. vs \in Seq(Lines) /\ Len(vs) = h /\ \A k \in 1..h : vs[k] = SubSeq(t, b[k], f[k])
    <3>1. vs = WordsAt(t, b, f, h) /\ h \in Nat /\ vs \in Seq(Lines)
      BY <1>2, <1>11 DEF IsWords
    <3>2. DOMAIN vs = 1..h /\ \A k \in 1..h : vs[k] = SubSeq(t, b[k], f[k])
      BY <3>1 DEF WordsAt
    <3> QED BY <3>1, <3>2, LenProperties
  <2>3. PICK w : w = ws \o vs
    OBVIOUS
  <2>4. /\ w \in Seq(Lines) /\ Len(w) = r
        /\ \A k \in 1..r : w[k] = IF k <= n THEN ws[k] ELSE vs[k - n]
    BY <1>12, <2>1, <2>2, <2>3, ConcatProperties
  <2>5. ASSUME NEW k \in 1..r PROVE w[k] = SubSeq(y, A[k], E[k])
    <3>1. CASE k \in 1..n
      <4>1. w[k] = ws[k]
        BY <1>10, <2>4, <3>1
      <4> QED BY <1>15, <2>1, <3>1, <4>1
    <3>2. CASE \E i \in 1..h : k = n + i
      <4>1. PICK i \in 1..h : k = n + i
        BY <3>2
      <4>2. ~(k <= n) /\ k - n = i
        BY <1>10, <4>1
      <4>3. w[k] = vs[i]
        BY <2>4, <4>2
      <4> QED BY <1>16, <2>2, <4>1, <4>3
    <3> QED BY <1>13, <3>1, <3>2
  <2>6. DOMAIN w = 1..r /\ w = [k \in 1..r |-> w[k]]
    BY <2>4, LenProperties
  <2> QED BY <2>3, <2>5, <2>6 DEF WordsAt
<1>18. ws \o vs \in Seq(Lines)
  <2>1. ws \in Seq(Lines) /\ vs \in Seq(Lines)
    BY DEF IsWords
  <2> QED BY <2>1, ConcatProperties
<1> QED BY <1>3, <1>9, <1>14, <1>17, <1>18 DEF IsWords, Lines

(* The tokens of words are the words, and NULL when there is none. *)
LEMMA WordsTokens ==
  ASSUME NEW s, NEW ws, IsWords(s, ws)
  PROVE  Tokens(s) = IF ws = <<>> THEN <<NULL>> ELSE ws
<1>1. PICK n, a, e : Located(s, a, e, n) /\ ws = WordsAt(s, a, e, n)
  BY DEF IsWords
<1>2. s \in Seq(Chars) /\ n \in Nat
  BY <1>1 DEF IsWords, Lines, Located
<1>3. ws = <<>> <=> n = 0
  <2>1. ws \in Seq(Lines) /\ DOMAIN ws = 1..n
    BY <1>1 DEF IsWords, WordsAt
  <2>2. Len(ws) = n
    BY <1>2, <2>1, LenProperties
  <2> QED BY <2>1, <2>2, EmptySeq
<1> QED BY <1>1, <1>2, <1>3, TokensOfWords

(* Parameters that are words alone. *)
LEMMA ParamsBare ==
  ASSUME NEW s, NEW ws, IsWords(s, ws), s # <<>>, ws # <<>>
  PROVE  ParamsOf(s) = ws
<1>1. s[1] # ":" /\ {i \in 1..Len(s) - 1 : s[i] = SPACE /\ s[i + 1] = ":"} = {}
  BY DEF IsWords, NoColon
<1> QED BY <1>1, WordsTokens DEF ParamsOf

(* A last parameter behind a colon, and words before it. *)
LEMMA ParamsColon ==
  ASSUME NEW s, NEW ws, IsWords(s, ws), NEW t \in Seq(Chars), t # <<>>, t[1] = ":",
         NEW y, Joint(y, Chars, s, SPACE, t)
  PROVE  ParamsOf(y) = Append(IF ws = <<>> THEN <<NULL>> ELSE ws, From(t, 2))
<1>1. s \in Seq(Chars) /\ NoColon(s) /\ y \in Seq(Chars)
  BY DEF IsWords, Lines, Joint
<1>2. PICK l \in Nat : l = Len(s)
  BY <1>1, LenProperties
<1>3. PICK m \in Nat : m = Len(t) /\ m > 0
  BY LenProperties, EmptySeq
<1>4. /\ Len(y) = l + 1 + m /\ \A i \in 1..l : y[i] = s[i]
      /\ y[l + 1] = SPACE /\ \A j \in 1..m : y[l + 1 + j] = t[j]
  BY <1>1, <1>2, <1>3, JointIs
<1> DEFINE at == {i \in 1..Len(y) - 1 : y[i] = SPACE /\ y[i + 1] = ":"}
<1>5. PICK p \in Int : p = l + 1
  BY <1>2
<1>6. p \in at
  <2>1. 1 \in 1..m /\ l + 1 \in 1..Len(y) - 1 /\ l + 1 + 1 = p + 1
    BY <1>2, <1>3, <1>4, <1>5
  <2>2. y[p + 1] = t[1]
    BY <1>4, <2>1
  <2> QED BY <1>4, <1>5, <2>1, <2>2
<1>7. ASSUME NEW i \in at PROVE p <= i
  <2>1. ASSUME i < l PROVE FALSE
    <3>1. i \in 1..l - 1 /\ i \in 1..l /\ i + 1 \in 1..l
      BY <1>2, <2>1
    <3>2. s[i] = SPACE => s[i + 1] # ":"
      BY <1>1, <1>2, <3>1 DEF NoColon
    <3> QED BY <1>4, <3>1, <3>2
  <2>2. i # l
    BY <1>4, Marks
  <2> QED BY <1>2, <1>5, <2>1, <2>2
<1>8. at \subseteq Int
  OBVIOUS
<1>9. y[1] # ":"
  <2>1. CASE l = 0
    BY <1>4, <2>1, Marks
  <2>2. CASE l > 0
    <3>1. s # <<>> /\ s[1] # ":"
      BY <1>1, <1>2, <2>2 DEF NoColon
    <3> QED BY <1>2, <1>4, <2>2, <3>1
  <2> QED BY <1>2, <2>1, <2>2
<1>10. ParamsOf(y) = LET i == CHOOSE i \in at : \A j \in at : i <= j
                     IN  Append(Tokens(SubSeq(y, 1, i - 1)), From(y, i + 2))
  BY <1>6, <1>9 DEF ParamsOf
<1> HIDE DEF at
<1>11. ParamsOf(y) = Append(Tokens(SubSeq(y, 1, p - 1)), From(y, p + 2))
  <2>1. (CHOOSE i \in at : \A j \in at : i <= j) = p
    BY <1>6, <1>7, <1>8, LeastIs
  <2> QED BY <1>10, <2>1
<1>12. SubSeq(y, 1, l) = s
  BY <1>1, <1>2, Halves
<1>13. From(y, l + 3) = From(t, 2)
  <2>1. PICK i \in 1..Len(y) + 1 : i = l + 3
    BY <1>2, <1>3, <1>4
  <2>2. PICK h \in 1..Len(t) + 1 : h = 2
    BY <1>3
  <2> DEFINE u == From(y, i)
             v == From(t, h)
  <2>3. u \in Seq(Chars) /\ Len(u) = Len(y) - i + 1 /\ \A j \in 1..Len(y) - i + 1 : u[j] = y[i + j - 1]
    BY <1>1, FromIs
  <2>4. v \in Seq(Chars) /\ Len(v) = Len(t) - h + 1 /\ \A j \in 1..Len(t) - h + 1 : v[j] = t[h + j - 1]
    BY FromIs
  <2> HIDE DEF u, v
  <2>5. PICK k \in Nat : k = m - 1 /\ k = Len(y) - i + 1 /\ k = Len(t) - h + 1
    <3>1. m - 1 \in Nat /\ m - 1 = Len(t) - h + 1
      BY <1>3, <2>2
    <3>2. l + 1 + m - (l + 3) + 1 = m - 1
      BY <1>2, <1>3
    <3> QED BY <1>4, <2>1, <3>1, <3>2
  <2>6. ASSUME NEW j \in 1..k PROVE u[j] = v[j]
    <3>1. u[j] = y[i + j - 1] /\ v[j] = t[h + j - 1]
      BY <2>3, <2>4, <2>5
    <3>2. PICK x \in 1..m : x = j + 1 /\ i + j - 1 = l + 1 + x /\ h + j - 1 = x
      BY <1>2, <1>3, <2>1, <2>2, <2>5
    <3> QED BY <1>4, <3>1, <3>2
  <2>7. u = v
    BY <2>3, <2>4, <2>5, <2>6, SeqEqual
  <2> QED BY <2>1, <2>2, <2>7 DEF u, v
<1>14. p - 1 = l /\ p + 2 = l + 3
  BY <1>2, <1>5
<1> QED BY <1>11, <1>12, <1>13, <1>14, WordsTokens

LEMMA ParamsText ==
  ASSUME NEW t \in Seq(Chars), t # <<>>, t[1] = ":"
  PROVE  ParamsOf(t) = <<From(t, 2)>>
<1>1. Tail(t) = From(t, 2)
  BY DEF From
<1> QED BY <1>1 DEF ParamsOf

(* What stands behind the colon. *)
LEMMA BehindColon ==
  ASSUME NEW S, NEW c \in S, NEW x \in Seq(S)
  PROVE  /\ <<c>> \o x \in Seq(S) /\ <<c>> \o x # <<>> /\ (<<c>> \o x)[1] = c
         /\ Len(<<c>> \o x) = Len(x) + 1 /\ From(<<c>> \o x, 2) = x /\ Tail(<<c>> \o x) = x
<1>1. PICK n \in Nat : n = Len(x)
  BY LenProperties
<1> DEFINE e == <<c>>
           t == e \o x
<1>2. e \in Seq(S) /\ Len(e) = 1 /\ e[1] = c
  OBVIOUS
<1> HIDE DEF e
<1>3. t \in Seq(S) /\ Len(t) = n + 1 /\ \A i \in 1..n + 1 : t[i] = IF i <= 1 THEN e[i] ELSE x[i - 1]
  <2>1. /\ t \in Seq(S) /\ Len(t) = Len(e) + Len(x)
        /\ \A i \in 1..Len(e) + Len(x) : t[i] = IF i <= Len(e) THEN e[i] ELSE x[i - Len(e)]
    BY <1>2, ConcatProperties, Zenon
  <2> HIDE DEF t
  <2> QED BY <1>1, <1>2, <2>1
<1> HIDE DEF t
<1>4. t[1] = c /\ t # <<>>
  BY <1>1, <1>2, <1>3
<1>5. From(t, 2) = x
  <2>1. PICK h \in 1..Len(t) + 1 : h = 2
    BY <1>1, <1>3
  <2> DEFINE u == From(t, h)
  <2>2. u \in Seq(S) /\ Len(u) = Len(t) - h + 1 /\ \A j \in 1..Len(t) - h + 1 : u[j] = t[h + j - 1]
    BY <1>3, FromIs
  <2> HIDE DEF u
  <2>3. ASSUME NEW j \in 1..n PROVE u[j] = x[j]
    <3>1. u[j] = t[j + 1]
      <4>1. j \in 1..Len(t) - h + 1 /\ h + j - 1 = j + 1
        BY <1>1, <1>3, <2>1
      <4> QED BY <2>2, <4>1
    <3>2. j + 1 \in 1..n + 1 /\ ~(j + 1 <= 1) /\ j + 1 - 1 = j
      BY <1>1
    <3> QED BY <1>3, <3>1, <3>2
  <2>4. Len(u) = n
    BY <1>1, <1>3, <2>1, <2>2
  <2>5. u = x
    BY <1>1, <2>2, <2>3, <2>4, SeqEqual
  <2> QED BY <2>1, <2>5 DEF u
<1>6. Tail(t) = From(t, 2)
  BY <1>3, <1>4 DEF From
<1>7. t = <<c>> \o x
  BY DEF t, e
<1> QED BY <1>1, <1>3, <1>4, <1>5, <1>6, <1>7

-----------------------------------------------------------------------------
(* Lines one behind the other, however they are grouped. *)
LEMMA Regrouped ==
  ASSUME NEW a \in Lines, NEW b \in Lines, NEW c \in Lines
  PROVE  (a \o b) \o c = a \o (b \o c)
BY ConcatAssociative DEF Lines

LEMMA Glued == ASSUME NEW a \in Lines, NEW b \in Lines PROVE a \o b \in Lines
BY ConcatProperties DEF Lines

(* q is a and b, one behind the other. *)
IsPair(q, a, b) == q = a \o b

LEMMA PairTyped ==
  ASSUME NEW a \in Lines, NEW b \in Lines
  PROVE  /\ \E p \in Lines : IsPair(p, a, b)
         /\ \A p : IsPair(p, a, b) => p \in Lines
BY Glued DEF IsPair

LEMMA PairSlid ==
  ASSUME NEW a \in Lines, NEW b \in Lines, NEW c \in Lines, NEW p, NEW u, NEW q,
         IsPair(p, a, b), IsPair(u, b, c), IsPair(q, p, c)
  PROVE  IsPair(q, a, u)
<1>1. (a \o b) \o c = a \o (b \o c)
  BY Regrouped
<1> QED BY <1>1, Zenon DEF IsPair

LEMMA Slid ==
  ASSUME NEW a \in Lines, NEW b \in Lines, NEW c \in Lines, NEW p, NEW u, p = a \o b, u = b \o c
  PROVE  p \o c = a \o u
<1>1. PICK q : IsPair(q, p, c)
  BY DEF IsPair
<1>2. IsPair(p, a, b) /\ IsPair(u, b, c)
  BY Zenon DEF IsPair
<1>3. IsPair(q, a, u)
  BY <1>1, <1>2, PairSlid
<1> QED BY <1>1, <1>3, Zenon DEF IsPair

LEMMA EmptyLine == <<>> \in Lines /\ \A a \in Lines : <<>> \o a = a /\ a \o <<>> = a
BY ConcatEmptySeq DEF Lines

LEMMA OneToken ==
  ASSUME NEW c \in Chars
  PROVE  <<c>> \in Lines /\ Len(<<c>>) = 1 /\ <<c>>[1] = c /\ <<c>> # <<>>
BY DEF Lines

LEMMA JointLine ==
  ASSUME NEW a \in Lines, NEW c \in Chars, NEW b \in Lines
  PROVE  Joint(a \o <<c>> \o b, Chars, a, c, b) /\ a \o (<<c>> \o b) = a \o <<c>> \o b
<1>1. a \in Seq(Chars) /\ b \in Seq(Chars)
  BY DEF Lines
<1>2. Joint(a \o <<c>> \o b, Chars, a, c, b)
  BY <1>1, JointJoined
<1>3. <<c>> \in Lines
  BY OneToken
<1> QED BY <1>2, <1>3, Regrouped

LEMMA PairJoint ==
  ASSUME NEW a \in Lines, NEW c \in Chars, NEW b \in Lines, NEW e, e = <<c>>,
         NEW u, NEW y, IsPair(u, e, b), IsPair(y, a, u)
  PROVE  Joint(y, Chars, a, c, b)
<1>1. Joint(a \o <<c>> \o b, Chars, a, c, b) /\ a \o (<<c>> \o b) = a \o <<c>> \o b
  BY JointLine
<1> QED BY <1>1, Zenon DEF IsPair

(* A gap of one blank or two. *)
Pads == {<<>>, <<SPACE>>}

LEMMA PadsAre == Pads \subseteq Lines
BY Marks, OneToken, EmptyLine DEF Pads

LEMMA WordsPadded ==
  ASSUME NEW s, NEW ws, IsWords(s, ws), NEW pad \in Pads
  PROVE  IsWords(pad \o s, ws) /\ IsWords(s \o pad, ws)
<1>1. s \in Lines /\ ws \in Seq(Lines) /\ <<>> \in Lines /\ SPACE \in Chars
  BY Marks, EmptyLine DEF IsWords
<1>2. CASE pad = <<>>
  BY <1>1, <1>2, EmptyLine
<1>3. CASE pad = <<SPACE>>
  <2>1. PICK sp \in Lines : sp = <<SPACE>>
    BY <1>1, OneToken
  <2>2. <<>> \o sp = sp /\ (s \o sp) \o <<>> = s \o sp
    BY <2>1, <1>1, Glued, EmptyLine
  <2>3. PICK y : y = sp \o s
    OBVIOUS
  <2>4. PICK z : z = s \o sp
    OBVIOUS
  <2>5. Joint(y, Chars, <<>>, SPACE, s)
    <3>1. Joint(<<>> \o <<SPACE>> \o s, Chars, <<>>, SPACE, s)
      BY <1>1, JointLine
    <3> QED BY <2>1, <2>2, <2>3, <3>1, Zenon
  <2>6. Joint(z, Chars, s, SPACE, <<>>)
    <3>1. Joint(s \o <<SPACE>> \o <<>>, Chars, s, SPACE, <<>>)
      BY <1>1, JointLine
    <3> QED BY <2>1, <2>2, <2>4, <3>1, Zenon
  <2>7. IsWords(y, <<>> \o ws) /\ IsWords(z, ws \o <<>>)
    BY <2>5, <2>6, NoWords, WordsJoint
  <2>8. <<>> \o ws = ws /\ ws \o <<>> = ws
    BY <1>1, ConcatEmptySeq
  <2> QED BY <1>3, <2>1, <2>3, <2>4, <2>7, <2>8, Zenon
<1> QED BY <1>2, <1>3 DEF Pads

(* Words, each behind a blank or two: a blank, and the words. *)
LEMMA JoinedWords ==
  ASSUME NEW ms \in Seq(Lines), NEW ws \in Seq(Lines), ms # <<>>, Len(ms) = Len(ws),
         \A i \in 1..Len(ms) : IsWords(ms[i], <<ws[i]>>)
  PROVE  \E s \in Lines : JoinedBy(SPACE, ms) = <<SPACE>> \o s /\ IsWords(s, ws)
<1>1. PICK n \in Nat : n = Len(ms) /\ n > 0 /\ n = Len(ws) /\ \A k \in 1..n : ms[k] \in Lines /\ ws[k] \in Lines
  BY LenProperties, EmptySeq, ElementOfSeq
<1>2. SPACE \in Chars /\ <<SPACE>> \in Lines
  BY Marks, OneToken
<1>3. PICK f : IsJoin(f, Chars, SPACE, ms, n)
  <2>1. ms \in Seq(Seq(Chars))
    BY DEF Lines
  <2> QED BY <1>1, <1>2, <2>1, JoinedFold
<1>4. /\ f \in [0..n -> Lines] /\ f[0] = <<>> /\ f[n] = JoinedBy(SPACE, ms)
      /\ \A k \in 1..n : f[k] = f[k - 1] \o <<SPACE>> \o ms[k]
  BY <1>3 DEF IsJoin, Lines
<1> DEFINE Begun(k) == \E s \in Lines : f[k] = <<SPACE>> \o s /\ IsWords(s, SubSeq(ws, 1, k))
           T == {k \in 0..n : k > 0 => Begun(k)}
<1>5. 0 \in T
  BY <1>1
<1>6. ASSUME NEW k \in 0..n, k < n, k \in T PROVE k + 1 \in T
  <2>1. PICK h \in 1..n : h = k + 1 /\ h - 1 = k
    BY <1>1, <1>6
  <2>2. PICK p \in Lines : p = ms[h]
    BY <1>1
  <2>02. PICK w \in Lines : w = ws[h] /\ IsWords(p, <<w>>)
    BY <1>1, <2>2
  <2>3. f[h] = f[k] \o <<SPACE>> \o p
    BY <1>4, <2>1, <2>2
  <2>4. CASE k = 0
    <3>1. f[h] = <<SPACE>> \o p
      BY <1>2, <1>4, <2>3, <2>4, EmptyLine
    <3>2. SubSeq(ws, 1, h) = <<w>>
      <4> DEFINE u == SubSeq(ws, 1, 1)
      <4>1. u \in Seq(Lines) /\ Len(u) = 1 /\ u[1] = ws[1]
        BY <1>1, SubSeqProperties
      <4> HIDE DEF u
      <4>2. u = <<w>>
        BY <2>1, <2>02, <2>4, <4>1
      <4> QED BY <2>1, <2>4, <4>2 DEF u
    <3>3. IsWords(p, SubSeq(ws, 1, h))
      BY <2>02, <3>2
    <3>4. Begun(h)
      BY <3>1, <3>3
    <3>5. h \in T
      <4>1. h \in 0..n
        BY <1>1
      <4> QED BY <3>4, <4>1, Zenon
    <3> QED BY <2>1, <3>5
  <2>5. CASE k > 0
    <3>1. PICK s \in Lines : f[k] = <<SPACE>> \o s /\ IsWords(s, SubSeq(ws, 1, k))
      BY <1>6, <2>5
    <3>2. PICK y \in Lines : y = s \o <<SPACE>> \o p
      BY <1>2, Glued
    <3>3. IsWords(y, SubSeq(ws, 1, k) \o <<w>>)
      <4>1. Joint(y, Chars, s, SPACE, p)
        BY <1>2, <3>2, JointLine
      <4> QED BY <2>02, <3>1, <4>1, WordsJoint
    <3>4. f[h] = <<SPACE>> \o y
      <4>1. PICK e \in Lines : e = <<SPACE>>
        BY <1>2
      <4>2. ((e \o s) \o e) \o p = e \o ((s \o e) \o p)
        <5>1. PICK z \in Lines : IsPair(z, s, e)
          BY PairTyped
        <5>2. PICK x \in Lines : IsPair(x, e, s)
          BY PairTyped
        <5>3. PICK r \in Lines : IsPair(r, x, e)
          BY <5>2, PairTyped
        <5>4. PICK d \in Lines : IsPair(d, z, p)
          BY <5>1, PairTyped
        <5>5. PICK g \in Lines : IsPair(g, r, p)
          BY <5>3, PairTyped
        <5>6. IsPair(r, e, z)
          BY <5>1, <5>2, <5>3, PairSlid
        <5>7. IsPair(g, e, d)
          BY <5>1, <5>4, <5>5, <5>6, PairSlid
        <5> QED BY <5>1, <5>2, <5>3, <5>4, <5>5, <5>7, Zenon DEF IsPair
      <4> QED BY <2>3, <3>1, <3>2, <4>1, <4>2, Zenon
    <3>5. SubSeq(ws, 1, h) = SubSeq(ws, 1, k) \o <<w>>
      <4> DEFINE u == SubSeq(ws, 1, h)
                 v == SubSeq(ws, 1, k)
                 e == <<w>>
      <4>1. u \in Seq(Lines) /\ Len(u) = h /\ \A i \in 1..h : u[i] = ws[i]
        BY <1>1, SubSeqProperties
      <4>2. v \in Seq(Lines) /\ Len(v) = k /\ \A i \in 1..k : v[i] = ws[i]
        BY <1>1, <2>5, SubSeqProperties
      <4>6. e \in Seq(Lines) /\ Len(e) = 1 /\ e[1] = w
        OBVIOUS
      <4> HIDE DEF u, v, e
      <4>3. /\ v \o e \in Seq(Lines) /\ Len(v \o e) = k + 1 /\ (v \o e)[k + 1] = w
            /\ \A i \in 1..k : (v \o e)[i] = v[i]
        <5>1. k \in Nat /\ k + 1 \in Nat /\ k = Len(v) /\ 1 = Len(e)
          BY <1>1, <4>2, <4>6
        <5>2. Joined(v \o e, Lines, v, k, e, k + 1)
          BY <4>2, <4>6, <5>1, ConcatIs
        <5> QED BY <4>6, <5>1, <5>2 DEF Joined
      <4>4. \A i \in 1..h : u[i] = (v \o e)[i]
        BY <2>1, <2>02, <4>1, <4>2, <4>3
      <4>5. u = v \o e
        BY <2>1, <4>1, <4>3, <4>4, SeqEqual
      <4> QED BY <4>5 DEF u, v, e
    <3>6. Begun(h)
      BY <3>3, <3>4, <3>5
    <3>7. h \in T
      <4>1. h \in 0..n
        BY <1>1, <2>1
      <4> QED BY <3>6, <4>1, Zenon
    <3> QED BY <2>1, <3>7
  <2> QED BY <2>4, <2>5
<1> HIDE DEF T
<1>7. \A k \in 0..n : k \in T
  BY <1>1, <1>5, <1>6, BoundedInduction
<1>8. Begun(n)
  <2>1. n \in T
    BY <1>1, <1>7
  <2> QED BY <1>1, <2>1 DEF T
<1>9. SubSeq(ws, 1, n) = ws
  BY <1>1, SubSeqFull
<1> QED BY <1>4, <1>8, <1>9

LEMMA Shifted ==
  ASSUME NEW a \in Lines, NEW b \in Lines, NEW c \in Lines, NEW p, NEW v, NEW q, NEW f, NEW g,
         IsPair(p, a, c), IsPair(v, b, a), IsPair(q, v, c), IsPair(f, a, b), IsPair(g, a, q)
  PROVE  IsPair(g, f, p)
<1>1. p \in Lines /\ v \in Lines /\ f \in Lines
  BY PairTyped
<1>2. IsPair(q, b, p)
  BY PairSlid
<1>3. PICK h \in Lines : IsPair(h, f, p)
  BY <1>1, PairTyped
<1>4. IsPair(h, a, q)
  BY <1>1, <1>2, <1>3, PairSlid, PairTyped
<1>5. h = g
  BY <1>4, Zenon DEF IsPair
<1> QED BY <1>3, <1>5

LEMMA JoinedFew ==
  ASSUME NEW c \in Chars
  PROVE  JoinedBy(c, <<>>) = <<>> /\ \A g \in Lines : JoinedBy(c, <<g>>) = <<c>> \o g
<1>1. JoinedBy(c, <<>>) = <<>>
  <2>1. <<>> \in Seq(Seq(Chars)) /\ Len(<<>>) = 0
    OBVIOUS
  <2>2. PICK f : IsJoin(f, Chars, c, <<>>, 0)
    BY <2>1, JoinedFold
  <2> QED BY <2>2 DEF IsJoin
<1>2. ASSUME NEW g \in Lines PROVE JoinedBy(c, <<g>>) = <<c>> \o g
  <2>1. <<g>> \in Seq(Seq(Chars)) /\ Len(<<g>>) = 1 /\ <<g>>[1] = g
    BY DEF Lines
  <2>2. PICK ps : ps = <<g>>
    OBVIOUS
  <2>3. PICK f : IsJoin(f, Chars, c, ps, 1)
    BY <2>1, <2>2, JoinedFold
  <2>4. f[1] = JoinedBy(c, ps) /\ f[0] = <<>> /\ \A k \in 1..1 : f[k] = f[k - 1] \o <<c>> \o ps[k]
    BY <2>3 DEF IsJoin
  <2>5. 1 \in 1..1 /\ 1 - 1 = 0
    OBVIOUS
  <2>6. f[1] = f[1 - 1] \o <<c>> \o ps[1]
    BY <2>4, <2>5, Zenon
  <2>7. f[1] = <<>> \o <<c>> \o g
    BY <2>1, <2>2, <2>4, <2>5, <2>6, Zenon
  <2>8. <<c>> \in Lines
    BY OneToken
  <2>9. <<>> \o <<c>> = <<c>>
    BY <2>8, EmptyLine
  <2> QED BY <2>2, <2>4, <2>7, <2>9, Zenon
<1> QED BY <1>1, <1>2

(* What the client makes of the tags of a message. *)

LEMMA Singly ==
  ASSUME NEW S, NEW a \in S
  PROVE  <<a>> \in Seq(S) /\ Len(<<a>>) = 1 /\ <<a>> # <<>> /\ <<a>>[1] = a
<1>1. <<a>> \in Seq(S)
  OBVIOUS
<1>2. Len(<<a>>) = 1 /\ <<a>> # <<>> /\ <<a>>[1] = a
  OBVIOUS
<1> QED BY <1>1, <1>2

LEMMA Doubly ==
  ASSUME NEW S, NEW a \in S, NEW b \in S
  PROVE  Append(<<a>>, b) = <<a, b>>
<1>1. PICK s \in Seq(S) : s = <<a>> /\ Len(s) = 1 /\ s[1] = a
  BY Singly
<1>2. PICK t : t = <<a, b>>
  OBVIOUS
<1>6. t \in Seq(S) /\ Len(t) = 2 /\ t[1] = a /\ t[2] = b
  BY <1>2
<1>3. PICK u : u = Append(s, b)
  OBVIOUS
<1>7. u \in Seq(S) /\ Len(u) = Len(s) + 1 /\ u[Len(s) + 1] = b /\ \A i \in 1..Len(s) : u[i] = s[i]
  BY <1>3, AppendProperties
<1>8. Len(u) = 2 /\ u[1] = a /\ u[2] = b
  BY <1>1, <1>7
<1>4. \A i \in 1..Len(t) : t[i] = u[i]
  BY <1>6, <1>8
<1>5. t = u
  BY <1>4, <1>6, <1>7, <1>8, SeqEqual
<1> QED BY <1>1, <1>2, <1>3, <1>5

(* Lines one behind the other, for proofs that only regroup them. *)
Cat(a, b) == a \o b

LEMMA CatTyped == ASSUME NEW a \in Lines, NEW b \in Lines PROVE Cat(a, b) \in Lines
BY Glued DEF Cat

LEMMA CatAssociative ==
  ASSUME NEW a \in Lines, NEW b \in Lines, NEW c \in Lines
  PROVE  Cat(Cat(a, b), c) = Cat(a, Cat(b, c))
BY Regrouped DEF Cat

LEMMA CatRegrouped ==
  /\ \A a, b \in Lines : Cat(a, b) \in Lines
  /\ \A a, b, c \in Lines : Cat(Cat(a, b), c) = Cat(a, Cat(b, c))
  /\ <<>> \in Lines /\ \A a \in Lines : Cat(<<>>, a) = a /\ Cat(a, <<>>) = a
<1>1. \A a, b \in Lines : Cat(a, b) \in Lines
  BY CatTyped
<1>2. \A a, b, c \in Lines : Cat(Cat(a, b), c) = Cat(a, Cat(b, c))
  BY CatAssociative
<1>3. <<>> \in Lines /\ \A a \in Lines : Cat(<<>>, a) = a /\ Cat(a, <<>>) = a
  BY EmptyLine DEF Cat
<1> QED BY <1>1, <1>2, <1>3

LEMMA CatSpaced ==
  ASSUME NEW a \in Lines, NEW c \in Chars, NEW sp, sp = <<c>>, NEW b \in Lines
  PROVE  Joint(Cat(Cat(a, sp), b), Chars, a, c, b) /\ Cat(Cat(a, sp), b) # <<>>
<1>1. Joint(a \o <<c>> \o b, Chars, a, c, b)
  BY JointLine
<1>2. PICK y : y = Cat(Cat(a, sp), b)
  OBVIOUS
<1>3. Joint(y, Chars, a, c, b)
  BY <1>1, <1>2, Zenon DEF Cat
<1>4. Len(y) = Len(a) + 1 + Len(b)
  BY <1>3 DEF Joint
<1>5. Len(a) \in Nat /\ Len(b) \in Nat
  BY LenProperties DEF Lines
<1>6. y # <<>>
  BY <1>4, <1>5
<1> QED BY <1>2, <1>3, <1>6

LEMMA SomeWords ==
  ASSUME NEW s, NEW ws, IsWords(s, ws), ws # <<>>
  PROVE  s # <<>>
<1> SUFFICES ASSUME s = <<>> PROVE FALSE
  OBVIOUS
<1>1. Tokens(s) = ws
  BY WordsTokens
<1>2. Tokens(s) = <<NULL>>
  BY NoWords, WordsTokens
<1>3. ws \in Seq(Lines)
  BY DEF IsWords
<1>4. ws[1] = NULL /\ Len(ws) = 1
  BY <1>1, <1>2
<1>5. NULL \in Lines
  BY <1>3, <1>4, ElementOfSeq
<1> QED BY <1>5, NullIsNoValue

(* The parameters ms and x as they stand behind a command and a blank.     *)
Parameters(r, ms, x, colon, narrow) ==
  /\ r \in Lines /\ r # <<>>
  /\ IF ~colon THEN IsWords(r, Append(ms, x))
     ELSE \/ narrow /\ ms = <<>> /\ r = Cat(<<":">>, x)
          \/ /\ ms = <<>> => ~narrow
             /\ \E q \in Lines : IsWords(q, ms) /\ r = Cat(Cat(q, <<SPACE>>), Cat(<<":">>, x))

(* The parameters ms and x as they are laid out behind a command: the words *)
(* ps of ms in J, x in L, and the gap en.                                   *)
LaidBehind(ps, ms, x, colon, ex, en, J, L) ==
  /\ Len(ps) = Len(ms) /\ \A i \in 1..Len(ps) : IsWords(ps[i], <<ms[i]>>)
  /\ colon => en = <<>>
  /\ colon \/ IsWord(x)
  /\ J = JoinedBy(SPACE, ps)
  /\ L = <<SPACE>> \o ex \o (IF colon THEN <<":">> ELSE <<>>) \o x

LEMMA AfterCommand ==
  ASSUME NEW ps \in Seq(Lines), NEW ms \in Seq(Lines), NEW x \in Lines, NEW colon \in BOOLEAN,
         NEW ex \in Pads, NEW en \in Pads, NEW narrow \in BOOLEAN, narrow <=> ex = <<>>,
         NEW J, NEW L, LaidBehind(ps, ms, x, colon, ex, en, J, L)
  PROVE  \E r : Parameters(r, ms, x, colon, narrow) /\ Cat(Cat(J, L), en) = Cat(<<SPACE>>, r)
<1>0. /\ Len(ps) = Len(ms) /\ \A i \in 1..Len(ps) : IsWords(ps[i], <<ms[i]>>)
      /\ colon => en = <<>>
      /\ colon \/ IsWord(x)
      /\ J = JoinedBy(SPACE, ps)
      /\ L = <<SPACE>> \o ex \o (IF colon THEN <<":">> ELSE <<>>) \o x
  BY DEF LaidBehind
<1> USE <1>0
<1>1. SPACE \in Chars /\ ":" \in Chars /\ <<>> \in Lines /\ ex \in Lines /\ en \in Lines
  BY Marks, EmptyLine, PadsAre
<1>2. PICK sp \in Lines : sp = <<SPACE>>
  BY <1>1, OneToken
<1>3. PICK co \in Lines : co = <<":">>
  BY <1>1, OneToken
<1>4. PICK e \in Lines : e = IF colon THEN co ELSE <<>>
  BY <1>1
<1>5. PICK t \in Lines : t = Cat(e, x)
  BY CatRegrouped
<1>6. PICK u \in Lines : u = Cat(ex, Cat(t, en))
  BY <1>1, CatRegrouped
<1>7. L = Cat(Cat(Cat(sp, ex), e), x)
  BY <1>2, <1>3, <1>4, Zenon DEF Cat
<1>8. L \in Lines /\ Cat(L, en) = Cat(sp, u)
  <2>1. PICK p \in Lines : p = Cat(sp, ex)
    BY <1>1, CatRegrouped
  <2>2. L = Cat(p, t)
    <3>1. Cat(Cat(p, e), x) = Cat(p, Cat(e, x))
      BY CatAssociative
    <3> QED BY <1>5, <1>7, <2>1, <3>1
  <2>6. L \in Lines
    BY <1>5, <2>1, <2>2, CatTyped
  <2>3. Cat(L, en) = Cat(p, Cat(t, en)) /\ L \in Lines
    <3>1. Cat(Cat(p, t), en) = Cat(p, Cat(t, en))
      BY <1>1, CatAssociative
    <3> QED BY <2>2, <2>6, <3>1
  <2>4. Cat(t, en) \in Lines
    BY <1>1, CatRegrouped
  <2>5. Cat(p, Cat(t, en)) = Cat(sp, Cat(ex, Cat(t, en)))
    BY <1>1, <2>1, <2>4, CatRegrouped
  <2> QED BY <1>6, <2>3, <2>5
<1>9. ASSUME ~colon PROVE IsWords(u, <<x>>)
  <2>1. t = x
    BY <1>4, <1>5, <1>9, CatRegrouped
  <2>2. IsWords(x, <<x>>)
    BY <1>9, WordAlone
  <2>3. IsWords(Cat(x, en), <<x>>)
    BY <2>2, WordsPadded DEF Cat
  <2>4. IsWords(Cat(ex, Cat(x, en)), <<x>>)
    BY <2>3, WordsPadded DEF Cat
  <2> QED BY <1>6, <2>1, <2>4
<1>10. ASSUME colon PROVE t = Cat(co, x) /\ u = Cat(ex, t)
  BY <1>4, <1>5, <1>6, <1>10, CatRegrouped
<1>11. ASSUME NEW s, IsWords(s, ms), colon
       PROVE  /\ IsWords(Cat(s, ex), ms)
              /\ Cat(Cat(s, sp), u) = Cat(Cat(Cat(s, ex), sp), t)
  <2>1. s \in Lines
    BY <1>11 DEF IsWords
  <2>2. IsWords(Cat(s, ex), ms)
    BY <1>11, WordsPadded DEF Cat
  <2>3. CASE ex = <<>>
    BY <1>10, <1>11, <2>1, <2>2, <2>3, CatRegrouped
  <2>4. CASE ex = sp
    <3>1. u = Cat(sp, t)
      BY <1>10, <1>11, <2>4
    <3>2. Cat(s, sp) \in Lines
      BY <2>1, CatRegrouped
    <3>3. Cat(Cat(s, sp), Cat(sp, t)) = Cat(Cat(Cat(s, sp), sp), t)
      BY <3>2, CatRegrouped
    <3> QED BY <2>2, <2>4, <3>1, <3>3
  <2> QED BY <1>2, <2>3, <2>4 DEF Pads
<1>12. CASE ms = <<>>
  <2>1. J = <<>>
    <3>1. ps = <<>>
      BY <1>12, EmptySeq
    <3>2. JoinedBy(SPACE, <<>>) = <<>>
      BY <1>1, JoinedFew
    <3> QED BY <3>1, <3>2
  <2>2. Cat(Cat(J, L), en) = Cat(<<SPACE>>, u)
    BY <1>2, <1>8, <2>1, CatRegrouped
  <2>3. Parameters(u, ms, x, colon, narrow)
    <3>1. CASE ~colon
      <4>1. IsWords(u, Append(ms, x))
        BY <1>9, <1>12, <3>1
      <4>2. Append(ms, x) # <<>>
        BY <1>12
      <4> QED BY <3>1, <4>1, <4>2, SomeWords DEF Parameters
    <3>2. CASE colon /\ ex = <<>>
      <4>1. u = Cat(co, x)
        BY <1>5, <1>10, <3>2, CatRegrouped
      <4>2. u # <<>>
        <5>1. <<":">> \o x # <<>>
          BY <1>1, BehindColon DEF Lines
        <5> QED BY <1>3, <4>1, <5>1 DEF Cat
      <4> QED BY <1>3, <1>12, <3>2, <4>1, <4>2 DEF Parameters
    <3>3. CASE colon /\ ex = sp
      <4>1. IsWords(<<>>, ms) /\ sp # <<>>
        BY <1>1, <1>2, <1>12, NoWords, OneToken
      <4>2. u = Cat(Cat(<<>>, sp), t)
        BY <1>10, <3>3, CatRegrouped
      <4>3. u # <<>>
        BY <1>1, <1>2, <4>2, CatSpaced
      <4>4. u = Cat(Cat(<<>>, <<SPACE>>), Cat(<<":">>, x))
        BY <1>2, <1>3, <1>10, <3>3, <4>2
      <4> QED BY <1>1, <3>3, <4>1, <4>3, <4>4 DEF Parameters
    <3> QED BY <1>2, <3>1, <3>2, <3>3 DEF Pads
  <2> QED BY <2>2, <2>3
<1>13. CASE ms # <<>>
  <2>1. PICK s \in Lines : J = <<SPACE>> \o s /\ IsWords(s, ms)
    <3>1. ps # <<>>
      BY <1>13, EmptySeq
    <3>2. \E s \in Lines : JoinedBy(SPACE, ps) = <<SPACE>> \o s /\ IsWords(s, ms)
      BY <3>1, JoinedWords
    <3> QED BY <3>2
  <2>2. PICK r \in Lines : r = Cat(Cat(s, sp), u)
    BY CatRegrouped
  <2>3. r # <<>> /\ Joint(r, Chars, s, SPACE, u)
    BY <1>1, <1>2, <2>2, CatSpaced
  <2>4. Cat(Cat(J, L), en) = Cat(<<SPACE>>, r)
    <3>1. J = Cat(sp, s) /\ J \in Lines
      BY <1>2, <2>1, CatRegrouped DEF Cat
    <3>2. Cat(Cat(J, L), en) = Cat(J, Cat(sp, u))
      BY <1>1, <1>8, <3>1, CatRegrouped
    <3>3. Cat(sp, u) \in Lines
      BY CatRegrouped
    <3>4. Cat(J, Cat(sp, u)) = Cat(sp, Cat(s, Cat(sp, u)))
      BY <3>1, <3>3, CatRegrouped
    <3>5. Cat(s, Cat(sp, u)) = r
      BY <2>2, CatRegrouped
    <3> QED BY <1>2, <3>2, <3>4, <3>5
  <2>5. Parameters(r, ms, x, colon, narrow)
    <3>1. CASE ~colon
      <4>1. IsWords(r, ms \o <<x>>)
        BY <1>9, <2>1, <2>3, <3>1, WordsJoint
      <4>2. ms \o <<x>> = Append(ms, x)
        BY AppendIsConcat
      <4> QED BY <2>3, <3>1, <4>1, <4>2 DEF Parameters
    <3>2. CASE colon
      <4>1. PICK q \in Lines : q = Cat(s, ex)
        BY <1>1, CatRegrouped
      <4>2. IsWords(q, ms) /\ r = Cat(Cat(q, sp), t)
        BY <1>11, <2>1, <2>2, <3>2, <4>1
      <4>3. r = Cat(Cat(q, <<SPACE>>), Cat(<<":">>, x))
        BY <1>2, <1>3, <1>10, <3>2, <4>2
      <4> QED BY <1>13, <2>3, <3>2, <4>2, <4>3 DEF Parameters
    <3> QED BY <3>1, <3>2
  <2> QED BY <2>4, <2>5
<1> QED BY <1>12, <1>13

(* What sirc_parse makes of them. *)
ParamsHeard(ms, x, colon, narrow) ==
  IF colon /\ ms = <<>> /\ ~narrow THEN <<NULL, x>> ELSE Append(ms, x)

LEMMA ParamsRead ==
  ASSUME NEW ms \in Seq(Lines), NEW x \in Lines, NEW colon \in BOOLEAN, NEW narrow \in BOOLEAN,
         NEW r, Parameters(r, ms, x, colon, narrow)
  PROVE  ParamsOf(r) = ParamsHeard(ms, x, colon, narrow)
<1>1. SPACE \in Chars /\ ":" \in Chars
  BY Marks
<1>2. PICK t \in Lines : t = Cat(<<":">>, x)
  BY <1>1, OneToken, CatRegrouped
<1>3. t \in Seq(Chars) /\ t # <<>> /\ t[1] = ":" /\ From(t, 2) = x
  BY <1>1, <1>2, BehindColon DEF Cat, Lines
<1>4. CASE ~colon
  <2>1. IsWords(r, Append(ms, x)) /\ r # <<>> /\ Append(ms, x) # <<>>
    BY <1>4 DEF Parameters
  <2> QED BY <1>4, <2>1, ParamsBare DEF ParamsHeard
<1>5. CASE colon /\ narrow /\ ms = <<>> /\ r = t
  <2>1. ParamsOf(r) = <<x>>
    BY <1>3, <1>5, ParamsText
  <2> QED BY <1>5, <2>1 DEF ParamsHeard
<1>6. ASSUME colon, ms = <<>> => ~narrow, NEW q \in Lines, IsWords(q, ms),
             r = Cat(Cat(q, <<SPACE>>), t)
      PROVE  ParamsOf(r) = ParamsHeard(ms, x, colon, narrow)
  <2>1. Joint(r, Chars, q, SPACE, t)
    BY <1>1, <1>6, CatSpaced
  <2>2. ParamsOf(r) = Append(IF ms = <<>> THEN <<NULL>> ELSE ms, x)
    BY <1>3, <1>6, <2>1, ParamsColon
  <2>3. Append(<<NULL>>, x) = <<NULL, x>>
    <3>1. NULL \in Lines \cup {NULL} /\ x \in Lines \cup {NULL}
      OBVIOUS
    <3> QED BY <3>1, Doubly
  <2> QED BY <1>6, <2>2, <2>3 DEF ParamsHeard
<1> QED BY <1>2, <1>4, <1>5, <1>6 DEF Parameters

(* The same behind one word more: a command that is taken for a parameter. *)
LEMMA AstrayRead ==
  ASSUME NEW ms \in Seq(Lines), NEW x \in Lines, NEW colon \in BOOLEAN, NEW narrow \in BOOLEAN,
         NEW r, Parameters(r, ms, x, colon, narrow),
         NEW A, NEW a \in Lines, IsWords(A, <<a>>)
  PROVE  ParamsOf(Cat(Cat(A, <<SPACE>>), r)) = Append(<<a>> \o ms, x)
<1>1. SPACE \in Chars /\ ":" \in Chars /\ A \in Lines /\ r \in Lines
  BY Marks DEF IsWords, Parameters
<1>2. PICK sp \in Lines : sp = <<SPACE>>
  BY <1>1, OneToken
<1>3. PICK t \in Lines : t = Cat(<<":">>, x)
  BY <1>1, OneToken, CatRegrouped
<1>4. t \in Seq(Chars) /\ t # <<>> /\ t[1] = ":" /\ From(t, 2) = x
  BY <1>1, <1>3, BehindColon DEF Cat, Lines
<1>5. PICK y \in Lines : y = Cat(Cat(A, sp), r)
  BY <1>1, CatRegrouped
<1>6. Joint(y, Chars, A, SPACE, r) /\ y # <<>>
  BY <1>1, <1>2, <1>5, CatSpaced
<1>7. PICK aa \in Seq(Lines) : aa = <<a>>
  BY Singly
<1>8. aa # <<>> /\ Len(aa) = 1
  BY <1>7, Singly
<1>9. aa \o ms \in Seq(Lines) /\ aa \o ms # <<>>
  <2>1. aa \o ms \in Seq(Lines) /\ Len(aa \o ms) = 1 + Len(ms) /\ Len(ms) \in Nat
    BY <1>8, ConcatProperties, LenProperties
  <2>2. Len(aa \o ms) # 0
    BY <2>1
  <2> QED BY <2>1, <2>2
<1>10. CASE ~colon
  <2>1. IsWords(r, Append(ms, x))
    BY <1>10 DEF Parameters
  <2>2. IsWords(y, aa \o Append(ms, x))
    BY <1>6, <1>7, <2>1, WordsJoint
  <2>3. aa \o Append(ms, x) = Append(aa \o ms, x)
    <3>1. PICK xx \in Seq(Lines) : xx = <<x>>
      BY Singly
    <3>2. Append(ms, x) = ms \o xx /\ Append(aa \o ms, x) = (aa \o ms) \o xx
      BY <1>9, <3>1, AppendIsConcat
    <3> QED BY <3>2, ConcatAssociative
  <2>4. Append(aa \o ms, x) # <<>>
    BY <1>9, AppendProperties
  <2>5. ParamsOf(y) = Append(aa \o ms, x)
    BY <1>6, <2>2, <2>3, <2>4, ParamsBare
  <2> QED BY <1>2, <1>5, <1>7, <2>5
<1>11. CASE colon /\ ms = <<>> /\ r = t
  <2>1. ParamsOf(y) = Append(aa, x)
    BY <1>4, <1>6, <1>7, <1>8, <1>11, ParamsColon
  <2>2. aa \o ms = aa
    BY <1>11, ConcatEmptySeq
  <2> QED BY <1>2, <1>5, <1>7, <2>1, <2>2
<1>12. ASSUME NEW q \in Lines, IsWords(q, ms), r = Cat(Cat(q, sp), t)
       PROVE  ParamsOf(y) = Append(aa \o ms, x)
  <2>1. PICK z \in Lines : z = Cat(Cat(A, sp), q)
    BY <1>1, CatRegrouped
  <2>2. IsWords(z, aa \o ms)
    <3>1. Joint(z, Chars, A, SPACE, q)
      BY <1>1, <1>2, <2>1, CatSpaced
    <3> QED BY <1>7, <1>12, <3>1, WordsJoint
  <2>3. y = Cat(Cat(z, sp), t)
    <3>1. PICK B \in Lines : B = Cat(A, sp)
      BY <1>1, CatRegrouped
    <3>2. Cat(q, sp) \in Lines
      BY CatRegrouped
    <3>3. y = Cat(Cat(B, Cat(q, sp)), t)
      BY <1>5, <1>12, <3>1, <3>2, CatRegrouped
    <3>4. Cat(B, Cat(q, sp)) = Cat(z, sp)
      BY <2>1, <3>1, CatRegrouped
    <3> QED BY <3>3, <3>4
  <2>4. Joint(y, Chars, z, SPACE, t)
    BY <1>1, <1>2, <2>3, CatSpaced
  <2> QED BY <1>4, <1>9, <2>2, <2>4, ParamsColon
<1> QED BY <1>2, <1>3, <1>5, <1>7, <1>10, <1>11, <1>12 DEF Parameters

-----------------------------------------------------------------------------
(* The loop over the characters of a tag. *)
TagStates == [key : Lines, value : Lines, inKey : BOOLEAN, esc : BOOLEAN]

TagsRead(s) == FoldLeft(TagStep, TagStart, s)

LEMMA UnescapedTyped == ASSUME NEW c \in Chars PROVE Unescaped(c) \in Chars
<1>1. SEMICOLON \in Chars /\ SPACE \in Chars /\ "CR" \in Chars /\ "LF" \in Chars
  BY DEF Chars
<1> QED BY <1>1 DEF Unescaped

LEMMA TagStepTyped ==
  ASSUME NEW t \in TagStates, NEW c \in Chars
  PROVE  TagStep(t, c) \in TagStates
<1>1. Append(t.key, c) \in Lines /\ Append(t.value, c) \in Lines
      /\ Append(t.value, Unescaped(c)) \in Lines
  BY UnescapedTyped DEF TagStates, Lines
<1> QED BY <1>1 DEF TagStates, TagStep

AreReads(f, s, n) ==
  /\ f \in [0..n -> TagStates] /\ f[0] = TagStart /\ f[n] = TagsRead(s)
  /\ \A k \in 1..n : f[k] = TagStep(f[k - 1], s[k])

LEMMA ReadFold ==
  ASSUME NEW s \in Lines, NEW n, n = Len(s)
  PROVE  \E f : AreReads(f, s, n)
<1>0. n \in Nat /\ DOMAIN s = 1..n /\ \A k \in 1..n : s[k] \in Chars
  BY LenProperties, ElementOfSeq DEF Lines
<1> DEFINE Y == TagStates
           F == [p \in (1..n) \X Y |-> TagStep(p[2], s[p[1]])]
           Next(it, t) == IF t = {} THEN TagStart ELSE TagStep(it[t \ {Max(t)}], s[Max(t)])
           g == CHOOSE h : h = [t \in SUBSET (1..n) |-> Next(h, t)]
<1>1. Steps(F, Y, n)
  <2>1. \A p \in (1..n) \X Y : TagStep(p[2], s[p[1]]) \in Y
    BY <1>0, TagStepTyped
  <2> HIDE DEF Y
  <2> QED BY <2>1 DEF Steps
<1>2. \A k \in 1..n, x \in Y : F[<<k, x>>] = TagStep(x, s[k])
  <2> HIDE DEF Y
  <2> QED OBVIOUS
<1>3. TagsRead(s) = g[1..n]
  BY <1>0 DEF TagsRead, FoldLeft, MapThenFoldSet
<1>4. TagStart \in Y
  BY EmptyLine DEF TagStart, TagStates
<1> HIDE DEF F, Y
<1>5. PICK it : IsFold(it, Y, n, TagStart, F)
  BY <1>0, <1>1, <1>4, FoldExists
<1>6. it = [t \in SUBSET (1..n) |-> Next(it, t)]
  <2>1. ASSUME NEW t \in SUBSET (1..n), t # {}
        PROVE  it[t] = TagStep(it[t \ {Max(t)}], s[Max(t)])
    <3>1. Max(t) \in 1..n /\ t \ {Max(t)} \in SUBSET (1..n)
      BY <1>0, <2>1, MaxIn
    <3>2. it[t \ {Max(t)}] \in Y /\ it[t] = F[<<Max(t), it[t \ {Max(t)}]>>]
      BY <1>5, <2>1, <3>1 DEF IsFold
    <3> QED BY <1>2, <3>1, <3>2
  <2>2. \A t \in SUBSET (1..n) : it[t] = Next(it, t)
    BY <1>5, <2>1 DEF IsFold
  <2>3. it = [t \in SUBSET (1..n) |-> it[t]]
    BY <1>5 DEF IsFold
  <2> QED BY <2>2, <2>3
<1>7. g = [t \in SUBSET (1..n) |-> Next(g, t)]
  BY <1>6
<1> HIDE DEF g
<1>8. Recurs(g, Y, n, TagStart, F)
  <2>1. ASSUME NEW t \in SUBSET (1..n), t # {}, g[t \ {Max(t)}] \in Y
        PROVE  g[t] = F[<<Max(t), g[t \ {Max(t)}]>>]
    <3>1. Max(t) \in 1..n
      BY <1>0, <2>1, MaxIn
    <3>2. g[t] = TagStep(g[t \ {Max(t)}], s[Max(t)])
      BY <1>7, <2>1
    <3> QED BY <1>2, <2>1, <3>1, <3>2
  <2>2. g[{}] = TagStart
    BY <1>7
  <2> QED BY <2>1, <2>2 DEF Recurs
<1>9. PICK f : IsLeftFold(f, g, Y, n, TagStart, F)
  BY <1>0, <1>1, <1>4, <1>8, FoldValues
<1>10. f \in [0..n -> Y] /\ f[0] = TagStart /\ f[n] = TagsRead(s)
  BY <1>3, <1>9 DEF IsLeftFold
<1>11. ASSUME NEW k \in 1..n PROVE f[k] = TagStep(f[k - 1], s[k])
  <2>1. k - 1 \in 0..n
    BY <1>0
  <2>2. f[k - 1] \in Y /\ f[k] = F[<<k, f[k - 1]>>]
    BY <1>9, <1>10, <2>1 DEF IsLeftFold
  <2> QED BY <1>2, <2>2
<1> QED BY <1>0, <1>10, <1>11 DEF AreReads, Y

LEMMA ReadsAt ==
  ASSUME NEW s, NEW n \in Nat, NEW f, AreReads(f, s, n), NEW k \in Nat, k < n
  PROVE  f[k + 1] = TagStep(f[k], s[k + 1])
<1>1. PICK j \in 1..n : j = k + 1
  OBVIOUS
<1>2. f[j] = TagStep(f[j - 1], s[j])
  BY DEF AreReads
<1>3. j - 1 = k
  BY <1>1
<1> QED BY <1>1, <1>2, <1>3

(* One character more is one step more. *)
LEMMA ReadAppend ==
  ASSUME NEW s \in Lines, NEW l \in Chars
  PROVE  Append(s, l) \in Lines /\ TagsRead(s) \in TagStates
         /\ TagsRead(Append(s, l)) = TagStep(TagsRead(s), l)
<1> DEFINE t == Append(s, l)
<1>0. PICK n \in Nat : n = Len(s)
  BY LenProperties DEF Lines
<1>1. t \in Lines /\ Len(t) = n + 1 /\ t[n + 1] = l /\ \A k \in 1..n : t[k] = s[k]
  BY <1>0, AppendProperties DEF Lines
<1> HIDE DEF t
<1>2. PICK f : AreReads(f, s, n)
  BY <1>0, ReadFold
<1>3. PICK m \in Nat : m = n + 1
  BY <1>0
<1>4. PICK g : AreReads(g, t, m)
  BY <1>1, <1>3, ReadFold
<1> DEFINE S == {k \in 0..n : f[k] = g[k]}
<1>5. 0 \in S
  BY <1>0, <1>2, <1>4 DEF AreReads
<1>6. ASSUME NEW k \in 0..n, k < n, k \in S PROVE k + 1 \in S
  <2>1. k \in Nat /\ k + 1 \in 1..n /\ k + 1 \in 0..n /\ k < m
    BY <1>0, <1>3, <1>6
  <2>2. f[k + 1] = TagStep(f[k], s[k + 1])
    BY <1>2, <1>6, <2>1, ReadsAt
  <2>3. g[k + 1] = TagStep(g[k], t[k + 1])
    BY <1>3, <1>4, <2>1, ReadsAt
  <2>4. f[k] = g[k] /\ t[k + 1] = s[k + 1]
    BY <1>1, <1>6, <2>1 DEF S
  <2> QED BY <2>1, <2>2, <2>3, <2>4 DEF S
<1> HIDE DEF S
<1>7. \A k \in 0..n : k \in S
  BY <1>5, <1>6, BoundedInduction
<1>8. f[n] = g[n]
  BY <1>0, <1>7 DEF S
<1>10. g[n + 1] = TagStep(g[n], t[n + 1])
  <2>1. n < m
    BY <1>0, <1>3
  <2> QED BY <1>3, <1>4, <2>1, ReadsAt
<1>11. f[n] = TagsRead(s) /\ f[n] \in TagStates /\ g[m] = TagsRead(t)
  <2>1. n \in 0..n
    BY <1>0
  <2> QED BY <1>2, <1>4, <2>1 DEF AreReads
<1> QED BY <1>1, <1>3, <1>8, <1>10, <1>11 DEF t

LEMMA ReadNothing == TagsRead(<<>>) = TagStart
<1>1. <<>> \in Lines /\ Len(<<>>) = 0
  BY EmptyLine
<1>2. PICK f : AreReads(f, <<>>, 0)
  BY <1>1, ReadFold
<1> QED BY <1>2 DEF AreReads

(* The characters of an escaped value. *)
UnescapedChars == Chars \ {SPACE, SEMICOLON}

LEMMA Escapes ==
  /\ BSL # SPACE /\ BSL # SEMICOLON /\ ":" # SPACE /\ ":" # SEMICOLON /\ SPACE # SEMICOLON
  /\ "s" # SPACE /\ "s" # SEMICOLON /\ "r" # SPACE /\ "r" # SEMICOLON
  /\ "n" # SPACE /\ "n" # SEMICOLON /\ "s" # ":" /\ "r" # ":" /\ "n" # ":" /\ "s" # "r"
  /\ "s" # "n" /\ "r" # "n" /\ BSL # ":" /\ BSL # "s" /\ BSL # "r" /\ BSL # "n" /\ BSL # "CR"
  /\ BSL # "LF" /\ "CR" # SPACE /\ "LF" # SPACE /\ "CR" # SEMICOLON /\ "LF" # SEMICOLON
  /\ "CR" # "LF" /\ BSL # "=" /\ {BSL, ":", "s", "r", "n"} \subseteq UnescapedChars
<1>1. {BSL, ":", "s", "r", "n"} \subseteq Chars
  BY DEF Chars
<1>2. /\ BSL # SPACE /\ BSL # SEMICOLON /\ ":" # SPACE /\ ":" # SEMICOLON /\ SPACE # SEMICOLON
      /\ "s" # SPACE /\ "s" # SEMICOLON /\ "r" # SPACE /\ "r" # SEMICOLON
      /\ "n" # SPACE /\ "n" # SEMICOLON
  BY Zenon DEF BSL, SPACE, SEMICOLON
<1>3. /\ "s" # ":" /\ "r" # ":" /\ "n" # ":" /\ "s" # "r"
      /\ "s" # "n" /\ "r" # "n" /\ BSL # ":" /\ BSL # "s" /\ BSL # "r" /\ BSL # "n"
  BY Zenon DEF BSL
<1>4. /\ BSL # "CR" /\ BSL # "LF" /\ "CR" # SPACE /\ "LF" # SPACE /\ "CR" # SEMICOLON
      /\ "LF" # SEMICOLON /\ "CR" # "LF" /\ BSL # "="
  BY Zenon DEF BSL, SPACE, SEMICOLON
<1>5. {BSL, ":", "s", "r", "n"} \subseteq UnescapedChars
  BY <1>1, <1>2 DEF UnescapedChars
<1> QED BY <1>2, <1>3, <1>4, <1>5

(* What stands for a character: itself, or a backslash and what undoes to it. *)
LEMMA EscapeIs ==
  ASSUME NEW c \in Chars
  PROVE  \/ c \in UnescapedChars /\ c # BSL /\ Escape(c) = <<c>>
         \/ \E d \in UnescapedChars : Unescaped(d) = c /\ Escape(c) = <<BSL, d>>
<1>1. CASE c = SEMICOLON
  <2>1. Escape(c) = <<BSL, ":">> /\ Unescaped(":") = c
    BY <1>1, Escapes DEF Escape, Unescaped
  <2> QED BY <2>1, Escapes
<1>2. CASE c = SPACE
  <2>1. Escape(c) = <<BSL, "s">> /\ Unescaped("s") = c
    BY <1>2, Escapes DEF Escape, Unescaped
  <2> QED BY <2>1, Escapes
<1>3. CASE c = BSL
  <2>1. Escape(c) = <<BSL, BSL>> /\ Unescaped(BSL) = c
    BY <1>3, Escapes DEF Escape, Unescaped
  <2> QED BY <2>1, Escapes
<1>4. CASE c = "CR"
  <2>1. Escape(c) = <<BSL, "r">> /\ Unescaped("r") = c
    BY <1>4, Escapes DEF Escape, Unescaped
  <2> QED BY <2>1, Escapes
<1>5. CASE c = "LF"
  <2>1. Escape(c) = <<BSL, "n">> /\ Unescaped("n") = c
    BY <1>5, Escapes DEF Escape, Unescaped
  <2> QED BY <2>1, Escapes
<1>6. CASE c \notin {SEMICOLON, SPACE, BSL, "CR", "LF"}
  <2>1. c \in UnescapedChars /\ c # BSL
    BY <1>6 DEF UnescapedChars
  <2>2. Escape(c) = <<c>>
    BY <1>6, Zenon DEF Escape
  <2> QED BY <2>1, <2>2
<1> QED BY <1>1, <1>2, <1>3, <1>4, <1>5, <1>6

LEMMA EscapeTyped ==
  ASSUME NEW c \in Chars
  PROVE  Escape(c) \in Seq(UnescapedChars)
<1>1. CASE c \in UnescapedChars /\ Escape(c) = <<c>>
  BY <1>1
<1>2. ASSUME NEW d \in UnescapedChars, Escape(c) = <<BSL, d>>
      PROVE  Escape(c) \in Seq(UnescapedChars)
  BY <1>2, Escapes
<1> QED BY <1>1, <1>2, EscapeIs

IsEscape(f, v, n) ==
  /\ f \in [0..n -> Seq(UnescapedChars)] /\ f[0] = <<>> /\ f[n] = Escaped(v)
  /\ \A k \in 1..n : f[k] = f[k - 1] \o Escape(v[k])

LEMMA EscapeFold ==
  ASSUME NEW v \in Lines, NEW n, n = Len(v)
  PROVE  \E f : IsEscape(f, v, n)
<1>0. n \in Nat /\ DOMAIN v = 1..n /\ \A k \in 1..n : v[k] \in Chars
  BY LenProperties, ElementOfSeq DEF Lines
<1> DEFINE Y == Seq(UnescapedChars)
           More(x, c) == x \o Escape(c)
           F == [p \in (1..n) \X Y |-> More(p[2], v[p[1]])]
           Next(it, t) == IF t = {} THEN <<>> ELSE More(it[t \ {Max(t)}], v[Max(t)])
           g == CHOOSE h : h = [t \in SUBSET (1..n) |-> Next(h, t)]
<1>01. \A x \in Y, c \in Chars : More(x, c) \in Y
  BY EscapeTyped, ConcatProperties
<1>3. Escaped(v) = g[1..n]
  BY <1>0 DEF Escaped, FoldLeft, MapThenFoldSet
<1>4. <<>> \in Y
  OBVIOUS
<1> HIDE DEF Y, More
<1>1. Steps(F, Y, n)
  BY <1>0, <1>01 DEF Steps
<1>2. \A k \in 1..n, x \in Y : F[<<k, x>>] = More(x, v[k])
  OBVIOUS
<1> HIDE DEF F
<1>5. PICK it : IsFold(it, Y, n, <<>>, F)
  BY <1>0, <1>1, <1>4, FoldExists
<1>6. it = [t \in SUBSET (1..n) |-> Next(it, t)]
  <2>1. ASSUME NEW t \in SUBSET (1..n), t # {}
        PROVE  it[t] = More(it[t \ {Max(t)}], v[Max(t)])
    <3>1. Max(t) \in 1..n /\ t \ {Max(t)} \in SUBSET (1..n)
      BY <1>0, <2>1, MaxIn
    <3>2. it[t \ {Max(t)}] \in Y /\ it[t] = F[<<Max(t), it[t \ {Max(t)}]>>]
      BY <1>5, <2>1, <3>1 DEF IsFold
    <3> QED BY <1>2, <3>1, <3>2
  <2>2. \A t \in SUBSET (1..n) : it[t] = Next(it, t)
    BY <1>5, <2>1 DEF IsFold
  <2>3. it = [t \in SUBSET (1..n) |-> it[t]]
    BY <1>5 DEF IsFold
  <2> QED BY <2>2, <2>3
<1>7. g = [t \in SUBSET (1..n) |-> Next(g, t)]
  BY <1>6
<1> HIDE DEF g
<1>8. Recurs(g, Y, n, <<>>, F)
  <2>1. ASSUME NEW t \in SUBSET (1..n), t # {}, g[t \ {Max(t)}] \in Y
        PROVE  g[t] = F[<<Max(t), g[t \ {Max(t)}]>>]
    <3>1. Max(t) \in 1..n
      BY <1>0, <2>1, MaxIn
    <3>2. g[t] = More(g[t \ {Max(t)}], v[Max(t)])
      BY <1>7, <2>1
    <3> QED BY <1>2, <2>1, <3>1, <3>2
  <2>2. g[{}] = <<>>
    BY <1>7
  <2> QED BY <2>1, <2>2 DEF Recurs
<1>9. PICK f : IsLeftFold(f, g, Y, n, <<>>, F)
  BY <1>0, <1>1, <1>4, <1>8, FoldValues
<1>10. f \in [0..n -> Y] /\ f[0] = <<>> /\ f[n] = Escaped(v)
  BY <1>3, <1>9 DEF IsLeftFold
<1>11. ASSUME NEW k \in 1..n PROVE f[k] = More(f[k - 1], v[k])
  <2>1. k - 1 \in 0..n
    BY <1>0
  <2>2. f[k - 1] \in Y /\ f[k] = F[<<k, f[k - 1]>>]
    BY <1>9, <1>10, <2>1 DEF IsLeftFold
  <2> QED BY <1>2, <2>2
<1>12. \A k \in 1..n : f[k] = f[k - 1] \o Escape(v[k])
  BY <1>11 DEF More
<1> QED BY <1>0, <1>10, <1>12 DEF IsEscape, Y

(* t holds the key and the part u of a value, and stands in the value. *)
Holds(t, key, u, esc) ==
  t \in TagStates /\ t.key = key /\ t.value = u /\ ~t.inKey /\ (t.esc <=> esc)

LEMMA StepPlain ==
  ASSUME NEW key, NEW u, NEW c \in Chars, c # BSL, NEW t, Holds(t, key, u, FALSE)
  PROVE  Holds(TagStep(t, c), key, Append(u, c), FALSE)
<1>1. t \in TagStates /\ t.key = key /\ t.value = u /\ ~t.inKey /\ ~t.esc
  BY DEF Holds
<1>2. PICK r : r = TagStep(t, c)
  OBVIOUS
<1>3. r = [t EXCEPT !.value = Append(@, c)]
  BY <1>1, <1>2, Zenon DEF TagStep
<1>4. r.key = t.key /\ r.value = Append(t.value, c) /\ r.inKey = t.inKey /\ r.esc = t.esc
  BY <1>1, <1>3 DEF TagStates
<1>5. r \in TagStates
  BY <1>1, <1>2, TagStepTyped
<1> QED BY <1>1, <1>2, <1>4, <1>5 DEF Holds

LEMMA StepBackslash ==
  ASSUME NEW key, NEW u, NEW t, Holds(t, key, u, FALSE)
  PROVE  Holds(TagStep(t, BSL), key, u, TRUE)
<1>1. t \in TagStates /\ t.key = key /\ t.value = u /\ ~t.inKey /\ ~t.esc
  BY DEF Holds
<1>2. PICK r : r = TagStep(t, BSL)
  OBVIOUS
<1>3. r = [t EXCEPT !.esc = TRUE]
  BY <1>1, <1>2, Zenon DEF TagStep
<1>4. r.key = t.key /\ r.value = t.value /\ r.inKey = t.inKey /\ r.esc
  BY <1>1, <1>3 DEF TagStates
<1>5. r \in TagStates
  BY <1>1, <1>2, Marks, TagStepTyped
<1> QED BY <1>1, <1>2, <1>4, <1>5 DEF Holds

LEMMA StepEscaped ==
  ASSUME NEW key, NEW u, NEW d \in Chars, NEW t, Holds(t, key, u, TRUE)
  PROVE  Holds(TagStep(t, d), key, Append(u, Unescaped(d)), FALSE)
<1>1. t \in TagStates /\ t.key = key /\ t.value = u /\ ~t.inKey /\ t.esc
  BY DEF Holds
<1>2. PICK r : r = TagStep(t, d)
  OBVIOUS
<1>3. PICK e : e = Unescaped(d)
  OBVIOUS
<1>4. r = [t EXCEPT !.value = Append(@, e), !.esc = FALSE]
  BY <1>1, <1>2, <1>3, Zenon DEF TagStep
<1>5. r.key = t.key /\ r.value = Append(t.value, e) /\ r.inKey = t.inKey /\ ~r.esc
  BY <1>1, <1>4 DEF TagStates
<1>6. r \in TagStates
  BY <1>1, <1>2, TagStepTyped
<1> QED BY <1>1, <1>2, <1>3, <1>5, <1>6 DEF Holds

(* s is read as the key and the part u of a value. *)
ReadSoFar(s, key, u) == s \in Lines /\ Holds(TagsRead(s), key, u, FALSE)

LEMMA ReadOne ==
  ASSUME NEW s, NEW key, NEW u, ReadSoFar(s, key, u), NEW c \in Chars, c # BSL
  PROVE  ReadSoFar(Append(s, c), key, Append(u, c))
<1>1. s \in Lines /\ Holds(TagsRead(s), key, u, FALSE)
  BY DEF ReadSoFar
<1>2. Append(s, c) \in Lines /\ TagsRead(Append(s, c)) = TagStep(TagsRead(s), c)
  BY <1>1, ReadAppend
<1>3. Holds(TagStep(TagsRead(s), c), key, Append(u, c), FALSE)
  BY <1>1, StepPlain
<1> QED BY <1>2, <1>3 DEF ReadSoFar

LEMMA ReadTwo ==
  ASSUME NEW s, NEW key, NEW u, ReadSoFar(s, key, u), NEW d \in Chars
  PROVE  ReadSoFar(Append(Append(s, BSL), d), key, Append(u, Unescaped(d)))
<1>1. s \in Lines /\ Holds(TagsRead(s), key, u, FALSE)
  BY DEF ReadSoFar
<1>2. PICK t : t = Append(s, BSL)
  OBVIOUS
<1>3. t \in Lines /\ TagsRead(t) = TagStep(TagsRead(s), BSL)
  BY <1>1, <1>2, Marks, ReadAppend
<1>4. Holds(TagsRead(t), key, u, TRUE)
  BY <1>1, <1>3, StepBackslash
<1>5. Append(t, d) \in Lines /\ TagsRead(Append(t, d)) = TagStep(TagsRead(t), d)
  BY <1>3, ReadAppend
<1>6. Holds(TagStep(TagsRead(t), d), key, Append(u, Unescaped(d)), FALSE)
  BY <1>4, StepEscaped
<1> QED BY <1>2, <1>5, <1>6 DEF ReadSoFar

(* What an escaped character adds is the character. *)
LEMMA ReadEscape ==
  ASSUME NEW s, NEW key, NEW u, ReadSoFar(s, key, u), NEW c \in Chars
  PROVE  ReadSoFar(s \o Escape(c), key, Append(u, c))
<1>1. s \in Lines /\ BSL \in Chars
  BY Marks DEF ReadSoFar
<1>2. CASE c # BSL /\ Escape(c) = <<c>>
  <2>1. Append(s, c) = s \o <<c>>
    BY <1>1, AppendIsConcat DEF Lines
  <2> QED BY <1>2, <2>1, ReadOne
<1>3. ASSUME NEW d \in UnescapedChars, Unescaped(d) = c, Escape(c) = <<BSL, d>>
      PROVE  ReadSoFar(s \o Escape(c), key, Append(u, c))
  <2>1. d \in Chars
    BY DEF UnescapedChars
  <2>2. PICK t \in Lines : t = s \o <<BSL>>
    BY <1>1, OneToken, Glued
  <2>3. t = Append(s, BSL)
    BY <1>1, <2>2, AppendIsConcat DEF Lines
  <2>4. PICK e \in Lines : e = <<d>>
    BY <2>1, OneToken
  <2>5. PICK b \in Lines : b = <<BSL>>
    BY <1>1, OneToken
  <2>6. PICK w \in Lines : w = b \o e
    BY Glued
  <2>7. w = <<BSL, d>>
    <3>1. <<BSL, d>> = b \o e
      BY <2>4, <2>5
    <3> QED BY <2>6, <3>1
  <2>8. t \o e = s \o w
    <3>1. t = s \o b
      BY <2>2, <2>5
    <3> QED BY <1>1, <2>6, <3>1, Slid
  <2>9. Append(t, d) = t \o <<d>>
    BY <2>1, <2>2, AppendIsConcat DEF Lines
  <2>10. Append(t, d) = s \o Escape(c)
    BY <1>3, <2>4, <2>7, <2>8, <2>9, Zenon
  <2>11. ReadSoFar(Append(t, d), key, Append(u, Unescaped(d)))
    BY <2>1, <2>3, ReadTwo
  <2> QED BY <1>3, <2>10, <2>11, Zenon
<1> QED BY <1>2, <1>3, EscapeIs

LEMMA ReadValue ==
  ASSUME NEW b, NEW key, ReadSoFar(b, key, <<>>), NEW v \in Lines
  PROVE  ReadSoFar(b \o Escaped(v), key, v)
<1>1. PICK n \in Nat : n = Len(v)
  BY LenProperties DEF Lines
<1>2. PICK f : IsEscape(f, v, n)
  BY <1>1, EscapeFold
<1>3. f \in [0..n -> Seq(UnescapedChars)] /\ f[0] = <<>> /\ f[n] = Escaped(v)
      /\ \A k \in 1..n : f[k] = f[k - 1] \o Escape(v[k])
  BY <1>2 DEF IsEscape
<1>4. b \in Lines
  BY DEF ReadSoFar
<1>5. Seq(UnescapedChars) \subseteq Lines
  BY DEF UnescapedChars, Lines
<1> DEFINE S == {k \in 0..n : ReadSoFar(b \o f[k], key, SubSeq(v, 1, k))}
<1>6. 0 \in S
  <2>1. SubSeq(v, 1, 0) = <<>>
    BY SubSeqEmpty
  <2>2. b \o f[0] = b
    BY <1>3, <1>4, EmptyLine
  <2>3. ReadSoFar(b \o f[0], key, SubSeq(v, 1, 0))
    BY <2>1, <2>2, Zenon
  <2> QED BY <1>1, <2>3
<1>7. ASSUME NEW k \in 0..n, k < n, k \in S PROVE k + 1 \in S
  <2>1. PICK j \in 1..n : j = k + 1
    BY <1>1, <1>7
  <2>2. j \in 1..Len(v) /\ v[j] \in Chars /\ j - 1 = k
    BY <1>1, <2>1, ElementOfSeq DEF Lines
  <2>3. PICK u : u = SubSeq(v, 1, k)
    OBVIOUS
  <2>4. SubSeq(v, 1, j) = Append(u, v[j])
    <3>1. 1 \in 1..Len(v) /\ j \in 1..Len(v) /\ v \in Seq(Chars)
      BY <1>1, <2>2 DEF Lines
    <3>2. SubSeq(v, 1, j) = SubSeq(v, 1, j - 1) \o <<v[j]>>
      BY <3>1, SubSeqRecursiveSecond
    <3>3. u \in Seq(Chars)
      <4>1. k \in 0..Len(v)
        BY <1>1
      <4>2. \A i \in 1..k : v[i] \in Chars
        BY <1>1, <3>1, ElementOfSeq
      <4> QED BY <2>3, <4>1, <4>2, SubSeqProperties
    <3>4. Append(u, v[j]) = u \o <<v[j]>>
      BY <2>2, <3>3, AppendIsConcat
    <3> QED BY <2>2, <2>3, <3>2, <3>4
  <2>5. PICK e \in Lines : e = Escape(v[j])
    BY <1>5, <2>2, EscapeTyped
  <2>6. PICK g \in Lines : g = f[k]
    BY <1>3, <1>5
  <2>7. PICK p \in Lines : p = b \o g
    BY <1>4, Glued
  <2>8. PICK h : h = g \o e
    OBVIOUS
  <2>9. p \o e = b \o h
    <3>1. e \in Lines /\ g \in Lines /\ p = b \o g
      BY <2>5, <2>6, <2>7
    <3> QED BY <1>4, <2>8, <3>1, Slid
  <2>10. f[j] = h
    BY <1>3, <2>2, <2>5, <2>6, <2>8
  <2>11. ReadSoFar(p, key, u)
    BY <1>7, <2>3, <2>6, <2>7
  <2>12. ReadSoFar(p \o e, key, Append(u, v[j]))
    BY <2>2, <2>5, <2>11, ReadEscape
  <2>13. ReadSoFar(b \o f[j], key, SubSeq(v, 1, j))
    BY <2>4, <2>9, <2>10, <2>12, Zenon
  <2>14. j \in S
    BY <2>13
  <2> QED BY <2>1, <2>14
<1> HIDE DEF S
<1>8. \A k \in 0..n : k \in S
  BY <1>6, <1>7, BoundedInduction
<1>9. n \in S
  BY <1>1, <1>8
<1>10. ReadSoFar(b \o f[n], key, SubSeq(v, 1, n))
  BY <1>9 DEF S
<1>11. SubSeq(v, 1, n) = v
  BY <1>1, SubSeqFull DEF Lines
<1> QED BY <1>3, <1>10, <1>11, Zenon

(* A key, with and without the equals sign behind it. *)
LEMMA ReadKey ==
  ASSUME NEW key \in Chars, key # "="
  PROVE  /\ <<key>> \in Lines /\ TagsRead(<<key>>) \in TagStates
         /\ TagsRead(<<key>>).key = <<key>> /\ TagsRead(<<key>>).value = <<>>
         /\ ReadSoFar(<<key>> \o <<"=">>, <<key>>, <<>>)
<1>1. TagStart \in TagStates /\ TagStart.key = <<>> /\ TagStart.value = <<>> /\ TagStart.inKey
  BY EmptyLine DEF TagStart, TagStates
<1>2. <<key>> \in Lines /\ <<>> \in Lines /\ "=" \in Chars
  BY Marks, OneToken, EmptyLine
<1>3. Append(<<>>, key) = <<key>>
  OBVIOUS
<1>4. PICK r : r = TagsRead(<<key>>)
  OBVIOUS
<1>5. r \in TagStates /\ r = TagStep(TagStart, key)
  <2>1. r \in TagStates
    BY <1>2, <1>4, Marks, ReadAppend
  <2>2. TagsRead(Append(<<>>, key)) = TagStep(TagsRead(<<>>), key)
    BY <1>2, ReadAppend
  <2> QED BY <1>3, <1>4, <2>1, <2>2, ReadNothing
<1>6. r.key = <<key>> /\ r.value = <<>> /\ r.inKey /\ ~r.esc
  <2>1. PICK t : t = TagStart
    OBVIOUS
  <2>2. r = [t EXCEPT !.key = Append(@, key)]
    BY <1>1, <1>5, <2>1, Zenon DEF TagStep
  <2>3. t.esc = FALSE
    BY <2>1 DEF TagStart
  <2>4. r.key = Append(t.key, key) /\ r.value = t.value /\ r.inKey = t.inKey /\ r.esc = t.esc
    BY <1>1, <2>1, <2>2 DEF TagStates
  <2> QED BY <1>1, <1>3, <2>1, <2>3, <2>4
<1>7. PICK s \in Lines : s = Append(<<key>>, "=")
  BY <1>2, ReadAppend
<1>8. PICK q : q = TagsRead(s)
  OBVIOUS
<1>9. q = TagStep(r, "=") /\ q \in TagStates
  <2>1. q = TagStep(r, "=")
    BY <1>2, <1>4, <1>7, <1>8, ReadAppend
  <2> QED BY <1>2, <1>5, <2>1, TagStepTyped
<1>10. q = [r EXCEPT !.inKey = FALSE]
  BY <1>6, <1>9, Zenon DEF TagStep
<1>11. q.key = r.key /\ q.value = r.value /\ ~q.inKey /\ q.esc = r.esc
  BY <1>5, <1>10 DEF TagStates
<1>12. Holds(q, <<key>>, <<>>, FALSE)
  BY <1>6, <1>9, <1>11 DEF Holds
<1>13. s = <<key>> \o <<"=">>
  BY <1>2, <1>7, AppendIsConcat DEF Lines
<1>14. ReadSoFar(s, <<key>>, <<>>)
  BY <1>8, <1>12 DEF ReadSoFar
<1> QED BY <1>2, <1>4, <1>5, <1>6, <1>13, <1>14, Zenon

(* What the client makes of a tag. *)
TagHeard(key, v) == [key |-> <<key>>, value |-> IF v = <<>> THEN NULL ELSE v]

LEMMA ParseTagIs ==
  ASSUME NEW s, NEW key, NEW v, TagsRead(s).key = <<key>>, TagsRead(s).value = v
  PROVE  ParseTag(s) = TagHeard(key, v)
BY Zenon DEF ParseTag, TagHeard, TagsRead

LEMMA TagRead ==
  ASSUME NEW key \in UnescapedChars, key # "=", NEW v \in Lines, NEW eq \in BOOLEAN,
         NEW t, t.key = key, t.value = v
  PROVE  TagText(t, eq) \in Seq(UnescapedChars) /\ ParseTag(TagText(t, eq)) = TagHeard(key, v)
<1>1. key \in Chars /\ "=" \in UnescapedChars /\ Seq(UnescapedChars) \subseteq Lines
  <2>1. "=" # SPACE /\ "=" # SEMICOLON
    BY Zenon DEF SPACE, SEMICOLON
  <2> QED BY <2>1, Marks DEF UnescapedChars, Lines
<1>2. CASE v = <<>> /\ ~eq
  <2>1. TagText(t, eq) = <<key>> \o <<>>
    BY <1>2 DEF TagText
  <2>2. TagText(t, eq) = <<key>>
    BY <1>1, <2>1, ReadKey, EmptyLine
  <2>3. <<key>> \in Seq(UnescapedChars)
    OBVIOUS
  <2>4. ParseTag(<<key>>) = TagHeard(key, v)
    BY <1>1, <1>2, ReadKey, ParseTagIs
  <2> QED BY <2>2, <2>3, <2>4
<1>3. CASE ~(v = <<>> /\ ~eq)
  <2>1. TagText(t, eq) = <<key>> \o (<<"=">> \o Escaped(v))
    BY <1>3 DEF TagText
  <2>2. PICK k : k = <<key>>
    OBVIOUS
  <2>3. PICK q : q = <<"=">>
    OBVIOUS
  <2>4. PICK x : x = Escaped(v)
    OBVIOUS
  <2>5. k \in Seq(UnescapedChars) /\ q \in Seq(UnescapedChars) /\ x \in Seq(UnescapedChars)
    <3>1. PICK n \in Nat : n = Len(v)
      BY LenProperties DEF Lines
    <3>2. PICK f : IsEscape(f, v, n)
      BY <3>1, EscapeFold
    <3>3. n \in 0..n
      BY <3>1
    <3> QED BY <1>1, <2>2, <2>3, <2>4, <3>2, <3>3 DEF IsEscape
  <2>6. PICK p : p = q \o x
    OBVIOUS
  <2>7. PICK b : b = k \o q
    OBVIOUS
  <2>8. k \in Lines /\ q \in Lines /\ x \in Lines
    BY <1>1, <2>5
  <2>9. b \o x = k \o p
    BY <2>6, <2>7, <2>8, Slid
  <2>10. TagText(t, eq) = k \o p
    BY <2>1, <2>2, <2>3, <2>4, <2>6, Zenon
  <2>11. ReadSoFar(b, <<key>>, <<>>)
    BY <1>1, <2>2, <2>3, <2>7, ReadKey
  <2>12. ReadSoFar(b \o x, <<key>>, v)
    BY <2>4, <2>11, ReadValue
  <2>13. ParseTag(TagText(t, eq)) = TagHeard(key, v)
    <3>1. TagsRead(b \o x).key = <<key>> /\ TagsRead(b \o x).value = v
      BY <2>12 DEF ReadSoFar, Holds
    <3>2. ParseTag(b \o x) = TagHeard(key, v)
      BY <3>1, ParseTagIs
    <3> QED BY <2>9, <2>10, <3>2, Zenon
  <2>14. k \o p \in Seq(UnescapedChars)
    <3>1. p \in Seq(UnescapedChars)
      BY <2>5, <2>6, ConcatProperties
    <3> QED BY <2>5, <3>1, ConcatProperties
  <2> QED BY <2>10, <2>13, <2>14
<1> QED BY <1>2, <1>3

-----------------------------------------------------------------------------
(* The tags between semicolons. *)
Below(T, c) == CHOOSE j \in T : Cardinality({n \in T : n < j}) = c
TagAt(s, T, k) ==
  ParseTag(SubSeq(s, IF k = 1 THEN 1 ELSE 1 + Below(T, k - 2), Below(T, k - 1) - 1))

Ends(s) == {i \in DOMAIN s : s[i] = SEMICOLON} \cup {Len(s) + 1}

LEMMA TagsAre ==
  ASSUME NEW s, NEW T, T = Ends(s)
  PROVE  TagsIn(s) = [k \in 1..Cardinality(T) |-> TagAt(s, T, k)]
<1> DEFINE E == Ends(s)
<1>1. TagsIn(s) = [k \in 1..Cardinality(E) |-> TagAt(s, E, k)]
  BY Zenon DEF TagsIn, TagAt, Below, Ends
<1> QED BY <1>1, Zenon

LEMMA RankedBelow ==
  ASSUME NEW T, NEW k \in Nat, NEW c, c = k - 1
  PROVE  Ranked(T, k) = Below(T, c)
BY DEF Ranked, Below

LEMMA OneTag ==
  ASSUME NEW s \in Seq(UnescapedChars)
  PROVE  TagsIn(s) = <<ParseTag(s)>>
<1>1. PICK n \in Nat : n = Len(s)
  BY LenProperties
<1>2. PICK T : T = Ends(s)
  OBVIOUS
<1>3. T = {n + 1}
  <2>1. \A i \in DOMAIN s : s[i] # SEMICOLON
    BY LenProperties, ElementOfSeq DEF UnescapedChars
  <2> QED BY <1>1, <1>2, <2>1 DEF Ends
<1> DEFINE a == [i \in 1..1 |-> n + 1]
<1>4. IsRanking(a, 1) /\ Places(T, a, 1) /\ a[1] = n + 1 /\ 1 \in 1..1
  BY <1>1, <1>3 DEF IsRanking, Places
<1> HIDE DEF a
<1>5. Cardinality(T) = 1 /\ Ranked(T, 1) = n + 1
  BY <1>4, RankIs
<1>6. Below(T, 0) = n + 1
  BY <1>5, RankedBelow
<1>7. TagsIn(s) = [k \in 1..1 |-> TagAt(s, T, k)]
  <2>1. TagsIn(s) = [k \in 1..Cardinality(T) |-> TagAt(s, T, k)]
    BY <1>2, TagsAre
  <2> QED BY <1>5, <2>1, Zenon
<1>8. TagAt(s, T, 1) = ParseTag(SubSeq(s, 1, n))
  <2>1. Below(T, 1 - 1) - 1 = n
    BY <1>1, <1>6
  <2>2. TagAt(s, T, 1) = ParseTag(SubSeq(s, 1, Below(T, 1 - 1) - 1))
    BY Zenon DEF TagAt
  <2> QED BY <2>1, <2>2, Zenon
<1>9. SubSeq(s, 1, n) = s
  BY <1>1, SubSeqFull
<1>10. PICK p : p = ParseTag(s)
  OBVIOUS
<1>11. TagAt(s, T, 1) = p
  BY <1>8, <1>9, <1>10, Zenon
<1>12. [k \in 1..1 |-> TagAt(s, T, k)] = <<p>>
  BY <1>11
<1> QED BY <1>7, <1>10, <1>12, Zenon

LEMMA TwoTags ==
  ASSUME NEW g \in Seq(UnescapedChars), NEW h \in Seq(UnescapedChars), NEW s, Joint(s, Chars, g, SEMICOLON, h)
  PROVE  TagsIn(s) = <<ParseTag(g), ParseTag(h)>>
<1>1. PICK n \in Nat : n = Len(g)
  BY LenProperties
<1>2. PICK m \in Nat : m = Len(h)
  BY LenProperties
<1>3. g \in Seq(Chars) /\ h \in Seq(Chars)
  BY DEF UnescapedChars
<1>4. PICK l \in Nat : l = n + 1 + m
  BY <1>1, <1>2
<1>5. /\ s \in Seq(Chars) /\ Len(s) = l /\ \A i \in 1..n : s[i] = g[i]
      /\ s[n + 1] = SEMICOLON /\ \A j \in 1..m : s[n + 1 + j] = h[j]
  <2>1. /\ Len(s) = Len(g) + 1 + Len(h) /\ \A i \in 1..Len(g) : s[i] = g[i]
        /\ s[Len(g) + 1] = SEMICOLON /\ \A j \in 1..Len(h) : s[Len(g) + 1 + j] = h[j]
    BY <1>3, JointIs
  <2>2. s \in Seq(Chars)
    BY DEF Joint
  <2> QED BY <1>1, <1>2, <1>4, <2>1, <2>2
<1>6. PICK T : T = Ends(s)
  OBVIOUS
<1>7. T = {n + 1, l + 1}
  <2>1. DOMAIN s = 1..l
    BY <1>5, LenProperties
  <2>2. \A i \in 1..n : s[i] # SEMICOLON
    BY <1>1, <1>5, LenProperties, ElementOfSeq DEF UnescapedChars
  <2>3. \A i \in n + 2..l : s[i] # SEMICOLON
    <3>1. TAKE i \in n + 2..l
    <3>2. PICK j \in 1..m : i = n + 1 + j
      <4>1. i - n - 1 \in 1..m /\ i = n + 1 + (i - n - 1)
        BY <1>1, <1>2, <1>4
      <4> QED BY <4>1
    <3>3. s[i] = h[j]
      BY <1>5, <3>2
    <3>4. h[j] # SEMICOLON
      BY <1>2, LenProperties, ElementOfSeq DEF UnescapedChars
    <3> QED BY <3>3, <3>4
  <2>4. n + 1 \in 1..l
    BY <1>1, <1>2, <1>4
  <2>5. \A i \in 1..l : s[i] = SEMICOLON => i = n + 1
    BY <1>1, <1>4, <2>2, <2>3
  <2>6. {i \in DOMAIN s : s[i] = SEMICOLON} = {n + 1}
    BY <1>5, <2>1, <2>4, <2>5
  <2> QED BY <1>5, <1>6, <2>6 DEF Ends
<1> DEFINE a == [i \in 1..2 |-> IF i = 1 THEN n + 1 ELSE l + 1]
<1>8. IsRanking(a, 2) /\ a[1] = n + 1 /\ a[2] = l + 1
  BY <1>1, <1>2, <1>4 DEF IsRanking
<1>9. Places(T, a, 2)
  <2>1. {a[i] : i \in 1..2} = {a[1], a[2]}
    <3>1. 1..2 = {1, 2}
      OBVIOUS
    <3> HIDE DEF a
    <3> QED BY <3>1
  <2> HIDE DEF a
  <2> QED BY <1>7, <1>8, <2>1 DEF Places
<1> HIDE DEF a
<1>10. Cardinality(T) = 2 /\ Ranked(T, 1) = n + 1 /\ Ranked(T, 2) = l + 1
  <2>1. 1 \in 1..2 /\ 2 \in 1..2
    OBVIOUS
  <2> QED BY <1>8, <1>9, <2>1, RankIs
<1>11. Below(T, 0) = n + 1 /\ Below(T, 1) = l + 1
  BY <1>10, RankedBelow
<1>12. TagsIn(s) = [k \in 1..2 |-> TagAt(s, T, k)]
  <2>1. TagsIn(s) = [k \in 1..Cardinality(T) |-> TagAt(s, T, k)]
    BY <1>6, TagsAre
  <2> QED BY <1>10, <2>1, Zenon
<1>13. PICK p : p = ParseTag(g)
  OBVIOUS
<1>14. PICK q : q = ParseTag(h)
  OBVIOUS
<1>15. SubSeq(s, 1, n) = g /\ SubSeq(s, n + 2, l) = h
  <2>1. SubSeq(s, 1, Len(g)) = g /\ From(s, Len(g) + 2) = h
    BY <1>3, Halves
  <2> QED BY <1>1, <1>5, <2>1, Zenon DEF From
<1>16. TagAt(s, T, 1) = p
  <2>1. Below(T, 1 - 1) - 1 = n
    BY <1>1, <1>11
  <2>2. TagAt(s, T, 1) = ParseTag(SubSeq(s, 1, Below(T, 1 - 1) - 1))
    BY Zenon DEF TagAt
  <2> QED BY <1>13, <1>15, <2>1, <2>2, Zenon
<1>17. TagAt(s, T, 2) = q
  <2>1. 1 + Below(T, 2 - 2) = n + 2 /\ Below(T, 2 - 1) - 1 = l
    BY <1>1, <1>4, <1>11
  <2>2. 2 # 1
    OBVIOUS
  <2>3. TagAt(s, T, 2) = ParseTag(SubSeq(s, 1 + Below(T, 2 - 2), Below(T, 2 - 1) - 1))
    BY <2>2, Zenon DEF TagAt
  <2> QED BY <1>14, <1>15, <2>1, <2>3, Zenon
<1>18. [k \in 1..2 |-> TagAt(s, T, k)] = <<p, q>>
  <2>1. \A k \in 1..2 : TagAt(s, T, k) = <<p, q>>[k]
    BY <1>16, <1>17
  <2> QED BY <2>1
<1> QED BY <1>12, <1>13, <1>14, <1>18, Zenon

-----------------------------------------------------------------------------
(* The text of tags and what is read of it. *)
TagsHeard(tags) == [i \in 1..Len(tags) |-> TagHeard(tags[i].key, tags[i].value)]

Laid(tags, laid) ==
  \E s \in Lines : /\ \A j \in 1..Len(s) : s[j] # SPACE
                   /\ laid = (<<"@">> \o s) \o <<SPACE>>
                   /\ TagsIn(s) = TagsHeard(tags)

TagKeys == {"time", "msgid"}

LEMMA KeysPlain == TagKeys \subseteq UnescapedChars /\ "=" \notin TagKeys
<1>1. TagKeys \subseteq Chars
  BY DEF Chars, TagKeys
<1>2. /\ "time" # SPACE /\ "time" # SEMICOLON /\ "msgid" # SPACE /\ "msgid" # SEMICOLON
      /\ "time" # "=" /\ "msgid" # "="
  BY Zenon DEF SPACE, SEMICOLON
<1> QED BY <1>1, <1>2 DEF TagKeys, UnescapedChars

Framed(x, s) == x = (<<"@">> \o s) \o <<SPACE>>
FramedPair(x, g, j) == x = <<"@">> \o g \o j \o <<SPACE>>

LEMMA LaidOut ==
  ASSUME NEW g \in Lines, NEW j \in Lines, NEW s \in Lines, IsPair(s, g, j),
         NEW x, FramedPair(x, g, j)
  PROVE  Framed(x, s)
<1> USE DEF IsPair, FramedPair, Framed
<1>1. PICK at \in Lines : at = <<"@">>
  BY Marks, OneToken
<1>2. PICK p : p = at \o g
  OBVIOUS
<1>3. p \o j = at \o s
  BY <1>1, <1>2, Slid
<1> QED BY <1>1, <1>2, <1>3, Zenon

LEMMA OneTagLaid ==
  ASSUME NEW v \in Lines, NEW eq \in BOOLEAN, NEW tags,
         tags = <<[key |-> "time", value |-> v]>>
  PROVE  Laid(tags, TagsText(tags, eq))
<1>1. Len(tags) = 1 /\ tags # <<>> /\ tags[1].key = "time" /\ tags[1].value = v
  OBVIOUS
<1>2. "time" \in UnescapedChars /\ "time" # "=" /\ Seq(UnescapedChars) \subseteq Lines
  BY KeysPlain DEF TagKeys, UnescapedChars, Lines
<1>3. PICK t : t = tags[1]
  OBVIOUS
<1>4. PICK g \in Seq(UnescapedChars) : g = TagText(t, eq)
  BY <1>1, <1>2, <1>3, TagRead
<1>5. ParseTag(g) = TagHeard("time", v)
  BY <1>1, <1>2, <1>3, <1>4, TagRead
<1>6. [i \in 1..Len(tags) - 1 |-> TagText(tags[i + 1], eq)] = <<>>
  BY <1>1
<1>7. JoinedBy(SEMICOLON, [i \in 1..Len(tags) - 1 |-> TagText(tags[i + 1], eq)]) = <<>>
  BY <1>6, Marks, JoinedFew
<1>8. FramedPair(TagsText(tags, eq), g, <<>>)
  BY <1>1, <1>3, <1>4, <1>7, Zenon DEF TagsText, FramedPair
<1>9. g \in Lines /\ <<>> \in Lines /\ IsPair(g, g, <<>>)
  BY <1>2, EmptyLine DEF IsPair
<1>10. Framed(TagsText(tags, eq), g)
  BY <1>8, <1>9, LaidOut
<1>11. \A j \in 1..Len(g) : g[j] # SPACE
  BY LenProperties, ElementOfSeq DEF UnescapedChars
<1>12. TagsIn(g) = <<TagHeard("time", v)>>
  BY <1>5, OneTag, Zenon
<1>13. TagsHeard(tags) = <<TagHeard("time", v)>>
  <2>1. PICK h : h = TagHeard("time", v)
    OBVIOUS
  <2>2. TagsHeard(tags) = [i \in 1..1 |-> TagHeard(tags[i].key, tags[i].value)]
    BY <1>1, Zenon DEF TagsHeard
  <2>3. TagHeard(tags[1].key, tags[1].value) = h
    BY <1>1, <2>1, Zenon
  <2>4. [i \in 1..1 |-> TagHeard(tags[i].key, tags[i].value)] = <<h>>
    BY <2>3
  <2> QED BY <2>1, <2>2, <2>4, Zenon
<1> QED BY <1>9, <1>10, <1>11, <1>12, <1>13, Zenon DEF Laid, Framed

LEMMA TwoTagsLaid ==
  ASSUME NEW v \in Lines, NEW w \in Lines, NEW eq \in BOOLEAN, NEW tags,
         tags = <<[key |-> "msgid", value |-> v], [key |-> "time", value |-> w]>>
  PROVE  Laid(tags, TagsText(tags, eq))
<1>1. /\ Len(tags) = 2 /\ tags # <<>> /\ tags[1].key = "msgid" /\ tags[1].value = v
      /\ tags[2].key = "time" /\ tags[2].value = w
  OBVIOUS
<1>2. /\ "time" \in UnescapedChars /\ "time" # "=" /\ "msgid" \in UnescapedChars /\ "msgid" # "="
      /\ Seq(UnescapedChars) \subseteq Lines
  BY KeysPlain DEF TagKeys, UnescapedChars, Lines
<1>3. PICK t : t = tags[1]
  OBVIOUS
<1>4. PICK u : u = tags[2]
  OBVIOUS
<1>5. PICK g \in Seq(UnescapedChars) : g = TagText(t, eq)
  BY <1>1, <1>2, <1>3, TagRead
<1>6. PICK h \in Seq(UnescapedChars) : h = TagText(u, eq)
  BY <1>1, <1>2, <1>4, TagRead
<1>7. ParseTag(g) = TagHeard("msgid", v)
  BY <1>1, <1>2, <1>3, <1>5, TagRead
<1>8. ParseTag(h) = TagHeard("time", w)
  BY <1>1, <1>2, <1>4, <1>6, TagRead
<1>9. g \in Lines /\ h \in Lines
  BY <1>2
<1>10. [i \in 1..Len(tags) - 1 |-> TagText(tags[i + 1], eq)] = <<h>>
  <2>1. Len(tags) - 1 = 1
    BY <1>1
  <2>2. TagText(tags[1 + 1], eq) = h
    BY <1>4, <1>6
  <2>3. [i \in 1..1 |-> TagText(tags[i + 1], eq)] = <<h>>
    BY <2>2
  <2> QED BY <2>1, <2>3, Zenon
<1>11. PICK j : j = <<SEMICOLON>> \o h
  OBVIOUS
<1>12. JoinedBy(SEMICOLON, [i \in 1..Len(tags) - 1 |-> TagText(tags[i + 1], eq)]) = j
  <2>1. JoinedBy(SEMICOLON, <<h>>) = <<SEMICOLON>> \o h
    BY <1>9, Marks, JoinedFew
  <2> QED BY <1>10, <1>11, <2>1, Zenon
<1>13. FramedPair(TagsText(tags, eq), g, j)
  BY <1>1, <1>3, <1>5, <1>12, Zenon DEF TagsText, FramedPair
<1>14. j \in Lines
  <2>1. <<SEMICOLON>> \in Lines
    BY Marks, OneToken
  <2> QED BY <1>9, <1>11, <2>1, Glued
<1>15. PICK s \in Lines : s = g \o j
  BY <1>9, <1>14, Glued
<1>16. Framed(TagsText(tags, eq), s)
  <2>1. IsPair(s, g, j)
    BY <1>15 DEF IsPair
  <2> QED BY <1>9, <1>13, <1>14, <2>1, LaidOut
<1>17. Joint(s, Chars, g, SEMICOLON, h)
  <2>1. SEMICOLON \in Chars
    BY Marks
  <2>2. Joint(g \o <<SEMICOLON>> \o h, Chars, g, SEMICOLON, h)
    BY <1>9, <2>1, JointLine
  <2>3. g \o (<<SEMICOLON>> \o h) = g \o <<SEMICOLON>> \o h
    BY <1>9, <2>1, JointLine
  <2>4. s = g \o <<SEMICOLON>> \o h
    BY <1>11, <1>15, <2>3, Zenon
  <2> QED BY <2>2, <2>4, Zenon
<1>18. TagsIn(s) = <<ParseTag(g), ParseTag(h)>>
  BY <1>17, TwoTags
<1>19. \A i \in 1..Len(s) : s[i] # SPACE
  <2>1. PICK n \in Nat : n = Len(g)
    BY LenProperties
  <2>2. PICK m \in Nat : m = Len(h)
    BY LenProperties
  <2>3. (\A i \in 1..n : g[i] # SPACE) /\ (\A i \in 1..m : h[i] # SPACE)
    BY <2>1, <2>2, LenProperties, ElementOfSeq DEF UnescapedChars
  <2>4. /\ Len(s) = n + 1 + m /\ \A i \in 1..n : s[i] = g[i]
        /\ s[n + 1] = SEMICOLON /\ \A i \in 1..m : s[n + 1 + i] = h[i]
    <3>1. g \in Seq(Chars) /\ h \in Seq(Chars)
      BY <1>9 DEF Lines
    <3>2. /\ Len(s) = Len(g) + 1 + Len(h) /\ \A i \in 1..Len(g) : s[i] = g[i]
          /\ s[Len(g) + 1] = SEMICOLON /\ \A i \in 1..Len(h) : s[Len(g) + 1 + i] = h[i]
      BY <1>17, <3>1, JointIs
    <3> QED BY <2>1, <2>2, <3>2
  <2>5. ASSUME NEW i \in n + 2..n + 1 + m PROVE s[i] # SPACE
    <3>1. PICK k \in 1..m : i = n + 1 + k
      <4>1. i - n - 1 \in 1..m /\ i = n + 1 + (i - n - 1)
        BY <2>1, <2>2
      <4> QED BY <4>1
    <3> QED BY <2>3, <2>4, <3>1
  <2>6. \A i \in 1..n + 1 + m : i \in 1..n \/ i = n + 1 \/ i \in n + 2..n + 1 + m
    BY <2>1, <2>2
  <2> QED BY <2>3, <2>4, <2>5, <2>6, Marks
<1>20. TagsHeard(tags) = <<ParseTag(g), ParseTag(h)>>
  <2>1. PICK p : p = TagHeard("msgid", v)
    OBVIOUS
  <2>2. PICK q : q = TagHeard("time", w)
    OBVIOUS
  <2>3. TagsHeard(tags) = [i \in 1..2 |-> TagHeard(tags[i].key, tags[i].value)]
    BY <1>1, Zenon DEF TagsHeard
  <2>4. TagHeard(tags[1].key, tags[1].value) = p /\ TagHeard(tags[2].key, tags[2].value) = q
    BY <1>1, <2>1, <2>2, Zenon
  <2>5. [i \in 1..2 |-> TagHeard(tags[i].key, tags[i].value)] = <<p, q>>
    <3>1. \A i \in 1..2 : TagHeard(tags[i].key, tags[i].value) = <<p, q>>[i]
      BY <2>4
    <3> QED BY <3>1
  <2> QED BY <1>7, <1>8, <2>1, <2>2, <2>3, <2>5, Zenon
<1> QED BY <1>16, <1>18, <1>19, <1>20, Zenon DEF Laid, Framed

LEMMA TagsLaid ==
  ASSUME NEW tags \in TagLists, NEW eq \in BOOLEAN
  PROVE  Laid(tags, TagsText(tags, eq)) /\ tags # <<>>
<1>1. TagValues \subseteq Lines
  BY TextsAreLines
<1>2. ASSUME NEW v \in TagValues, tags = <<[key |-> "time", value |-> v]>>
      PROVE  Laid(tags, TagsText(tags, eq)) /\ tags # <<>>
  <2>1. v \in Lines
    BY <1>1
  <2> QED BY <1>2, <2>1, OneTagLaid
<1>3. ASSUME NEW v \in TagValues, NEW w \in TagValues,
             tags = <<[key |-> "msgid", value |-> v], [key |-> "time", value |-> w]>>
      PROVE  Laid(tags, TagsText(tags, eq)) /\ tags # <<>>
  <2>1. v \in Lines /\ w \in Lines
    BY <1>1
  <2> QED BY <1>3, <2>1, TwoTagsLaid
<1> QED BY <1>2, <1>3 DEF TagLists

-----------------------------------------------------------------------------
(* The parts of a line. *)
JointParts(y, a, c, b) ==
  /\ Len(y) = Len(a) + 1 + Len(b) /\ \A i \in 1..Len(a) : y[i] = a[i]
  /\ y[Len(a) + 1] = c /\ \A j \in 1..Len(b) : y[Len(a) + 1 + j] = b[j]

LEMMA JointParted ==
  ASSUME NEW S, NEW y, NEW a \in Seq(S), NEW c, NEW b \in Seq(S), Joint(y, S, a, c, b)
  PROVE  JointParts(y, a, c, b)
BY JointIs DEF JointParts

LEMMA WordCut ==
  ASSUME NEW a \in Lines, NEW b, NEW s \in Lines, Joint(b, Chars, a, SPACE, s),
         Len(a) = 1, a[1] # SPACE
  PROVE  Token(b, SPACE) = a /\ Rest(b, SPACE) = s
<1>1. a # <<>> /\ \A j \in 1..Len(a) : a[j] # SPACE
  OBVIOUS
<1>2. a \in Seq(Chars) /\ s \in Seq(Chars) /\ SPACE \in Chars
  BY Marks DEF Lines
<1> QED BY <1>1, <1>2, TokenCut

(* strtok passes over a blank at the beginning. *)
LEMMA SkipBlank ==
  ASSUME NEW S, NEW c \in S, NEW y \in Seq(S), y # <<>>, y[1] # c
  PROVE  Skip(<<c>> \o y, c) = y /\ Skip(y, c) = y
<1>1. PICK s \in Seq(S) : s = <<c>> \o y
  <2>1. <<c>> \o y \in Seq(S)
    BY BehindColon
  <2> QED BY <2>1
<1>2. s[1] = c /\ Len(s) = Len(y) + 1 /\ From(s, 2) = y
  BY <1>1, BehindColon
<1>3. PICK n \in Nat : n = Len(y) /\ n > 0
  BY LenProperties, EmptySeq
<1>4. s[2] # c
  <2>1. 2 \in 1..Len(s) + 1 /\ 1 \in 1..Len(s) - 2 + 1 /\ 2 + 1 - 1 = 2
    BY <1>2, <1>3
  <2>2. From(s, 2)[1] = s[2]
    BY <2>1, FromIs
  <2> QED BY <1>2, <2>2
<1> DEFINE other == {i \in DOMAIN s : s[i] # c}
<1>5. DOMAIN s = 1..n + 1
  BY <1>2, <1>3, LenProperties
<1>6. 2 \in other /\ other \subseteq Int /\ \A j \in other : 2 <= j
  BY <1>2, <1>3, <1>4, <1>5
<1>7. Skip(s, c) = From(s, CHOOSE i \in other : \A j \in other : i <= j)
  BY <1>6 DEF Skip
<1> HIDE DEF other
<1>8. (CHOOSE i \in other : \A j \in other : i <= j) = 2
  BY <1>6, LeastIs
<1>9. Skip(y, c) = y
  BY SkipNothing
<1> QED BY <1>1, <1>2, <1>7, <1>8, <1>9

(* A command and the parameters r behind a blank, or none. *)
BodyText(b, cmd, r) ==
  /\ b \in Lines /\ r \in Lines
  /\ (b = <<cmd>> /\ r = <<>>) \/ b = Cat(Cat(<<cmd>>, <<SPACE>>), r)

BodyOf(b, cmd, r) ==
  /\ b \in Lines /\ b # <<>> /\ b[1] \in {cmd, SPACE}
  /\ Token(b, SPACE) = <<cmd>> /\ Rest(b, SPACE) = r

LEMMA BodyRead ==
  ASSUME NEW cmd \in Chars, cmd # SPACE, NEW r, NEW b, BodyText(b, cmd, r)
  PROVE  BodyOf(b, cmd, r) /\ b[1] = cmd
<1>1. PICK a \in Lines : a = <<cmd>>
  BY OneToken
<1>2. a # <<>> /\ Len(a) = 1 /\ a[1] = cmd /\ b \in Lines /\ r \in Lines
  BY <1>1 DEF BodyText
<1>3. CASE b = a /\ r = <<>>
  <2>1. a \in Seq(Chars) /\ \A j \in 1..Len(a) : a[j] # SPACE
    BY <1>2 DEF Lines
  <2>2. Token(a, SPACE) = a /\ Rest(a, SPACE) = <<>>
    BY <1>2, <2>1, TokenAlone
  <2> QED BY <1>1, <1>2, <1>3, <2>2 DEF BodyOf
<1>4. CASE b = Cat(Cat(a, <<SPACE>>), r)
  <2>1. Joint(b, Chars, a, SPACE, r) /\ b # <<>>
    BY <1>2, <1>4, Marks, CatSpaced
  <2>2. Token(b, SPACE) = a /\ Rest(b, SPACE) = r
    BY <1>2, <2>1, WordCut
  <2>3. b[1] = cmd
    <3>1. \A i \in 1..Len(a) : b[i] = a[i]
      BY <2>1 DEF Joint
    <3> QED BY <1>2, <3>1
  <2> QED BY <1>1, <1>2, <2>1, <2>2, <2>3 DEF BodyOf
<1> QED BY <1>1, <1>3, <1>4 DEF BodyText

LEMMA PaddedRead ==
  ASSUME NEW cmd \in Chars, cmd # SPACE, NEW r, NEW b, BodyText(b, cmd, r), NEW pad \in Pads
  PROVE  BodyOf(Cat(pad, b), cmd, r)
<1>1. BodyOf(b, cmd, r) /\ b[1] = cmd
  BY BodyRead
<1>2. b \in Lines /\ b # <<>> /\ b \in Seq(Chars) /\ SPACE \in Chars
  BY <1>1, Marks DEF BodyOf, Lines
<1>3. CASE pad = <<>>
  BY <1>1, <1>2, <1>3, CatRegrouped
<1>4. CASE pad = <<SPACE>>
  <2>1. PICK y : y = <<SPACE>> \o b
    OBVIOUS
  <2>2. y \in Seq(Chars) /\ y # <<>> /\ y[1] = SPACE
    BY <1>2, <2>1, BehindColon
  <2>3. Skip(y, SPACE) = b /\ Skip(b, SPACE) = b
    BY <1>1, <1>2, <2>1, SkipBlank
  <2>4. Token(y, SPACE) = Token(b, SPACE) /\ Rest(y, SPACE) = Rest(b, SPACE)
    BY <2>3, Zenon DEF Token, Rest
  <2>5. BodyOf(y, cmd, r)
    BY <1>1, <2>2, <2>4 DEF BodyOf, Lines
  <2> QED BY <1>4, <2>1, <2>5, Zenon DEF Cat
<1> QED BY <1>3, <1>4 DEF Pads

PrefixOf(x, source, b) ==
  x \in Lines /\ x[1] = ":" /\ Token(Tail(x), SPACE) = source /\ Rest(Tail(x), SPACE) = b

LEMMA PrefixRead ==
  ASSUME NEW source \in Lines, source # <<>>, \A j \in 1..Len(source) : source[j] # SPACE,
         NEW b \in Lines, NEW x, x = (<<":">> \o source \o <<SPACE>>) \o b
  PROVE  PrefixOf(x, source, b)
<1>1. SPACE \in Chars /\ ":" \in Chars
  BY Marks
<1>2. PICK co \in Lines : co = <<":">>
  BY <1>1, OneToken
<1>3. PICK sp \in Lines : sp = <<SPACE>>
  BY <1>1, OneToken
<1>4. PICK p \in Lines : IsPair(p, co, source)
  BY PairTyped
<1>5. PICK q \in Lines : IsPair(q, p, sp)
  BY <1>4, PairTyped
<1>6. PICK u \in Lines : IsPair(u, sp, b)
  BY PairTyped
<1>7. PICK w \in Lines : IsPair(w, source, u)
  BY <1>6, PairTyped
<1>8. IsPair(x, q, b)
  BY <1>2, <1>3, <1>4, <1>5, Zenon DEF IsPair
<1>9. IsPair(x, p, u)
  BY <1>4, <1>5, <1>6, <1>8, PairSlid
<1>10. x = <<":">> \o w
  <2>1. IsPair(x, co, w)
    BY <1>4, <1>7, <1>9, PairSlid
  <2> QED BY <1>2, <2>1, Zenon DEF IsPair
<1>11. x \in Lines /\ x[1] = ":" /\ Tail(x) = w
  <2>1. w \in Seq(Chars)
    BY <1>7 DEF Lines
  <2>2. <<":">> \o w \in Seq(Chars) /\ (<<":">> \o w)[1] = ":" /\ Tail(<<":">> \o w) = w
    BY <1>1, <2>1, BehindColon
  <2> QED BY <1>10, <2>2, Zenon DEF Lines
<1>12. Joint(w, Chars, source, SPACE, b)
  BY <1>1, <1>3, <1>6, <1>7, PairJoint
<1>13. source \in Seq(Chars) /\ b \in Seq(Chars)
  BY DEF Lines
<1>14. Token(w, SPACE) = source /\ Rest(w, SPACE) = b
  BY <1>1, <1>12, <1>13, TokenCut
<1> QED BY <1>11, <1>14 DEF PrefixOf

TaggedBy(l, s, x) ==
  /\ l \in Lines /\ l[1] = "@" /\ From(l, FirstOf(l, {SPACE}) + 1) = x
  /\ SubSeq(l, 2, FirstOf(l, {SPACE}) - 1) = s

LEMMA TaggedRead ==
  ASSUME NEW s \in Lines, \A j \in 1..Len(s) : s[j] # SPACE, NEW t, Framed(t, s),
         NEW x \in Lines, NEW l, l = t \o x
  PROVE  TaggedBy(l, s, x)
<1>1. SPACE \in Chars /\ "@" \in Chars /\ SPACE # "@"
  BY Marks
<1>2. PICK a \in Lines : a = <<"@">> \o s
  BY <1>1, OneToken, Glued
<1>3. PICK n \in Nat : n = Len(s)
  BY LenProperties DEF Lines
<1>4. s \in Seq(Chars) /\ a \in Seq(Chars) /\ x \in Seq(Chars)
  BY <1>2 DEF Lines
<1>5. a # <<>> /\ a[1] = "@" /\ Len(a) = n + 1 /\ From(a, 2) = s
  BY <1>1, <1>2, <1>3, <1>4, BehindColon
<1>6. \A j \in 1..n : a[j + 1] = s[j]
  <2>1. 2 \in 1..Len(a) + 1
    BY <1>3, <1>5
  <2>2. \A j \in 1..Len(a) - 2 + 1 : From(a, 2)[j] = a[2 + j - 1]
    BY <1>4, <2>1, FromIs
  <2>3. TAKE j \in 1..n
  <2>4. j \in 1..Len(a) - 2 + 1 /\ 2 + j - 1 = j + 1
    BY <1>3, <1>5
  <2> QED BY <1>5, <2>2, <2>4
<1>7. \A j \in 1..n + 1 : a[j] # SPACE
  <2>1. TAKE j \in 1..n + 1
  <2>2. CASE j = 1
    BY <1>1, <1>5, <2>2
  <2>3. CASE j # 1
    <3>1. PICK i \in 1..n : j = i + 1
      <4>1. j - 1 \in 1..n /\ j = (j - 1) + 1
        BY <1>3, <2>3
      <4> QED BY <4>1
    <3> QED BY <1>3, <1>6, <3>1
  <2> QED BY <2>2, <2>3
<1>8. Joint(l, Chars, a, SPACE, x)
  <2>1. Joint(a \o <<SPACE>> \o x, Chars, a, SPACE, x)
    BY <1>1, JointLine
  <2>2. l = a \o <<SPACE>> \o x
    BY <1>2, Zenon DEF Framed
  <2> QED BY <2>1, <2>2, Zenon
<1>9. PICK m \in Nat : m = Len(x)
  BY <1>4, LenProperties
<1>10. /\ l \in Seq(Chars) /\ Len(l) = n + 2 + m /\ \A i \in 1..n + 1 : l[i] = a[i]
       /\ l[n + 2] = SPACE
  <2>1. Len(l) = Len(a) + 1 + Len(x) /\ (\A i \in 1..Len(a) : l[i] = a[i]) /\ l[Len(a) + 1] = SPACE
    <3>1. JointParts(l, a, SPACE, x)
      BY <1>4, <1>8, JointParted
    <3> QED BY <3>1 DEF JointParts
  <2>2. l \in Seq(Chars)
    BY <1>8 DEF Joint
  <2>3. Len(a) + 1 = n + 2
    BY <1>3, <1>5
  <2> QED BY <1>3, <1>5, <1>9, <2>1, <2>2, <2>3
<1>11. FirstOf(l, {SPACE}) = n + 2
  <2>1. n + 2 \in 1..Len(l)
    BY <1>3, <1>9, <1>10
  <2>2. l[n + 2] \in {SPACE}
    BY <1>10
  <2>3. \A j \in 1..n + 1 : l[j] \notin {SPACE}
    BY <1>7, <1>10
  <2>4. PICK k \in 1..Len(l) : k = n + 2
    BY <2>1
  <2>5. k - 1 = n + 1
    BY <1>3, <2>4
  <2>6. l[k] \in {SPACE} /\ \A j \in 1..k - 1 : l[j] \notin {SPACE}
    BY <2>2, <2>3, <2>4, <2>5
  <2> QED BY <1>10, <2>4, <2>6, FirstOfIs
<1>12. From(l, n + 3) = x
  <2>1. From(l, Len(a) + 2) = x
    BY <1>4, <1>8, Halves
  <2>2. Len(a) + 2 = n + 3
    BY <1>3, <1>5
  <2> QED BY <2>1, <2>2
<1>13. SubSeq(l, 2, n + 1) = s
  <2>1. 2 \in 1..Len(l) + 1 /\ n + 1 \in 0..Len(l) /\ 2 <= (n + 1) + 1
    BY <1>3, <1>9, <1>10
  <2>2. PICK h : h = SubSeq(l, 2, n + 1)
    OBVIOUS
  <2>3. /\ h \in Seq(Chars) /\ Len(h) = (n + 1) - 2 + 1
        /\ \A j \in 1..(n + 1) - 2 + 1 : h[j] = l[2 + j - 1]
    BY <1>10, <2>1, <2>2, SubSeqIs
  <2>4. Len(h) = n /\ \A j \in 1..n : h[j] = s[j]
    <3>1. (n + 1) - 2 + 1 = n
      BY <1>3
    <3>2. ASSUME NEW j \in 1..n PROVE h[j] = s[j]
      <4>1. h[j] = l[2 + j - 1] /\ 2 + j - 1 = j + 1 /\ j + 1 \in 1..n + 1
        <5>1. j \in 1..(n + 1) - 2 + 1 /\ 2 + j - 1 = j + 1 /\ j + 1 \in 1..n + 1
          BY <1>3
        <5> QED BY <2>3, <5>1
      <4> QED BY <1>6, <1>10, <4>1
    <3> QED BY <2>3, <3>1, <3>2
  <2>5. h = s
    BY <1>3, <1>4, <2>3, <2>4, SeqEqual
  <2> QED BY <2>2, <2>5
<1>14. l[1] = "@"
  <2>1. 1 \in 1..n + 1
    BY <1>3
  <2> QED BY <1>5, <1>10, <2>1
<1>15. FirstOf(l, {SPACE}) + 1 = n + 3 /\ FirstOf(l, {SPACE}) - 1 = n + 1
  BY <1>3, <1>11
<1> QED BY <1>10, <1>12, <1>13, <1>14, <1>15 DEF TaggedBy, Lines

-----------------------------------------------------------------------------
(* What a message is made of. *)
CommandWords == Numerics \cup Named \cup Talk \cup {"PING", "MODE"}

LEMMA CommandsAreWords ==
  /\ CommandWords \subseteq Chars
  /\ \A c \in CommandWords : c # SPACE /\ c # ":" /\ c # "@"
<1>1. CommandWords \subseteq Chars
  BY DEF CommandWords, Chars
<1>2. SPACE \notin CommandWords /\ ":" \notin CommandWords /\ "@" \notin CommandWords
  BY ZenonT(60) DEF SPACE, CommandWords, Numerics, Named, Talk
<1> QED BY <1>1, <1>2, Zenon

LEMMA Tokens1 ==
  /\ {"irc.server", "nick", "!", "user", "@", "host", "#chan", "a", "w", ":", SPACE} \subseteq Chars
  /\ "irc.server" # SPACE /\ "nick" # SPACE /\ "user" # SPACE /\ "host" # SPACE /\ "!" # SPACE
  /\ "@" # SPACE /\ "#chan" # SPACE /\ "a" # SPACE /\ ":" # SPACE
  /\ "#chan" # ":" /\ "nick" # ":" /\ "a" # ":" /\ "irc.server" # "!" /\ "nick" # "!"
  /\ "user" # "@" /\ "w" # SOH
<1>1. {"irc.server", "nick", "!", "user", "@", "host", "#chan", "a", "w", ":", SPACE} \subseteq Chars
  BY DEF Chars
<1>2. /\ "irc.server" # SPACE /\ "nick" # SPACE /\ "user" # SPACE /\ "host" # SPACE /\ "!" # SPACE
      /\ "@" # SPACE /\ "#chan" # SPACE /\ "a" # SPACE /\ ":" # SPACE
  BY Zenon DEF SPACE
<1>3. /\ "#chan" # ":" /\ "nick" # ":" /\ "a" # ":" /\ "irc.server" # "!" /\ "nick" # "!"
      /\ "user" # "@" /\ "w" # SOH
  BY Zenon DEF SOH
<1> QED BY <1>1, <1>2, <1>3

(* The nick that the client takes from a source. *)
NickHeard(source) == IF Len(source) > 1 THEN <<source[1]>> ELSE NULL

LEMMA SourceRead ==
  ASSUME NEW source \in Sources
  PROVE  /\ source \in Lines /\ \A j \in 1..Len(source) : source[j] # SPACE
         /\ NickOf(source) = NickHeard(source)
<1>1. CASE source = <<>>
  <2>1. Token(source, "!") = NULL
    BY <1>1, TokenNone
  <2>2. NickOf(source) = NULL
    BY <2>1, Zenon DEF NickOf
  <2>3. source \in Lines /\ Len(source) = 0
    BY <1>1 DEF Lines
  <2> QED BY <2>2, <2>3 DEF NickHeard
<1>2. CASE source = <<"irc.server">>
  <2>1. source \in Lines /\ Len(source) = 1 /\ source[1] = "irc.server" /\ source # <<>>
    BY <1>2, Tokens1 DEF Lines
  <2>2. Rest(source, "!") = <<>>
    <3>1. source \in Seq(Chars) /\ source # <<>> /\ \A j \in 1..Len(source) : source[j] # "!"
      BY <2>1, Tokens1 DEF Lines
    <3> QED BY <3>1, TokenAlone
  <2>3. Token(Rest(source, "!"), "@") = NULL
    BY <2>2, TokenNone
  <2>4. NickOf(source) = NULL
    BY <2>3, Zenon DEF NickOf
  <2> QED BY <2>1, <2>4, Tokens1 DEF NickHeard
<1>3. CASE source = <<"nick", "!", "user", "@", "host">>
  <2>1. /\ source \in Lines /\ Len(source) = 5 /\ source[1] = "nick"
        /\ \A j \in 1..Len(source) : source[j] # SPACE
    <3>1. source \in Seq(Chars)
      BY <1>3, Tokens1
    <3>2. /\ Len(source) = 5 /\ source[1] = "nick" /\ source[2] = "!" /\ source[3] = "user"
          /\ source[4] = "@" /\ source[5] = "host"
      BY <1>3
    <3>3. \A j \in 1..5 : j = 1 \/ j = 2 \/ j = 3 \/ j = 4 \/ j = 5
      OBVIOUS
    <3> QED BY <3>1, <3>2, <3>3, Tokens1 DEF Lines
  <2>2. PICK a : a = <<"nick">>
    OBVIOUS
  <2>3. PICK b : b = <<"user", "@", "host">>
    OBVIOUS
  <2>4. PICK c : c = <<"user">>
    OBVIOUS
  <2>5. PICK d : d = <<"host">>
    OBVIOUS
  <2>6. a \in Seq(Chars) /\ b \in Seq(Chars) /\ c \in Seq(Chars) /\ d \in Seq(Chars)
    BY <2>2, <2>3, <2>4, <2>5, Tokens1
  <2>7. Joint(source, Chars, a, "!", b)
    <3>1. Len(a) = 1 /\ Len(b) = 3 /\ a[1] = "nick" /\ b[1] = "user" /\ b[2] = "@" /\ b[3] = "host"
      BY <2>2, <2>3
    <3>2. source[2] = "!" /\ source[3] = "user" /\ source[4] = "@" /\ source[5] = "host"
      BY <1>3
    <3>3. \A i \in 1..5 : i = 1 \/ i = 2 \/ i = 3 \/ i = 4 \/ i = 5
      OBVIOUS
    <3> QED BY <2>1, <3>1, <3>2, <3>3 DEF Joint, Lines
  <2>8. Joint(b, Chars, c, "@", d)
    <3>1. Len(c) = 1 /\ Len(d) = 1 /\ c[1] = "user" /\ d[1] = "host"
      BY <2>4, <2>5
    <3>2. Len(b) = 3 /\ b[1] = "user" /\ b[2] = "@" /\ b[3] = "host"
      BY <2>3
    <3>3. \A i \in 1..3 : i = 1 \/ i = 2 \/ i = 3
      OBVIOUS
    <3> QED BY <2>6, <3>1, <3>2, <3>3 DEF Joint
  <2>9. Token(source, "!") = a /\ Rest(source, "!") = b
    <3>1. a # <<>> /\ "!" \in Chars /\ \A j \in 1..Len(a) : a[j] # "!"
      BY <2>2, Tokens1
    <3> QED BY <2>6, <2>7, <3>1, TokenCut
  <2>10. Token(b, "@") = c /\ Rest(b, "@") = d
    <3>1. c # <<>> /\ "@" \in Chars /\ \A j \in 1..Len(c) : c[j] # "@"
      BY <2>4, Tokens1
    <3> QED BY <2>6, <2>8, <3>1, TokenCut
  <2>11. a # NULL /\ c # NULL /\ d # <<>>
    BY <2>5, <2>6, NullIsNoValue DEF Lines
  <2>12. NickOf(source) = a
    BY <2>9, <2>10, <2>11, Zenon DEF NickOf
  <2>13. NickHeard(source) = a
    BY <2>1, <2>2 DEF NickHeard
  <2> QED BY <2>1, <2>12, <2>13
<1>4. source = <<>> \/ source = <<"irc.server">> \/ source = UserSource
  BY Zenon DEF Sources
<1> QED BY <1>1, <1>2, <1>3, <1>4, Zenon DEF UserSource

CtcpNamed(x) == IsCtcp(x) => Len(x) > 2 /\ x[2] # SPACE /\ (Len(x) > 3 => x[3] = SPACE)

(* A message without parameters. *)
Parameterless(m) ==
  /\ m.tags = <<>> /\ m.source \in Sources /\ m.cmd \in CommandWords \ Talk
  /\ m.middles = <<>> /\ m.last = NULL

(* A message with parameters. *)
Grammatical(m) ==
  /\ m.tags = <<>> \/ m.tags \in TagLists
  /\ m.source \in Sources /\ m.cmd \in CommandWords
  /\ m.middles \in Seq(Lines) /\ Len(m.middles) <= 2 /\ \A i \in 1..Len(m.middles) : IsWord(m.middles[i])
  /\ (m.cmd \in Talk \cup {"MODE"} \/ m.tags # <<>> => Len(m.middles) = 1)
  /\ m.last \in Lines /\ CtcpNamed(m.last)

LEMMA TargetsAre ==
  ASSUME NEW t \in Targets
  PROVE  <<t>> \in Seq(Lines) /\ Len(<<t>>) = 1 /\ \A i \in 1..Len(<<t>>) : IsWord(<<t>>[i])
<1>1. t \in Lines
  <2>1. "#chan" \in Chars /\ "nick" \in Chars
    BY Tokens1
  <2>2. <<"#chan">> \in Lines /\ <<"nick">> \in Lines
    BY <2>1, OneToken
  <2> QED BY <2>2 DEF Targets
<1>2. t # <<>> /\ Len(t) = 1 /\ t[1] # ":" /\ \A i \in DOMAIN t : t[i] # SPACE
  <2>1. CASE t = <<"#chan">>
    BY <2>1, Tokens1
  <2>2. CASE t = <<"nick">>
    BY <2>2, Tokens1
  <2> QED BY <2>1, <2>2 DEF Targets
<1>3. IsWord(t)
  BY <1>2 DEF IsWord
<1> QED BY <1>1, <1>3

LEMMA TextIs ==
  ASSUME NEW x \in Texts \cup {<<"w", SPACE, ":", "w">>, <<"@">>}
  PROVE  x \in Lines /\ CtcpNamed(x)
<1>1. CASE x \in Texts
  <2>1. x \in Lines
    BY <1>1, TextsAreLines
  <2>2. CtcpNamed(x)
    BY <1>1, CtcpNamesCommand DEF CtcpNamed
  <2> QED BY <2>1, <2>2
<1>2. CASE x = <<"w", SPACE, ":", "w">>
  <2>1. x \in Lines
    BY <1>2, Tokens1 DEF Lines
  <2>2. x[1] = "w"
    BY <1>2
  <2>3. ~IsCtcp(x)
    BY <2>2, Tokens1 DEF IsCtcp
  <2> QED BY <2>1, <2>3 DEF CtcpNamed
<1>3. CASE x = <<"@">>
  <2>1. x \in Lines /\ Len(x) = 1
    BY <1>3, Tokens1 DEF Lines
  <2>2. ~IsCtcp(x)
    BY <2>1 DEF IsCtcp
  <2> QED BY <2>1, <2>2 DEF CtcpNamed
<1> QED BY <1>1, <1>2, <1>3

LEMMA FewMiddles ==
  ASSUME NEW ms \in {<<>>, <<<<"nick">>, <<"a", ":">>>>}
  PROVE  ms \in Seq(Lines) /\ Len(ms) <= 2 /\ \A i \in 1..Len(ms) : IsWord(ms[i])
<1>1. CASE ms = <<>>
  BY <1>1
<1>2. CASE ms = <<<<"nick">>, <<"a", ":">>>>
  <2>1. PICK p : p = <<"nick">>
    OBVIOUS
  <2>2. PICK q : q = <<"a", ":">>
    OBVIOUS
  <2>3. p \in Lines /\ q \in Lines
    BY <2>1, <2>2, Tokens1 DEF Lines
  <2>4. IsWord(p)
    BY <2>1, Tokens1 DEF IsWord
  <2>5. IsWord(q)
    BY <2>2, Tokens1 DEF IsWord
  <2>6. ms = <<p, q>>
    BY <1>2, <2>1, <2>2
  <2> QED BY <2>3, <2>4, <2>5, <2>6
<1> QED BY <1>1, <1>2

LEMMA TalkParts ==
  ASSUME NEW m \in TalkMessages
  PROVE  \E s \in Sources : \E c \in Talk : \E t \in Targets : \E x \in Texts :
           m = Message(NoTags, s, c, <<t>>, x)
BY DEF TalkMessages

(* Every message that a peer writes is one of the grammar. *)
LEMMA MessageIs ==
  ASSUME NEW m \in Messages
  PROVE  Grammatical(m) \/ Parameterless(m)
<1>1. /\ Numerics \cup Named \cup {"PING"} \subseteq CommandWords /\ Talk \subseteq CommandWords
      /\ "MODE" \in CommandWords /\ "PRIVMSG" \in CommandWords
  BY DEF CommandWords, Talk
<1>2. <<"irc.server">> \in Sources
  BY DEF Sources
<1>3. ASSUME NEW s \in Sources, NEW c \in Talk, NEW t \in Targets, NEW x \in Texts,
             m = Message(NoTags, s, c, <<t>>, x)
      PROVE  Grammatical(m)
  <2>1. PICK ms : ms = <<t>>
    OBVIOUS
  <2>2. m.tags = <<>> /\ m.source = s /\ m.cmd = c /\ m.middles = ms /\ m.last = x
    BY <1>3, <2>1 DEF Message, NoTags
  <2>3. ms \in Seq(Lines) /\ Len(ms) = 1 /\ \A i \in 1..Len(ms) : IsWord(ms[i])
    BY <2>1, TargetsAre
  <2>4. x \in Lines /\ CtcpNamed(x)
    BY TextIs
  <2> QED BY <1>1, <2>2, <2>3, <2>4 DEF Grammatical
<1>4. ASSUME NEW s \in Sources, NEW c \in Numerics \cup Named \cup {"PING"},
             NEW ms \in {<<>>, <<<<"nick">>, <<"a", ":">>>>}, NEW x \in {y \in Texts : Len(y) < 3},
             m = Message(NoTags, s, c, ms, x)
      PROVE  Grammatical(m)
  <2>2. m.tags = <<>> /\ m.source = s /\ m.cmd = c /\ m.middles = ms /\ m.last = x
    BY <1>4 DEF Message, NoTags
  <2>3. ms \in Seq(Lines) /\ Len(ms) <= 2 /\ \A i \in 1..Len(ms) : IsWord(ms[i])
    BY FewMiddles
  <2>4. x \in Lines /\ CtcpNamed(x)
    BY TextIs
  <2>5. c \notin Talk \cup {"MODE"}
    BY ZenonT(60) DEF Numerics, Named, Talk
  <2> QED BY <1>1, <2>2, <2>3, <2>4, <2>5 DEF Grammatical
<1>5. ASSUME NEW t \in Targets, NEW x \in Texts,
             m = Message(NoTags, <<"irc.server">>, "MODE", <<t>>, x)
      PROVE  Grammatical(m)
  <2>1. PICK ms : ms = <<t>>
    OBVIOUS
  <2>2. PICK s \in Sources : s = <<"irc.server">>
    BY <1>2
  <2>3. m.tags = <<>> /\ m.source = s /\ m.cmd = "MODE" /\ m.middles = ms /\ m.last = x
    BY <1>5, <2>1, <2>2 DEF Message, NoTags
  <2>4. ms \in Seq(Lines) /\ Len(ms) = 1 /\ \A i \in 1..Len(ms) : IsWord(ms[i])
    BY <2>1, TargetsAre
  <2>5. x \in Lines /\ CtcpNamed(x)
    BY TextIs
  <2> QED BY <1>1, <2>3, <2>4, <2>5 DEF Grammatical
<1>6. ASSUME NEW g \in TagLists, NEW t \in Targets, NEW x \in {<<"w", SPACE, ":", "w">>, <<"@">>},
             NEW s \in Sources, m = Message(g, s, "PRIVMSG", <<t>>, x)
      PROVE  Grammatical(m)
  <2>1. PICK ms : ms = <<t>>
    OBVIOUS
  <2>3. m.tags = g /\ m.source = s /\ m.cmd = "PRIVMSG" /\ m.middles = ms /\ m.last = x
    BY <1>6, <2>1 DEF Message
  <2>4. ms \in Seq(Lines) /\ Len(ms) = 1 /\ \A i \in 1..Len(ms) : IsWord(ms[i])
    BY <2>1, TargetsAre
  <2>5. x \in Lines /\ CtcpNamed(x)
    BY TextIs
  <2> QED BY <1>1, <2>3, <2>4, <2>5 DEF Grammatical
<1>7. CASE m \in TalkMessages
  <2>1. \E s \in Sources : \E c \in Talk : \E t \in Targets : \E x \in Texts :
          m = Message(NoTags, s, c, <<t>>, x)
    BY <1>7, TalkParts
  <2> QED BY <1>3, <2>1
<1>8. CASE m \in CommandMessages
  <2>1. PICK s \in Sources, c \in Numerics \cup Named \cup {"PING"},
            ms \in {<<>>, <<<<"nick">>, <<"a", ":">>>>}, x \in {y \in Texts : Len(y) < 3} :
          m = Message(NoTags, s, c, ms, x)
    BY <1>8 DEF CommandMessages
  <2> QED BY <1>4, <2>1
<1>9. CASE m \in ModeMessages
  <2>1. PICK t \in Targets, x \in Texts :
          m = Message(NoTags, <<"irc.server">>, "MODE", <<t>>, x)
    BY <1>9 DEF ModeMessages
  <2> QED BY <1>5, <2>1
<1>10. CASE m \in TaggedMessages
  <2>1. PICK g \in TagLists, s \in Sources \ {UserSource}, t \in Targets,
             x \in {<<"w", SPACE, ":", "w">>, <<"@">>} :
          m = Message(g, s, "PRIVMSG", <<t>>, x)
    BY <1>10 DEF TaggedMessages
  <2> QED BY <1>6, <2>1
<1>11. CASE m \in BareMessages
  <2>1. PICK s \in Sources, c \in Numerics \cup Named \cup {"PING"} :
          m = Message(NoTags, s, c, <<>>, NULL)
    BY <1>11 DEF BareMessages
  <2>2. m.tags = <<>> /\ m.source = s /\ m.cmd = c /\ m.middles = <<>> /\ m.last = NULL
    BY <2>1 DEF Message, NoTags
  <2>3. c \notin Talk
    BY ZenonT(60) DEF Numerics, Named, Talk
  <2> QED BY <1>1, <2>2, <2>3 DEF Parameterless
<1> QED BY <1>7, <1>8, <1>9, <1>10, <1>11 DEF Messages

(* What the client makes of a message. *)
Understood(m) ==
  [tags |-> TagsHeard(m.tags), prefix |-> m.source, nick |-> NickHeard(m.source),
   cmd |-> <<m.cmd>>, params |-> Append(m.middles, m.last)]

(* The line without its tags. *)
Untagged(x, prefix, word, rest) ==
  /\ x \in Lines /\ x # <<>> /\ x[1] # "@"
  /\ (IF x[1] = ":" THEN Token(Tail(x), SPACE) ELSE <<>>) = prefix
  /\ Token(IF x[1] = ":" THEN Rest(Tail(x), SPACE) ELSE x, SPACE) = word
  /\ Rest(IF x[1] = ":" THEN Rest(Tail(x), SPACE) ELSE x, SPACE) = rest

LEMMA SourcelessRead ==
  ASSUME NEW cmd \in CommandWords, NEW r, NEW b, BodyText(b, cmd, r), NEW pad \in Pads
  PROVE  Untagged(Cat(pad, b), <<>>, <<cmd>>, r)
<1>1. cmd \in Chars /\ cmd # SPACE /\ cmd # ":" /\ cmd # "@"
  BY CommandsAreWords
<1>2. PICK x : x = Cat(pad, b)
  OBVIOUS
<1>3. BodyOf(x, cmd, r)
  BY <1>1, <1>2, PaddedRead
<1>4. x[1] # ":" /\ x[1] # "@"
  BY <1>1, <1>3, Marks DEF BodyOf
<1> QED BY <1>2, <1>3, <1>4 DEF BodyOf, Untagged

LEMMA SourcedRead ==
  ASSUME NEW source \in Sources, source # <<>>, NEW cmd \in CommandWords, NEW r, NEW b,
         BodyText(b, cmd, r), NEW pad \in Pads, NEW x,
         x = (<<":">> \o source \o <<SPACE>>) \o Cat(pad, b)
  PROVE  Untagged(x, source, <<cmd>>, r)
<1>1. cmd \in Chars /\ cmd # SPACE
  BY CommandsAreWords
<1>2. PICK y : y = Cat(pad, b)
  OBVIOUS
<1>3. BodyOf(y, cmd, r) /\ y \in Lines
  BY <1>1, <1>2, PaddedRead DEF BodyOf
<1>4. source \in Lines /\ \A j \in 1..Len(source) : source[j] # SPACE
  BY SourceRead
<1>5. PrefixOf(x, source, y)
  BY <1>2, <1>3, <1>4, PrefixRead
<1>6. x # <<>>
  <2>1. x = Cat(Cat(Cat(<<":">>, source), <<SPACE>>), y)
    BY <1>2, Zenon DEF Cat
  <2>2. Cat(<<":">>, source) \in Lines
    BY <1>4, Marks, OneToken, CatTyped
  <2> QED BY <1>3, <2>1, <2>2, Marks, CatSpaced
<1> QED BY <1>3, <1>5, <1>6, Marks DEF PrefixOf, BodyOf, Untagged

(* A source behind a blank is taken for the command. *)
LEMMA AstrayCut ==
  ASSUME NEW source \in Sources, source # <<>>, NEW b \in Lines, NEW x,
         x = Cat(<<SPACE>>, (<<":">> \o source \o <<SPACE>>) \o b)
  PROVE  Untagged(x, <<>>, <<":">> \o source, b)
<1>1. source \in Lines /\ \A j \in 1..Len(source) : source[j] # SPACE
  BY SourceRead
<1>2. SPACE \in Chars /\ ":" \in Chars /\ SPACE # ":" /\ SPACE # "@" /\ source \in Seq(Chars)
      /\ b \in Seq(Chars)
  BY <1>1, Marks DEF Lines
<1>3. PICK w \in Lines : w = <<":">> \o source
  BY <1>1, <1>2, OneToken, Glued
<1>4. w \in Seq(Chars) /\ w # <<>> /\ w[1] = ":" /\ Len(w) = Len(source) + 1 /\ From(w, 2) = source
  BY <1>2, <1>3, BehindColon DEF Lines
<1>5. \A j \in 1..Len(w) : w[j] # SPACE
  <2>1. PICK n \in Nat : n = Len(source)
    BY <1>2, LenProperties
  <2>2. \A j \in 1..n : source[j] = w[j + 1]
    <3>1. 2 \in 1..Len(w) + 1 /\ Len(w) - 2 + 1 = n
      BY <1>4, <2>1
    <3>2. \A j \in 1..n : From(w, 2)[j] = w[2 + j - 1]
      BY <1>4, <3>1, FromIs
    <3>3. \A j \in 1..n : 2 + j - 1 = j + 1
      BY <2>1
    <3> QED BY <1>4, <3>2, <3>3
  <2>3. ASSUME NEW j \in 1..n + 1 PROVE w[j] # SPACE
    <3>1. CASE j = 1
      BY <1>2, <1>4, <3>1
    <3>2. CASE j # 1
      <4>1. j - 1 \in 1..n /\ (j - 1) + 1 = j
        BY <2>1, <3>2
      <4>2. source[j - 1] = w[j] /\ source[j - 1] # SPACE
        BY <1>1, <2>1, <2>2, <4>1
      <4> QED BY <4>2
    <3> QED BY <3>1, <3>2
  <2> QED BY <1>4, <2>1, <2>3
<1>6. PICK y : y = Cat(Cat(w, <<SPACE>>), b)
  OBVIOUS
<1>7. x = <<SPACE>> \o y
  BY <1>3, <1>6, Zenon DEF Cat
<1>8. Joint(y, Chars, w, SPACE, b) /\ y # <<>>
  BY <1>2, <1>6, CatSpaced
<1>9. y \in Seq(Chars) /\ Token(y, SPACE) = w /\ Rest(y, SPACE) = b
  <2>1. y \in Seq(Chars)
    BY <1>8 DEF Joint
  <2>2. Token(y, SPACE) = w /\ Rest(y, SPACE) = b
    BY <1>2, <1>4, <1>5, <1>8, TokenCut
  <2> QED BY <2>1, <2>2
<1>10. y[1] # SPACE
  <2>1. \A i \in 1..Len(w) : y[i] = w[i]
    BY <1>8 DEF Joint
  <2>2. 1 \in 1..Len(w)
    BY <1>4, LenProperties, EmptySeq
  <2> QED BY <1>2, <1>4, <2>1, <2>2
<1>11. x \in Seq(Chars) /\ x # <<>> /\ x[1] = SPACE
  <2>1. /\ <<SPACE>> \o y \in Seq(Chars) /\ <<SPACE>> \o y # <<>>
        /\ (<<SPACE>> \o y)[1] = SPACE
    BY <1>2, <1>9, BehindColon
  <2> QED BY <1>7, <2>1, Zenon
<1>12. Skip(x, SPACE) = y /\ Skip(y, SPACE) = y
  BY <1>2, <1>7, <1>8, <1>9, <1>10, SkipBlank
<1>13. Token(x, SPACE) = w /\ Rest(x, SPACE) = b
  BY <1>9, <1>12, Zenon DEF Token, Rest
<1>14. x \in Lines /\ x[1] # ":" /\ x[1] # "@"
  BY <1>2, <1>11 DEF Lines
<1> QED BY <1>3, <1>11, <1>13, <1>14, Zenon DEF Untagged

(* What becomes of the tags. *)
TagsTaken(l, tags, x) ==
  /\ l \in Lines /\ l # <<>>
  /\ (IF l[1] = "@" THEN From(l, FirstOf(l, {SPACE}) + 1) ELSE l) = x
  /\ TagsOf(l) = TagsHeard(tags)

LEMMA TagsReadOff ==
  ASSUME NEW tags, tags = <<>> \/ tags \in TagLists, NEW eq \in BOOLEAN,
         NEW x \in Lines, x # <<>>, x[1] # "@", NEW l, l = TagsText(tags, eq) \o x
  PROVE  TagsTaken(l, tags, x)
<1>1. CASE tags = <<>>
  <2>1. TagsText(tags, eq) = <<>>
    BY <1>1, Zenon DEF TagsText
  <2>2. l = x
    BY <2>1, EmptyLine
  <2>3. TagsOf(l) = <<>>
    BY <2>2, Zenon DEF TagsOf
  <2>4. TagsHeard(tags) = <<>>
    <3>1. Len(tags) = 0
      BY <1>1
    <3> QED BY <3>1 DEF TagsHeard
  <2> QED BY <2>2, <2>3, <2>4 DEF TagsTaken
<1>2. CASE tags \in TagLists
  <2>1. PICK s \in Lines : /\ \A j \in 1..Len(s) : s[j] # SPACE
                          /\ TagsText(tags, eq) = (<<"@">> \o s) \o <<SPACE>>
                          /\ TagsIn(s) = TagsHeard(tags)
    BY <1>2, TagsLaid DEF Laid
  <2>2. PICK t : t = TagsText(tags, eq)
    OBVIOUS
  <2>3. Framed(t, s)
    BY <2>1, <2>2, Zenon DEF Framed
  <2>4. TaggedBy(l, s, x)
    <3>1. l = t \o x
      BY <2>2
    <3> QED BY <2>1, <2>3, <3>1, TaggedRead
  <2>5. l \in Lines /\ l[1] = "@" /\ From(l, FirstOf(l, {SPACE}) + 1) = x
        /\ SubSeq(l, 2, FirstOf(l, {SPACE}) - 1) = s
    BY <2>4, Zenon DEF TaggedBy
  <2>6. TagsOf(l) = TagsIn(s)
    BY <2>5, Zenon DEF TagsOf
  <2>7. l # <<>>
    <3>1. CASE l = <<>>
      <4>1. FirstOf(l, {SPACE}) = 1
        BY <3>1 DEF FirstOf
      <4>2. From(l, 2) = <<>>
        BY <3>1 DEF From
      <4>3. FirstOf(l, {SPACE}) + 1 = 2
        BY <4>1
      <4> QED BY <2>5, <4>2, <4>3
    <3> QED BY <3>1
  <2> QED BY <2>1, <2>5, <2>6, <2>7, Zenon DEF TagsTaken
<1> QED BY <1>1, <1>2

ParsedAs(tags, prefix, word, ps) ==
  [tags |-> TagsHeard(tags), prefix |-> prefix, nick |-> NickHeard(prefix), cmd |-> word, params |-> ps]

LEMMA ParseOf ==
  ASSUME NEW l, NEW tags, NEW x, TagsTaken(l, tags, x), NEW prefix \in Sources, NEW word \in Lines,
         NEW rest, Untagged(x, prefix, word, rest)
  PROVE  /\ rest = <<>> => Parse(l) = NULL
         /\ \A ps : rest # <<>> /\ ParamsOf(rest) = ps /\ Len(ps) \in Nat /\ Len(ps) <= MaxParams =>
              Parse(l) = ParsedAs(tags, prefix, word, ps)
<1>1. (IF l[1] = "@" THEN From(l, FirstOf(l, {SPACE}) + 1) ELSE l) = x /\ TagsOf(l) = TagsHeard(tags)
  BY DEF TagsTaken
<1>2. PICK bd : bd = IF x[1] = ":" THEN Rest(Tail(x), SPACE) ELSE x
  OBVIOUS
<1>3. /\ (IF x[1] = ":" THEN Token(Tail(x), SPACE) ELSE <<>>) = prefix
      /\ Token(bd, SPACE) = word /\ Rest(bd, SPACE) = rest
  BY <1>2, Zenon DEF Untagged
<1>4. word # NULL
  BY NullIsNoValue
<1>5. NickOf(prefix) = NickHeard(prefix)
  BY SourceRead
<1> DEFINE Result(pr, b) ==
      IF Token(b, SPACE) = NULL \/ Rest(b, SPACE) = <<>> THEN NULL
      ELSE IF Len(ParamsOf(Rest(b, SPACE))) > MaxParams THEN NULL
      ELSE [tags |-> TagsOf(l), prefix |-> pr, nick |-> NickOf(pr),
            cmd |-> Token(b, SPACE), params |-> ParamsOf(Rest(b, SPACE))]
<1>6. Parse(l) = Result(IF x[1] = ":" THEN Token(Tail(x), SPACE) ELSE <<>>,
                        IF x[1] = ":" THEN Rest(Tail(x), SPACE) ELSE x)
  BY <1>1, Zenon DEF Parse
<1>7. Parse(l) = Result(prefix, bd)
  BY <1>2, <1>3, <1>6, Zenon
<1>8. ASSUME rest = <<>> PROVE Parse(l) = NULL
  BY <1>3, <1>7, <1>8, Zenon
<1>9. ASSUME NEW ps, rest # <<>>, ParamsOf(rest) = ps, Len(ps) \in Nat, Len(ps) <= MaxParams
      PROVE  Parse(l) = ParsedAs(tags, prefix, word, ps)
  <2>1. ~(Len(ps) > MaxParams)
    BY <1>9, ParamsAssumption
  <2>2. Result(prefix, bd) = [tags |-> TagsOf(l), prefix |-> prefix, nick |-> NickOf(prefix),
                              cmd |-> Token(bd, SPACE), params |-> ParamsOf(Rest(bd, SPACE))]
    BY <1>3, <1>4, <1>9, <2>1, Zenon
  <2> QED BY <1>1, <1>3, <1>5, <1>7, <1>9, <2>2, Zenon DEF ParsedAs
<1> QED BY <1>8, <1>9

-----------------------------------------------------------------------------
(* The whole line, one part behind the other. *)
LEMMA JoinedTyped ==
  ASSUME NEW ms \in Seq(Lines)
  PROVE  JoinedBy(SPACE, ms) \in Lines
<1>1. PICK n \in Nat : n = Len(ms)
  BY LenProperties
<1>2. ms \in Seq(Seq(Chars)) /\ SPACE \in Chars
  BY Marks DEF Lines
<1>3. PICK f : IsJoin(f, Chars, SPACE, ms, n)
  BY <1>1, <1>2, JoinedFold
<1>4. n \in 0..n
  BY <1>1
<1> QED BY <1>3, <1>4 DEF IsJoin, Lines

LEMMA TagsTextTyped ==
  ASSUME NEW tags, tags = <<>> \/ tags \in TagLists, NEW eq \in BOOLEAN
  PROVE  TagsText(tags, eq) \in Lines
<1>1. CASE tags = <<>>
  BY <1>1, EmptyLine DEF TagsText
<1>2. CASE tags \in TagLists
  <2>1. PICK s \in Lines : TagsText(tags, eq) = (<<"@">> \o s) \o <<SPACE>>
    BY <1>2, TagsLaid DEF Laid
  <2>2. <<"@">> \in Lines /\ <<SPACE>> \in Lines
    BY Tokens1, OneToken
  <2>3. PICK p \in Lines : p = <<"@">> \o s
    BY <2>2, Glued
  <2>4. PICK q \in Lines : q = p \o <<SPACE>>
    BY <2>2, Glued
  <2> QED BY <2>1, <2>3, <2>4
<1> QED BY <1>1, <1>2

IsChain(l, a, b, c, d, e, f) == l = a \o b \o c \o d \o e \o f
IsChained(l, a, b, c, d, e, f, t, r, k, y) ==
  /\ IsPair(t, e, f) /\ IsPair(r, d, t) /\ IsPair(k, c, r) /\ IsPair(y, b, k)
  /\ IsChain(l, a, b, c, d, e, f)

LEMMA ChainGrouped ==
  ASSUME NEW a \in Lines, NEW b \in Lines, NEW c \in Lines,
         NEW d \in Lines, NEW e \in Lines, NEW f \in Lines, NEW t, NEW r, NEW k, NEW y, NEW l,
         IsChained(l, a, b, c, d, e, f, t, r, k, y)
  PROVE  IsPair(l, a, y)
<1>0. /\ IsPair(t, e, f) /\ IsPair(r, d, t) /\ IsPair(k, c, r) /\ IsPair(y, b, k)
      /\ IsChain(l, a, b, c, d, e, f)
  BY DEF IsChained
<1>1. t \in Lines
  BY <1>0, PairTyped
<1>2. r \in Lines
  BY <1>0, <1>1, PairTyped
<1>3. k \in Lines
  BY <1>0, <1>2, PairTyped
<1>4. PICK p \in Lines : IsPair(p, a, b)
  BY PairTyped
<1>5. PICK q \in Lines : IsPair(q, p, c)
  BY <1>4, PairTyped
<1>6. PICK s \in Lines : IsPair(s, q, d)
  BY <1>5, PairTyped
<1>7. PICK z \in Lines : IsPair(z, s, e)
  BY <1>6, PairTyped
<1>8. IsPair(l, z, f)
  BY <1>0, <1>4, <1>5, <1>6, <1>7, Zenon DEF IsChain, IsPair
<1>9. IsPair(l, s, t)
  BY <1>0, <1>6, <1>7, <1>8, PairSlid
<1>10. IsPair(l, q, r)
  BY <1>0, <1>1, <1>5, <1>6, <1>9, PairSlid
<1>11. IsPair(l, p, k)
  BY <1>0, <1>2, <1>4, <1>5, <1>10, PairSlid
<1> QED BY <1>0, <1>3, <1>4, <1>11, PairSlid

(* The source as it is written, with its gap. *)
SourceLaid(source, gap) == IF source = <<>> THEN <<>> ELSE (<<":">> \o source \o <<SPACE>>) \o gap

LEMMA SourceLaidTyped ==
  ASSUME NEW source \in Sources, NEW gap \in Pads
  PROVE  SourceLaid(source, gap) \in Lines
<1>1. source \in Lines /\ <<":">> \in Lines /\ <<SPACE>> \in Lines /\ <<>> \in Lines /\ gap \in Lines
  BY SourceRead, Tokens1, OneToken, EmptyLine, PadsAre
<1>2. PICK p \in Lines : p = <<":">> \o source
  BY <1>1, Glued
<1>3. PICK q \in Lines : q = p \o <<SPACE>>
  BY <1>1, Glued
<1>4. PICK z \in Lines : z = q \o gap
  BY <1>1, Glued
<1> QED BY <1>1, <1>2, <1>3, <1>4, Zenon DEF SourceLaid

(* A line of tags, a gap, a source with its gap, a command and parameters. *)
LineOf(l, tags, eq, gap1, source, gap2, b) ==
  l = Cat(TagsText(tags, eq), Cat(gap1, Cat(SourceLaid(source, gap2), b)))

LEMMA LineTaken ==
  ASSUME NEW tags, tags = <<>> \/ tags \in TagLists, NEW eq \in BOOLEAN,
         NEW source \in Sources, NEW cmd \in CommandWords, NEW r, NEW b, BodyText(b, cmd, r),
         NEW gap1 \in Pads, tags = <<>> => gap1 = <<>>, NEW gap2 \in Pads,
         NEW l, LineOf(l, tags, eq, gap1, source, gap2, b)
  PROVE  \E x : /\ TagsTaken(l, tags, x)
                /\ IF source # <<>> /\ gap1 # <<>> THEN Untagged(x, <<>>, <<":">> \o source, Cat(gap2, b))
                   ELSE Untagged(x, source, <<cmd>>, r)
<1>1. b \in Lines /\ gap1 \in Lines /\ gap2 \in Lines /\ TagsText(tags, eq) \in Lines
  BY TagsTextTyped, PadsAre DEF BodyText
<1>2. PICK S \in Lines : S = SourceLaid(source, gap2)
  BY SourceLaidTyped
<1>3. PICK x \in Lines : x = Cat(gap1, Cat(S, b))
  BY <1>1, CatTyped
<1>4. l = TagsText(tags, eq) \o x
  BY <1>2, <1>3, Zenon DEF LineOf, Cat
<1>5. PICK c \in Lines : c = Cat(gap2, b)
  BY <1>1, CatTyped
<1>6. ASSUME source # <<>> PROVE Cat(S, b) = (<<":">> \o source \o <<SPACE>>) \o c
  <2>1. PICK h : h = <<":">> \o source \o <<SPACE>>
    OBVIOUS
  <2>2. h \in Lines
    <3>1. source \in Lines /\ <<":">> \in Lines /\ <<SPACE>> \in Lines
      BY SourceRead, Tokens1, OneToken
    <3>2. h = Cat(Cat(<<":">>, source), <<SPACE>>)
      BY <2>1, Zenon DEF Cat
    <3>3. Cat(<<":">>, source) \in Lines
      BY <3>1, CatTyped
    <3> QED BY <3>1, <3>2, <3>3, CatTyped
  <2>3. S = Cat(h, gap2)
    BY <1>2, <1>6, <2>1, Zenon DEF SourceLaid, Cat
  <2>4. Cat(Cat(h, gap2), b) = Cat(h, c)
    BY <1>1, <1>5, <2>2, CatAssociative
  <2> QED BY <2>1, <2>3, <2>4, Zenon DEF Cat
<1>7. CASE source # <<>> /\ gap1 # <<>>
  <2>1. gap1 = <<SPACE>>
    BY <1>7 DEF Pads
  <2>2. x = Cat(<<SPACE>>, (<<":">> \o source \o <<SPACE>>) \o c)
    BY <1>3, <1>6, <1>7, <2>1, Zenon
  <2>3. Untagged(x, <<>>, <<":">> \o source, c)
    BY <1>7, <2>2, AstrayCut
  <2>4. TagsTaken(l, tags, x)
    BY <1>4, <2>3, TagsReadOff DEF Untagged
  <2> QED BY <1>5, <1>7, <2>3, <2>4
<1>8. CASE source # <<>> /\ gap1 = <<>>
  <2>1. x = (<<":">> \o source \o <<SPACE>>) \o Cat(gap2, b)
    <3>1. Cat(S, b) \in Lines
      BY <1>1, CatTyped
    <3>2. x = Cat(S, b)
      BY <1>3, <1>8, <3>1, CatRegrouped
    <3> QED BY <1>5, <1>6, <1>8, <3>2
  <2>2. Untagged(x, source, <<cmd>>, r)
    BY <1>8, <2>1, SourcedRead
  <2>3. TagsTaken(l, tags, x)
    BY <1>4, <2>2, TagsReadOff DEF Untagged
  <2> QED BY <1>8, <2>2, <2>3
<1>9. CASE source = <<>>
  <2>1. x = Cat(gap1, b)
    <3>1. S = <<>>
      BY <1>2, <1>9 DEF SourceLaid
    <3> QED BY <1>1, <1>3, <3>1, CatRegrouped
  <2>2. Untagged(x, source, <<cmd>>, r)
    BY <1>9, <2>1, SourcelessRead
  <2>3. TagsTaken(l, tags, x)
    BY <1>4, <2>2, TagsReadOff DEF Untagged
  <2> QED BY <1>9, <2>2, <2>3
<1> QED BY <1>7, <1>8, <1>9

LEMMA GapsAre ==
  ASSUME NEW m, NEW f \in LineForms(m)
  PROVE  /\ f.colon \in BOOLEAN /\ f.eq \in BOOLEAN /\ f.wide \subseteq Gaps(m)
         /\ \A g : Extra(f, g) \in Pads
         /\ m.tags = <<>> => Extra(f, AfterTags) = <<>>
         /\ IF m.last = NULL THEN ~f.colon ELSE f.colon \/ IsWord(m.last)
         /\ f.colon => Extra(f, AtEnd(m)) = <<>>
         /\ \A g : Extra(f, g) = <<>> <=> g \notin f.wide
<1>1. f \in [colon : BOOLEAN, eq : BOOLEAN, wide : SUBSET Gaps(m)]
  BY DEF LineForms
<1>2. f.colon \in BOOLEAN /\ f.eq \in BOOLEAN /\ f.wide \subseteq Gaps(m)
  BY <1>1
<1>3. \A g : Extra(f, g) \in Pads
  BY DEF Extra, Pads
<1>4. m.tags = <<>> => AfterTags \notin f.wide
  BY <1>2 DEF Gaps
<1>5. /\ IF m.last = NULL THEN ~f.colon ELSE f.colon \/ IsWord(m.last)
      /\ f.colon => AtEnd(m) \notin f.wide
  BY DEF LineForms
<1>6. <<SPACE>> # <<>>
  BY Marks, OneToken
<1>7. \A g : Extra(f, g) = <<>> <=> g \notin f.wide
  BY <1>6 DEF Extra
<1> QED BY <1>2, <1>3, <1>4, <1>5, <1>7

(* The words of a message, each with its gap. *)
Padded(m, f) == [i \in DOMAIN m.middles |-> Extra(f, i + 2) \o m.middles[i]]

LEMMA PaddedWords ==
  ASSUME NEW m, NEW f \in LineForms(m), m.middles \in Seq(Lines),
         \A i \in 1..Len(m.middles) : IsWord(m.middles[i])
  PROVE  /\ Padded(m, f) \in Seq(Lines) /\ Len(Padded(m, f)) = Len(m.middles)
         /\ \A i \in 1..Len(Padded(m, f)) : IsWords(Padded(m, f)[i], <<m.middles[i]>>)
<1>1. PICK n \in Nat : n = Len(m.middles) /\ DOMAIN m.middles = 1..n
  BY LenProperties
<1>2. ASSUME NEW i \in 1..n
      PROVE  IsWords(Extra(f, i + 2) \o m.middles[i], <<m.middles[i]>>)
  <2>1. PICK w \in Lines : w = m.middles[i]
    BY <1>1, ElementOfSeq
  <2>2. IsWord(w)
    BY <1>1, <2>1
  <2>3. PICK pad \in Pads : pad = Extra(f, i + 2)
    BY GapsAre
  <2>4. IsWords(pad \o w, <<w>>)
    BY <2>2, WordAlone, WordsPadded
  <2> QED BY <2>1, <2>3, <2>4
<1>3. Padded(m, f) = [i \in 1..n |-> Extra(f, i + 2) \o m.middles[i]]
  BY <1>1, Zenon DEF Padded
<1>4. \A i \in 1..n : Extra(f, i + 2) \o m.middles[i] \in Lines
  BY <1>2 DEF IsWords
<1>5. Padded(m, f) \in Seq(Lines) /\ Len(Padded(m, f)) = n
  BY <1>3, <1>4
<1>6. \A i \in 1..n : Padded(m, f)[i] = Extra(f, i + 2) \o m.middles[i]
  BY <1>3
<1> QED BY <1>1, <1>2, <1>5, <1>6

(* The parts of a line, whoever wrote it. *)
LEMMA LineParts ==
  ASSUME NEW m, m.tags = <<>> \/ m.tags \in TagLists, m.source \in Sources, m.cmd \in CommandWords,
         NEW f \in LineForms(m), NEW J \in Lines, J = JoinedBy(SPACE, Padded(m, f)),
         NEW L \in Lines, L = LastText(m, f), NEW en \in Pads, en = Extra(f, AtEnd(m)),
         NEW l, l = Line(m, f)
  PROVE  LineOf(l, m.tags, f.eq, Extra(f, AfterTags), m.source, Extra(f, AfterSource),
                Cat(<<m.cmd>>, Cat(Cat(J, L), en)))
<1>1. PICK gap1 \in Pads : gap1 = Extra(f, AfterTags)
  BY GapsAre
<1>2. PICK gap2 \in Pads : gap2 = Extra(f, AfterSource)
  BY GapsAre
<1>3. PICK T \in Lines : T = TagsText(m.tags, f.eq)
  BY TagsTextTyped, GapsAre
<1>4. PICK S \in Lines : S = SourceLaid(m.source, gap2)
  BY SourceLaidTyped
<1>5. PICK k \in Lines : k = <<m.cmd>>
  BY CommandsAreWords, OneToken
<1>6. S = SourceText(m, f)
  BY <1>2, <1>4, Zenon DEF SourceLaid, SourceText
<1>7. gap1 \in Lines /\ en \in Lines
  BY PadsAre
<1>8. PICK A \in Lines : A = Cat(T, gap1)
  BY <1>7, CatTyped
<1>9. IsChain(l, A, S, k, J, L, en)
  BY <1>1, <1>3, <1>5, <1>6, <1>8, Zenon DEF Line, IsChain, Cat, Padded
<1>10. PICK t \in Lines : IsPair(t, L, en)
  BY <1>7, PairTyped
<1>11. PICK r \in Lines : IsPair(r, J, t)
  BY PairTyped
<1>12. PICK b \in Lines : IsPair(b, k, r)
  BY PairTyped
<1>13. PICK y \in Lines : IsPair(y, S, b)
  BY PairTyped
<1>14. IsChained(l, A, S, k, J, L, en, t, r, b, y)
  BY <1>9, <1>10, <1>11, <1>12, <1>13, Zenon DEF IsChained
<1>15. l = Cat(A, y)
  <2>1. IsPair(l, A, y)
    BY <1>7, <1>14, ChainGrouped
  <2> QED BY <2>1, Zenon DEF IsPair, Cat
<1>16. l = Cat(T, Cat(gap1, y))
  <2>1. Cat(Cat(T, gap1), y) = Cat(T, Cat(gap1, y))
    BY <1>7, CatAssociative
  <2> QED BY <1>8, <1>15, <2>1
<1>17. r = Cat(Cat(J, L), en)
  <2>1. Cat(Cat(J, L), en) = Cat(J, Cat(L, en))
    BY <1>7, CatAssociative
  <2> QED BY <1>10, <1>11, <2>1, Zenon DEF IsPair, Cat
<1>18. y = Cat(S, Cat(k, Cat(Cat(J, L), en)))
  BY <1>12, <1>13, <1>17, Zenon DEF IsPair, Cat
<1> QED BY <1>1, <1>2, <1>3, <1>4, <1>5, <1>16, <1>18, Zenon DEF LineOf

LEMMA PutTogether ==
  ASSUME NEW cmd \in Chars, NEW r \in Lines, NEW w, w = Cat(<<SPACE>>, r)
  PROVE  BodyText(Cat(<<cmd>>, w), cmd, r)
<1>1. PICK a \in Lines : a = <<cmd>>
  BY OneToken
<1>2. PICK sp \in Lines : sp = <<SPACE>>
  BY Marks, OneToken
<1>3. Cat(Cat(a, sp), r) = Cat(a, Cat(sp, r))
  BY CatAssociative
<1>4. Cat(a, w) \in Lines
  BY <1>2, CatTyped
<1> QED BY <1>1, <1>2, <1>3, <1>4 DEF BodyText

(* Whichever way a message is written: what is parsed of its line.         *)
LEMMA MessageParsed ==
  ASSUME NEW m, Grammatical(m), NEW f \in LineForms(m), NEW l, l = Line(m, f)
  PROVE  /\ l \in Lines /\ l # <<>>
         /\ Parse(l) = IF Astray(m, f)
                         THEN ParsedAs(m.tags, <<>>, <<":">> \o m.source,
                                       Append(<<<<m.cmd>>>> \o m.middles, m.last))
                         ELSE ParsedAs(m.tags, m.source, <<m.cmd>>,
                                       IF Lost(m, f) THEN <<NULL, m.last>> ELSE Append(m.middles, m.last))
<1>1. /\ m.tags = <<>> \/ m.tags \in TagLists
      /\ m.source \in Sources /\ m.cmd \in CommandWords /\ m.middles \in Seq(Lines)
      /\ Len(m.middles) <= 2 /\ \A i \in 1..Len(m.middles) : IsWord(m.middles[i])
      /\ m.last \in Lines /\ (m.tags # <<>> => Len(m.middles) = 1)
  BY DEF Grammatical
<1>2. m.cmd \in Chars /\ m.cmd # SPACE /\ m.cmd # ":" /\ m.last # NULL /\ m.source \in Lines
  BY <1>1, CommandsAreWords, SourceRead, NullIsNoValue
<1>3. PICK ps \in Seq(Lines) : /\ ps = Padded(m, f) /\ Len(ps) = Len(m.middles)
                              /\ \A i \in 1..Len(ps) : IsWords(ps[i], <<m.middles[i]>>)
  BY <1>1, PaddedWords
<1>4. PICK ex \in Pads : ex = Extra(f, Len(m.middles) + 3)
  BY GapsAre
<1>5. PICK en \in Pads : en = Extra(f, AtEnd(m))
  BY GapsAre
<1>6. f.colon \in BOOLEAN /\ (f.colon => en = <<>>) /\ (f.colon \/ IsWord(m.last))
  BY <1>2, <1>5, GapsAre
<1>7. PICK J \in Lines : J = JoinedBy(SPACE, ps)
  BY JoinedTyped
<1>8. PICK L : L = <<SPACE>> \o ex \o (IF f.colon THEN <<":">> ELSE <<>>) \o m.last
  OBVIOUS
<1>9. L = LastText(m, f) /\ L \in Lines
  <2>1. L = LastText(m, f)
    BY <1>2, <1>4, <1>8, Zenon DEF LastText
  <2>2. PICK sp \in Lines : sp = <<SPACE>>
    BY Marks, OneToken
  <2>3. PICK co \in Lines : co = IF f.colon THEN <<":">> ELSE <<>>
    BY Marks, OneToken, EmptyLine
  <2>4. L = Cat(Cat(Cat(sp, ex), co), m.last)
    BY <1>8, <2>2, <2>3, Zenon DEF Cat
  <2>5. ex \in Lines
    BY PadsAre
  <2>6. PICK u \in Lines : u = Cat(sp, ex)
    BY <2>5, CatTyped
  <2>7. PICK v \in Lines : v = Cat(u, co)
    BY CatTyped
  <2>8. L \in Lines
    BY <1>1, <2>4, <2>6, <2>7, CatTyped
  <2> QED BY <2>1, <2>8
<1>30. PICK ms \in Seq(Lines) : ms = m.middles
  BY <1>1
<1>31. PICK t \in Lines : t = m.last
  BY <1>1
<1>32. PICK colon \in BOOLEAN : colon = f.colon
  BY <1>6
<1>33. PICK narrow \in BOOLEAN : narrow <=> ex = <<>>
  OBVIOUS
<1>34. (colon => en = <<>>) /\ (colon \/ IsWord(t))
  BY <1>6, <1>31, <1>32
<1>10. PICK r : /\ Parameters(r, ms, t, colon, narrow)
               /\ Cat(Cat(J, L), en) = Cat(<<SPACE>>, r)
  <2>1. \E r : Parameters(r, ms, t, colon, narrow) /\ Cat(Cat(J, L), en) = Cat(<<SPACE>>, r)
    <3>1. Len(ps) = Len(ms) /\ \A i \in 1..Len(ps) : IsWords(ps[i], <<ms[i]>>)
      BY <1>3, <1>30
    <3>2. L = <<SPACE>> \o ex \o (IF colon THEN <<":">> ELSE <<>>) \o t
      BY <1>8, <1>31, <1>32, Zenon
    <3>3. LaidBehind(ps, ms, t, colon, ex, en, J, L)
      BY <1>7, <1>34, <3>1, <3>2, Zenon DEF LaidBehind
    <3> QED BY <1>33, <3>3, AfterCommand
  <2> QED BY <2>1
<1>11. r \in Lines /\ r # <<>>
  BY <1>10 DEF Parameters
<1>12. PICK b : b = Cat(<<m.cmd>>, Cat(Cat(J, L), en))
  OBVIOUS
<1>13. BodyText(b, m.cmd, r)
  BY <1>2, <1>10, <1>11, <1>12, PutTogether
<1>14. PICK gap1 \in Pads : gap1 = Extra(f, AfterTags)
  BY GapsAre
<1>15. PICK gap2 \in Pads : gap2 = Extra(f, AfterSource)
  BY GapsAre
<1>16. LineOf(l, m.tags, f.eq, gap1, m.source, gap2, b)
  BY <1>1, <1>3, <1>5, <1>7, <1>9, <1>12, <1>14, <1>15, LineParts
<1>17. (m.tags = <<>> => gap1 = <<>>) /\ f.eq \in BOOLEAN
  BY <1>14, GapsAre
<1>18. PICK x : /\ TagsTaken(l, m.tags, x)
               /\ IF m.source # <<>> /\ gap1 # <<>>
                    THEN Untagged(x, <<>>, <<":">> \o m.source, Cat(gap2, b))
                    ELSE Untagged(x, m.source, <<m.cmd>>, r)
  <2>1. PICK source \in Sources : source = m.source
    BY <1>1
  <2>2. PICK cmd \in CommandWords : cmd = m.cmd
    BY <1>1
  <2>3. PICK eq \in BOOLEAN : eq = f.eq
    BY <1>17
  <2>4. PICK tags : tags = m.tags
    OBVIOUS
  <2>5. /\ tags = <<>> \/ tags \in TagLists
        /\ BodyText(b, cmd, r) /\ (tags = <<>> => gap1 = <<>>)
        /\ LineOf(l, tags, eq, gap1, source, gap2, b)
    BY <1>1, <1>13, <1>16, <1>17, <2>1, <2>2, <2>3, <2>4
  <2>6. \E x : /\ TagsTaken(l, tags, x)
               /\ IF source # <<>> /\ gap1 # <<>>
                    THEN Untagged(x, <<>>, <<":">> \o source, Cat(gap2, b))
                    ELSE Untagged(x, source, <<cmd>>, r)
    BY <2>5, LineTaken
  <2> QED BY <2>1, <2>2, <2>4, <2>6
<1>19. Astray(m, f) <=> m.source # <<>> /\ gap1 # <<>>
  BY <1>14, GapsAre DEF Astray
<1>20. Len(m.middles) \in Nat /\ (m.middles = <<>> <=> Len(m.middles) = 0)
  BY <1>1, LenProperties, EmptySeq
<1>21. Lost(m, f) <=> f.colon /\ m.middles = <<>> /\ ex # <<>>
  <2>1. Meant(m) # <<>>
    <3>1. Append(m.middles, m.last) # <<>>
      BY <1>1, AppendProperties
    <3> QED BY <1>2, <3>1 DEF Meant
  <2>2. ex = <<>> <=> Len(m.middles) + 3 \notin f.wide
    BY <1>4, GapsAre
  <2>3. m.middles = <<>> => Len(m.middles) + 3 = 3
    BY <1>20
  <2> QED BY <2>1, <2>2, <2>3 DEF Lost
<1>22. CASE Astray(m, f)
  <2>1. Untagged(x, <<>>, <<":">> \o m.source, Cat(gap2, b))
    BY <1>18, <1>19, <1>22
  <2>2. PICK k \in Lines : k = <<m.cmd>>
    BY <1>2, OneToken
  <2>3. PICK A : A = Cat(gap2, k)
    OBVIOUS
  <2>4. IsWords(A, <<k>>)
    <3>1. IsWord(k)
      <4>1. k # <<>> /\ k[1] = m.cmd /\ DOMAIN k = 1..1
        BY <2>2
      <4>2. \A i \in 1..1 : i = 1
        OBVIOUS
      <4> QED BY <1>2, <4>1, <4>2 DEF IsWord
    <3> QED BY <2>3, <3>1, WordAlone, WordsPadded DEF Cat
  <2>5. PICK rest \in Lines : rest = Cat(Cat(A, <<SPACE>>), r)
    <3>1. A \in Lines /\ <<SPACE>> \in Lines
      BY <2>4, Marks, OneToken DEF IsWords
    <3>2. Cat(A, <<SPACE>>) \in Lines
      BY <3>1, CatTyped
    <3> QED BY <1>11, <3>2, CatTyped
  <2>6. Cat(gap2, b) = rest
    <3>1. PICK sp \in Lines : sp = <<SPACE>>
      BY Marks, OneToken
    <3>2. b = Cat(k, Cat(sp, r))
      BY <1>10, <1>12, <2>2, <3>1
    <3>3. gap2 \in Lines /\ Cat(sp, r) \in Lines /\ A \in Lines
      BY <1>11, <2>4, <3>1, CatTyped, PadsAre DEF IsWords
    <3>4. Cat(gap2, Cat(k, Cat(sp, r))) = Cat(A, Cat(sp, r))
      BY <2>3, <3>3, CatAssociative
    <3>5. Cat(A, Cat(sp, r)) = Cat(Cat(A, sp), r)
      BY <1>11, <3>3, CatAssociative
    <3> QED BY <2>5, <3>1, <3>2, <3>4, <3>5
  <2>7. rest # <<>>
    <3>1. A \in Lines
      BY <2>4 DEF IsWords
    <3> QED BY <1>11, <2>5, <3>1, Marks, CatSpaced
  <2>8. PICK qs : qs = Append(<<k>> \o m.middles, m.last)
    OBVIOUS
  <2>9. ParamsOf(rest) = qs
    <3>1. ParamsOf(Cat(Cat(A, <<SPACE>>), r)) = Append(<<k>> \o ms, t)
      BY <1>10, <2>4, AstrayRead
    <3> QED BY <1>30, <1>31, <2>5, <2>8, <3>1
  <2>10. Len(qs) = 3
    <3>1. Len(m.middles) = 1
      BY <1>1, <1>17, <1>19, <1>22
    <3>2. PICK kk \in Seq(Lines) : kk = <<k>> /\ Len(kk) = 1
      <4>1. <<k>> \in Seq(Lines) /\ Len(<<k>>) = 1
        BY Singly
      <4> QED BY <4>1
    <3>3. PICK both : both = kk \o ms
      OBVIOUS
    <3>4. both \in Seq(Lines) /\ Len(both) = 1 + 1
      <4>1. kk \o ms \in Seq(Lines) /\ Len(kk \o ms) = Len(kk) + Len(ms)
        BY <1>30, <3>2, ConcatProperties
      <4> QED BY <1>30, <3>1, <3>2, <3>3, <4>1
    <3>5. Len(Append(both, t)) = Len(both) + 1
      BY <1>31, <3>4, AppendProperties
    <3>6. qs = Append(both, t)
      BY <1>30, <1>31, <2>8, <3>2, <3>3
    <3> QED BY <3>4, <3>5, <3>6
  <2>11. Len(qs) \in Nat /\ Len(qs) <= MaxParams
    BY <2>10, ParamsAssumption
  <2>12. PICK word \in Lines : word = <<":">> \o m.source
    BY <1>2, Marks, OneToken, Glued
  <2>13. <<>> \in Sources
    BY DEF Sources
  <2>14. Untagged(x, <<>>, word, rest)
    BY <2>1, <2>6, <2>12
  <2>15. Parse(l) = ParsedAs(m.tags, <<>>, word, qs)
    BY <1>18, <2>7, <2>9, <2>11, <2>13, <2>14, ParseOf
  <2> QED BY <1>18, <1>22, <2>2, <2>8, <2>12, <2>15 DEF TagsTaken
<1>23. CASE ~Astray(m, f)
  <2>1. Untagged(x, m.source, <<m.cmd>>, r)
    BY <1>18, <1>19, <1>23
  <2>2. PICK qs : qs = IF Lost(m, f) THEN <<NULL, m.last>> ELSE Append(m.middles, m.last)
    OBVIOUS
  <2>3. ParamsOf(r) = qs
    <3>1. ParamsOf(r) = ParamsHeard(ms, t, colon, narrow)
      BY <1>10, ParamsRead
    <3> QED BY <1>21, <1>30, <1>31, <1>32, <1>33, <2>2, <3>1 DEF ParamsHeard
  <2>4. Len(qs) \in Nat /\ Len(qs) <= MaxParams
    <3>1. Len(<<NULL, m.last>>) = 2
      OBVIOUS
    <3>2. Len(Append(m.middles, m.last)) = Len(m.middles) + 1
      BY <1>1, AppendProperties
    <3> QED BY <1>1, <1>20, <2>2, <3>1, <3>2, ParamsAssumption
  <2>5. <<m.cmd>> \in Lines
    BY <1>2, OneToken
  <2>6. Parse(l) = ParsedAs(m.tags, m.source, <<m.cmd>>, qs)
    BY <1>1, <1>11, <1>18, <2>1, <2>3, <2>4, <2>5, ParseOf
  <2> QED BY <1>18, <1>23, <2>2, <2>6 DEF TagsTaken
<1> QED BY <1>22, <1>23

LEMMA NothingParsed ==
  ASSUME NEW m, Parameterless(m), NEW f \in LineForms(m), NEW l, l = Line(m, f)
  PROVE  /\ l \in Lines /\ l # <<>> /\ Parse(l) = NULL
         /\ Lost(m, f) /\ ~Astray(m, f)
<1>1. /\ m.tags = <<>> /\ m.source \in Sources /\ m.cmd \in CommandWords
      /\ m.middles = <<>> /\ m.last = NULL
  BY DEF Parameterless
<1>2. PICK en \in Pads : en = Extra(f, AtEnd(m))
  BY GapsAre
<1>3. PICK J \in Lines : J = <<>>
  BY EmptyLine
<1>4. J = JoinedBy(SPACE, Padded(m, f))
  <2>1. Padded(m, f) = <<>>
    <3>1. DOMAIN m.middles = {}
      BY <1>1
    <3> QED BY <3>1 DEF Padded
  <2> QED BY <1>3, <2>1, Marks, JoinedFew
<1>5. J = LastText(m, f)
  BY <1>1, <1>3 DEF LastText
<1>6. PICK b : b = Cat(<<m.cmd>>, Cat(Cat(J, J), en))
  OBVIOUS
<1>7. m.cmd \in Chars /\ <<m.cmd>> \in Lines /\ <<>> \in Lines /\ <<SPACE>> \in Lines
  BY <1>1, CommandsAreWords, OneToken, Marks, EmptyLine
<1>8. BodyText(b, m.cmd, <<>>)
  <2>1. Cat(Cat(J, J), en) = en
    BY <1>3, CatRegrouped, PadsAre
  <2>2. CASE en = <<>>
    <3>1. b = <<m.cmd>>
      BY <1>6, <1>7, <2>1, <2>2, CatRegrouped
    <3> QED BY <1>7, <3>1 DEF BodyText
  <2>3. CASE en = <<SPACE>>
    <3>1. en = Cat(<<SPACE>>, <<>>)
      BY <1>7, <2>3, CatRegrouped
    <3> QED BY <1>6, <1>7, <2>1, <3>1, PutTogether
  <2> QED BY <2>2, <2>3 DEF Pads
<1>9. PICK gap1 \in Pads : gap1 = Extra(f, AfterTags)
  BY GapsAre
<1>10. PICK gap2 \in Pads : gap2 = Extra(f, AfterSource)
  BY GapsAre
<1>11. LineOf(l, m.tags, f.eq, gap1, m.source, gap2, b)
  BY <1>1, <1>2, <1>4, <1>5, <1>6, <1>9, <1>10, LineParts
<1>12. gap1 = <<>> /\ f.eq \in BOOLEAN
  BY <1>1, <1>9, GapsAre
<1>13. PICK x : TagsTaken(l, m.tags, x) /\ Untagged(x, m.source, <<m.cmd>>, <<>>)
  <2>1. PICK source \in Sources : source = m.source
    BY <1>1
  <2>2. PICK cmd \in CommandWords : cmd = m.cmd
    BY <1>1
  <2>3. PICK eq \in BOOLEAN : eq = f.eq
    BY <1>12
  <2>4. PICK tags : tags = m.tags /\ tags = <<>>
    BY <1>1
  <2>5. BodyText(b, cmd, <<>>) /\ LineOf(l, tags, eq, gap1, source, gap2, b)
    BY <1>8, <1>11, <2>1, <2>2, <2>3, <2>4
  <2>6. \E x : TagsTaken(l, tags, x) /\ Untagged(x, source, <<cmd>>, <<>>)
    BY <1>12, <2>4, <2>5, LineTaken
  <2> QED BY <2>1, <2>2, <2>4, <2>6
<1>14. Parse(l) = NULL
  BY <1>1, <1>7, <1>13, ParseOf
<1>15. Lost(m, f)
  BY <1>1 DEF Lost, Meant
<1>16. ~Astray(m, f)
  <2>1. AfterTags \notin f.wide
    BY <1>9, <1>12, GapsAre
  <2> QED BY <2>1 DEF Astray
<1> QED BY <1>13, <1>14, <1>15, <1>16 DEF TagsTaken

-----------------------------------------------------------------------------
(* The time of a message is that of its last tag. *)
LEMMA TimeAt ==
  ASSUME NEW G, NEW n \in Nat \ {0}, DOMAIN G = 1..n, G[n].key = <<"time">>,
         \A i \in 1..n - 1 : G[i].key # <<"time">>
  PROVE  TimeOf(G) = IF G[n].value = NULL THEN "now" ELSE G[n].value
<1> DEFINE at == {i \in DOMAIN G : G[i].key = <<"time">> /\ G[i].value # NULL}
<1>1. \A i \in 1..n : i # n => i \in 1..n - 1
  OBVIOUS
<1>2. \A i \in at : i = n
  BY <1>1
<1>3. TimeOf(G) = IF at = {} THEN "now" ELSE G[CHOOSE i \in at : \A j \in at : i <= j].value
  BY Zenon DEF TimeOf
<1>4. CASE G[n].value = NULL
  <2>1. at = {}
    BY <1>2, <1>4
  <2> QED BY <1>3, <1>4, <2>1
<1>5. CASE G[n].value # NULL
  <2>1. n \in at /\ at \subseteq Int /\ \A j \in at : n <= j
    BY <1>2, <1>5
  <2> HIDE DEF at
  <2>2. (CHOOSE i \in at : \A j \in at : i <= j) = n
    BY <2>1, LeastIs
  <2> QED BY <1>3, <1>5, <2>1, <2>2
<1> QED BY <1>4, <1>5

TimeHeard(tags) ==
  LET v == IF tags = <<>> THEN <<>> ELSE Last(tags).value
  IN  IF v = <<>> THEN "now" ELSE v

LEMMA ValuesAreLines == TagValues \subseteq Lines /\ NULL \notin TagValues /\ <<"time">> # <<"msgid">>
<1>1. TagValues \subseteq Lines
  BY TextsAreLines
<1>2. "time" # "msgid"
  BY Zenon
<1> QED BY <1>1, <1>2, NullIsNoValue

LEMMA TimeRead ==
  ASSUME NEW tags, tags = <<>> \/ tags \in TagLists
  PROVE  TimeOf(TagsHeard(tags)) = TimeHeard(tags) /\ TimeHeard(tags) \in Lines \cup {"now"}
<1>1. CASE tags = <<>>
  <2>1. TagsHeard(tags) = <<>>
    BY <1>1 DEF TagsHeard
  <2>2. TimeOf(<<>>) = "now"
    BY DEF TimeOf
  <2>3. TimeHeard(tags) = "now"
    BY <1>1 DEF TimeHeard
  <2> QED BY <2>1, <2>2, <2>3
<1>2. ASSUME NEW n \in {1, 2}, NEW v \in TagValues, tags # <<>>, Len(tags) = n,
             tags[n].key = "time", tags[n].value = v, n = 2 => tags[1].key = "msgid"
      PROVE  TimeOf(TagsHeard(tags)) = TimeHeard(tags) /\ TimeHeard(tags) \in Lines \cup {"now"}
  <2> DEFINE G == TagsHeard(tags)
  <2>1. DOMAIN G = 1..n /\ \A i \in 1..n : G[i] = TagHeard(tags[i].key, tags[i].value)
    BY <1>2 DEF TagsHeard
  <2>2. G[n] = TagHeard("time", v)
    BY <1>2, <2>1
  <2>3. G[n].key = <<"time">> /\ G[n].value = IF v = <<>> THEN NULL ELSE v
    BY <2>2 DEF TagHeard
  <2>4. ASSUME NEW i \in 1..n - 1 PROVE G[i].key # <<"time">>
    <3>1. i = 1 /\ n = 2
      OBVIOUS
    <3>2. G[1] = TagHeard("msgid", tags[1].value)
      BY <1>2, <2>1, <3>1
    <3>3. G[1].key = <<"msgid">>
      BY <3>2 DEF TagHeard
    <3> QED BY <3>1, <3>3, ValuesAreLines
  <2> HIDE DEF G
  <2>5. TimeOf(G) = IF G[n].value = NULL THEN "now" ELSE G[n].value
    <3>1. n \in Nat \ {0}
      OBVIOUS
    <3> QED BY <2>1, <2>3, <2>4, <3>1, TimeAt
  <2>6. TimeHeard(tags) = IF v = <<>> THEN "now" ELSE v
    BY <1>2 DEF TimeHeard, Last
  <2>7. v # NULL /\ v \in Lines
    BY ValuesAreLines
  <2>8. TimeOf(G) = TimeHeard(tags)
    BY <2>3, <2>5, <2>6, <2>7
  <2>9. TimeHeard(tags) \in Lines \cup {"now"}
    BY <2>6, <2>7
  <2> QED BY <2>8, <2>9 DEF G
<1>3. CASE tags \in {<<[key |-> "time", value |-> v]>> : v \in TagValues}
  <2>1. PICK v \in TagValues : tags = <<[key |-> "time", value |-> v]>>
    BY <1>3
  <2>2. Len(tags) = 1 /\ tags # <<>> /\ tags[1].key = "time" /\ tags[1].value = v
    BY <2>1
  <2> QED BY <1>2, <2>2
<1>4. CASE tags \in {<<[key |-> "msgid", value |-> v], [key |-> "time", value |-> w]>> : v, w \in TagValues}
  <2>1. PICK v, w \in TagValues : tags = <<[key |-> "msgid", value |-> v], [key |-> "time", value |-> w]>>
    BY <1>4
  <2>2. /\ Len(tags) = 2 /\ tags # <<>> /\ tags[1].key = "msgid"
        /\ tags[2].key = "time" /\ tags[2].value = w
    BY <2>1
  <2> QED BY <1>2, <2>2
<1> QED BY <1>1, <1>3, <1>4 DEF TagLists

-----------------------------------------------------------------------------
(* A CTCP message: its command and the words behind it. *)
CtcpRest(x) == LET words == SubSeq(x, 3, Len(x) - 1)
               IN  IF Len(words) < 2 THEN <<>> ELSE Tail(words)

LEMMA CtcpRead ==
  ASSUME NEW x \in Lines, IsCtcp(x), CtcpNamed(x)
  PROVE  /\ Token(SubSeq(x, 2, Len(x) - 1), SPACE) = <<x[2]>>
         /\ Rest(SubSeq(x, 2, Len(x) - 1), SPACE) = CtcpRest(x)
         /\ <<x[2]>> \in Lines /\ CtcpRest(x) \in Lines
         /\ (CtcpRest(x) = <<>>) <=> (Len(SubSeq(x, 3, Len(x) - 1)) < 2)
<1>1. PICK n \in Nat : n = Len(x) /\ n > 2
  BY LenProperties DEF CtcpNamed, Lines
<1>2. x \in Seq(Chars) /\ x[2] \in Chars /\ x[2] # SPACE
  BY <1>1, ElementOfSeq DEF CtcpNamed, Lines
<1>3. <<x[2]>> \in Lines
  BY <1>2, OneToken
<1>4. PICK inner : inner = SubSeq(x, 2, n - 1)
  OBVIOUS
<1>5. inner \in Seq(Chars) /\ Len(inner) = n - 2 /\ \A j \in 1..n - 2 : inner[j] = x[j + 1]
  <2>1. 2 \in 1..Len(x) + 1 /\ n - 1 \in 0..Len(x) /\ 2 <= n - 1 + 1 /\ n - 1 - 2 + 1 = n - 2
        /\ \A j \in 1..n - 2 : 2 + j - 1 = j + 1
    BY <1>1
  <2>2. /\ SubSeq(x, 2, n - 1) \in Seq(Chars) /\ Len(SubSeq(x, 2, n - 1)) = n - 1 - 2 + 1
        /\ \A j \in 1..n - 1 - 2 + 1 : SubSeq(x, 2, n - 1)[j] = x[2 + j - 1]
    BY <1>2, <2>1, SubSeqIs
  <2> QED BY <1>4, <2>1, <2>2
<1>6. PICK words : words = SubSeq(x, 3, n - 1)
  OBVIOUS
<1>7. words \in Seq(Chars) /\ Len(words) = n - 3 /\ \A j \in 1..n - 3 : words[j] = x[j + 2]
  <2>1. 3 \in 1..Len(x) + 1 /\ n - 1 \in 0..Len(x) /\ 3 <= n - 1 + 1 /\ n - 1 - 3 + 1 = n - 3
        /\ \A j \in 1..n - 3 : 3 + j - 1 = j + 2
    BY <1>1
  <2>2. /\ SubSeq(x, 3, n - 1) \in Seq(Chars) /\ Len(SubSeq(x, 3, n - 1)) = n - 1 - 3 + 1
        /\ \A j \in 1..n - 1 - 3 + 1 : SubSeq(x, 3, n - 1)[j] = x[3 + j - 1]
    BY <1>2, <2>1, SubSeqIs
  <2> QED BY <1>6, <2>1, <2>2
<1>8. CtcpRest(x) = IF Len(words) < 2 THEN <<>> ELSE Tail(words)
  BY <1>1, <1>6, Zenon DEF CtcpRest
<1>9. inner[1] = x[2]
  BY <1>1, <1>5
<1>10. CASE n = 3
  <2>1. inner # <<>> /\ Len(inner) = 1 /\ \A j \in 1..Len(inner) : inner[j] # SPACE
    <3>1. Len(inner) = 1
      BY <1>5, <1>10
    <3>2. inner # <<>>
      BY <1>5, <3>1, EmptySeq
    <3>3. \A j \in 1..1 : j = 1
      OBVIOUS
    <3> QED BY <1>2, <1>9, <3>1, <3>2, <3>3
  <2>2. Token(inner, SPACE) = inner /\ Rest(inner, SPACE) = <<>>
    BY <1>5, <2>1, TokenAlone
  <2>3. inner = <<x[2]>>
    <3>1. <<x[2]>> \in Seq(Chars) /\ Len(<<x[2]>>) = 1 /\ <<x[2]>>[1] = x[2]
      BY <1>2
    <3>2. PICK o : o = <<x[2]>>
      OBVIOUS
    <3>3. \A j \in 1..Len(inner) : inner[j] = o[j]
      BY <1>9, <2>1, <3>1, <3>2
    <3> QED BY <1>5, <2>1, <3>1, <3>2, <3>3, SeqEqual
  <2>4. CtcpRest(x) = <<>> /\ Len(words) < 2
    BY <1>7, <1>8, <1>10
  <2> QED BY <1>1, <1>3, <1>4, <1>6, <2>2, <2>3, <2>4, EmptyLine
<1>11. CASE n > 3
  <2>1. inner[2] = SPACE
    BY <1>1, <1>5, <1>11 DEF CtcpNamed
  <2>2. 2 \in 2..Len(inner) /\ \A j \in 1..2 - 1 : inner[j] # SPACE
    <3>1. Len(inner) \in Nat /\ Len(inner) >= 2
      BY <1>1, <1>5, <1>11
    <3>2. \A j \in 1..2 - 1 : j = 1
      OBVIOUS
    <3> QED BY <1>2, <1>9, <3>1, <3>2
  <2>3. Token(inner, SPACE) = SubSeq(inner, 1, 1) /\ Rest(inner, SPACE) = From(inner, 3)
    <3>1. PICK k \in 2..Len(inner) : k = 2
      BY <2>2
    <3>2. inner[k] = SPACE /\ \A j \in 1..k - 1 : inner[j] # SPACE
      BY <2>1, <2>2, <3>1
    <3>3. Token(inner, SPACE) = SubSeq(inner, 1, k - 1) /\ Rest(inner, SPACE) = From(inner, k + 1)
      BY <1>5, <3>2, TokenIs
    <3>4. k - 1 = 1 /\ k + 1 = 3
      BY <3>1
    <3> QED BY <3>3, <3>4
  <2>4. SubSeq(inner, 1, 1) = <<x[2]>>
    <3>1. 1 \in 1..Len(inner) + 1 /\ 1 \in 0..Len(inner)
      BY <1>1, <1>5, <1>11
    <3>2. PICK h : h = SubSeq(inner, 1, 1)
      OBVIOUS
    <3>3. h \in Seq(Chars) /\ Len(h) = 1 /\ h[1] = inner[1]
      BY <1>5, <3>1, <3>2, SubSeqIs
    <3>4. PICK o : o = <<x[2]>>
      OBVIOUS
    <3>5. o \in Seq(Chars) /\ Len(o) = 1 /\ o[1] = x[2]
      BY <1>2, <3>4
    <3>6. \A j \in 1..Len(h) : h[j] = o[j]
      BY <1>9, <3>3, <3>5
    <3>7. h = o
      BY <3>3, <3>5, <3>6, SeqEqual
    <3> QED BY <3>2, <3>4, <3>7
  <2>5. PICK r : r = From(inner, 3)
    OBVIOUS
  <2>6. r \in Seq(Chars) /\ Len(r) = n - 4 /\ \A j \in 1..n - 4 : r[j] = x[j + 3]
    <3>1. 3 \in 1..Len(inner) + 1 /\ Len(inner) - 3 + 1 = n - 4
      BY <1>1, <1>5, <1>11
    <3>2. /\ From(inner, 3) \in Seq(Chars) /\ Len(From(inner, 3)) = n - 4
          /\ \A j \in 1..n - 4 : From(inner, 3)[j] = inner[3 + j - 1]
      BY <1>5, <3>1, FromIs
    <3>3. \A j \in 1..n - 4 : 3 + j - 1 \in 1..n - 2 /\ 3 + j - 1 + 1 = j + 3
      BY <1>1
    <3> QED BY <1>5, <2>5, <3>2, <3>3
  <2>7. CASE n = 4
    <3>1. r = <<>> /\ Len(words) < 2
      BY <1>7, <2>6, <2>7, EmptySeq
    <3>2. CtcpRest(x) = <<>>
      BY <1>8, <3>1
    <3> QED BY <1>1, <1>3, <1>4, <1>6, <2>3, <2>4, <2>5, <3>1, <3>2, EmptyLine
  <2>8. CASE n > 4
    <3>1. ~(Len(words) < 2) /\ words # <<>>
      BY <1>1, <1>7, <2>8
    <3>2. PICK t : t = Tail(words)
      OBVIOUS
    <3>3. t \in Seq(Chars) /\ Len(t) = n - 4 /\ \A j \in 1..n - 4 : t[j] = words[j + 1]
      <4>1. t \in Seq(Chars) /\ Len(t) = Len(words) - 1 /\ \A j \in 1..Len(t) : t[j] = words[j + 1]
        BY <1>7, <3>1, <3>2, HeadTailProperties
      <4>2. Len(t) = n - 4
        BY <1>1, <1>7, <4>1
      <4> QED BY <4>1, <4>2
    <3>4. \A j \in 1..n - 4 : j + 1 \in 1..n - 3 /\ j + 1 + 2 = j + 3
      BY <1>1
    <3>5. \A j \in 1..Len(r) : r[j] = t[j]
      BY <1>7, <2>6, <3>3, <3>4
    <3>6. r = t
      BY <2>6, <3>3, <3>5, SeqEqual
    <3>7. CtcpRest(x) = t /\ t # <<>> /\ t \in Lines
      <4>1. Len(t) # 0
        BY <1>1, <2>8, <3>3
      <4> QED BY <1>8, <3>1, <3>2, <3>3, <4>1 DEF Lines
    <3> QED BY <1>1, <1>3, <1>4, <1>6, <2>3, <2>4, <2>5, <3>1, <3>6, <3>7
  <2> QED BY <1>1, <1>11, <2>7, <2>8
<1> QED BY <1>1, <1>10, <1>11

-----------------------------------------------------------------------------
(* The call for a message. *)
Heard(m) == Dispatch(Understood(m))

AreParams(ps, ms, x) == ps = Append(ms, x)

LEMMA ParamsAre ==
  ASSUME NEW ms \in Seq(Lines), NEW x \in Lines, NEW ps, AreParams(ps, ms, x)
  PROVE  /\ ps \in Seq(Lines) /\ Len(ps) = Len(ms) + 1 /\ ps[Len(ps)] = x /\ Front(ps) = ms
         /\ (Len(ms) = 1 => Len(ps) = 2 /\ ps[2] = x)
<1>1. PICK n \in Nat : n = Len(ms)
  BY LenProperties
<1>2. ps \in Seq(Lines) /\ Len(ps) = n + 1 /\ ps[n + 1] = x /\ \A i \in 1..n : ps[i] = ms[i]
  BY <1>1, AppendProperties DEF AreParams
<1>3. Front(ps) = ms
  <2>1. Front(ps) = SubSeq(ps, 1, n)
    <3>1. Len(ps) - 1 = n
      BY <1>2
    <3> QED BY <3>1 DEF Front
  <2>2. PICK f : f = SubSeq(ps, 1, n)
    OBVIOUS
  <2>3. f \in Seq(Lines) /\ Len(f) = n /\ \A i \in 1..n : f[i] = ps[i]
    <3>1. 1 \in 1..Len(ps) + 1 /\ n \in 0..Len(ps) /\ 1 <= n + 1 /\ n - 1 + 1 = n
          /\ \A i \in 1..n : 1 + i - 1 = i
      BY <1>2
    <3>2. /\ SubSeq(ps, 1, n) \in Seq(Lines) /\ Len(SubSeq(ps, 1, n)) = n - 1 + 1
          /\ \A i \in 1..n - 1 + 1 : SubSeq(ps, 1, n)[i] = ps[1 + i - 1]
      BY <1>2, <3>1, SubSeqIs
    <3> QED BY <2>2, <3>1, <3>2
  <2>4. \A i \in 1..Len(f) : f[i] = ms[i]
    BY <1>2, <2>3
  <2>5. f = ms
    BY <1>1, <2>3, <2>4, SeqEqual
  <2> QED BY <2>1, <2>2, <2>5
<1>4. ASSUME n = 1 PROVE Len(ps) = 2 /\ ps[2] = x
  BY <1>2, <1>4
<1> QED BY <1>1, <1>2, <1>3, <1>4

HandlersTyped == \A cmd \in CommandWords : \A ps : Handlers(cmd, ps) \in Seq(HandlerNames)

LEMMA HandlersAreNames == HandlersTyped
<1> SUFFICES ASSUME NEW cmd \in CommandWords, NEW ps PROVE Handlers(cmd, ps) \in Seq(HandlerNames)
  BY DEF HandlersTyped
<1>1. cmd \in Numerics \cup Named \cup Talk \cup {"PING", "MODE"}
  BY DEF CommandWords
<1>2. CASE cmd = "001"
  BY <1>2 DEF Handlers, HandlerNames
<1>3. CASE cmd \in Numerics \ {"001"}
  <2>1. <<"umode">> \in Seq(HandlerNames) /\ <<"numeric">> \in Seq(HandlerNames)
    BY DEF HandlerNames
  <2>2. CASE cmd = "221"
    BY <2>1, <2>2 DEF Handlers
  <2>3. CASE cmd # "221"
    <3>1. Handlers(cmd, ps) = <<"numeric">>
      <4>1. cmd \in Numerics \ {"001", "221"} /\ cmd # "001" /\ cmd # "221"
        BY <1>3, <2>3
      <4>2. /\ cmd # "PRIVMSG" /\ cmd # "NOTICE" /\ cmd # "MODE" /\ cmd # "PING"
            /\ cmd # "XYZ"
        BY <4>1, Zenon DEF Numerics
      <4> QED BY <4>1, <4>2 DEF Handlers
    <3> QED BY <2>1, <3>1
  <2> QED BY <2>2, <2>3
<1>4. CASE cmd = "PRIVMSG"
  <2>1. cmd # "001" /\ cmd # "221" /\ cmd \notin Numerics
    BY <1>4, Zenon DEF Numerics
  <2>2. Handlers(cmd, ps) = IF IsChannel(ps[1]) THEN <<"channel">> ELSE <<"privmsg">>
    BY <1>4, <2>1 DEF Handlers
  <2>3. <<"channel">> \in Seq(HandlerNames) /\ <<"privmsg">> \in Seq(HandlerNames)
    BY DEF HandlerNames
  <2> QED BY <2>2, <2>3
<1>5. CASE cmd = "NOTICE"
  <2>1. cmd # "001" /\ cmd # "221" /\ cmd \notin Numerics
    BY <1>5, Zenon DEF Numerics
  <2>2. Handlers(cmd, ps) = IF IsChannel(ps[1]) THEN <<"channel_notice">> ELSE <<"notice">>
    BY <1>5, <2>1 DEF Handlers
  <2>3. <<"channel_notice">> \in Seq(HandlerNames) /\ <<"notice">> \in Seq(HandlerNames)
    BY DEF HandlerNames
  <2> QED BY <2>2, <2>3
<1>6. CASE cmd = "MODE"
  <2>1. cmd # "001" /\ cmd # "221" /\ cmd \notin Numerics
    BY <1>6, Zenon DEF Numerics
  <2>2. Handlers(cmd, ps) = IF IsChannel(ps[1]) THEN <<"mode">> ELSE <<"umode">>
    BY <1>6, <2>1 DEF Handlers
  <2>3. <<"mode">> \in Seq(HandlerNames) /\ <<"umode">> \in Seq(HandlerNames)
    BY DEF HandlerNames
  <2> QED BY <2>2, <2>3
<1>7. CASE cmd = "PING"
  BY <1>7 DEF Handlers, HandlerNames, Numerics
<1>8. CASE cmd \in Named
  <2>1. CASE cmd = "XYZ"
    BY <2>1 DEF Handlers, HandlerNames, Numerics
  <2>2. CASE cmd # "XYZ"
    <3>1. cmd \notin Numerics /\ cmd \notin {"PRIVMSG", "NOTICE", "MODE", "PING"}
      BY <1>8, ZenonT(60) DEF Named, Numerics
    <3>2. cmd # "001" /\ cmd # "221"
      BY <3>1 DEF Numerics
    <3>3. Handlers(cmd, ps) = <<cmd>>
      BY <2>2, <3>1, <3>2 DEF Handlers
    <3>4. cmd \in HandlerNames
      BY <1>8 DEF HandlerNames
    <3> QED BY <3>3, <3>4
  <2> QED BY <2>1, <2>2
<1> QED BY <1>1, <1>2, <1>3, <1>4, <1>5, <1>6, <1>7, <1>8 DEF Talk

OriginOf(s) == IF Len(s) > 1 THEN <<s[1]>> ELSE s

LEMMA OriginIs ==
  ASSUME NEW s \in Sources
  PROVE  /\ (IF NickHeard(s) # NULL THEN NickHeard(s) ELSE s) = OriginOf(s)
         /\ OriginOf(s) \in Lines /\ NickHeard(s) \in Lines \cup {NULL}
<1>1. s \in Lines
  BY SourceRead
<1>2. CASE Len(s) > 1
  <2>1. s[1] \in Chars
    BY <1>1, <1>2, LenProperties, ElementOfSeq DEF Lines
  <2>2. <<s[1]>> \in Lines
    BY <2>1, OneToken
  <2>3. <<s[1]>> # NULL
    BY <2>2, NullIsNoValue
  <2> QED BY <1>2, <2>2, <2>3 DEF NickHeard, OriginOf
<1>3. CASE ~(Len(s) > 1)
  BY <1>1, <1>3 DEF NickHeard, OriginOf
<1> QED BY <1>2, <1>3

(* The call for a message m. *)
CallFor(m) ==
  IF m.cmd \in Talk /\ IsCtcp(m.last)
    THEN Call(<<IF m.cmd = "PRIVMSG" THEN "ctcp_req" ELSE "ctcp_rsp">>, <<m.last[2]>>,
              OriginOf(m.source),
              IF CtcpRest(m.last) = <<>> THEN m.middles ELSE Append(m.middles, CtcpRest(m.last)),
              TimeHeard(m.tags), NULL)
    ELSE Call(Handlers(m.cmd, Append(m.middles, m.last)), <<m.cmd>>, OriginOf(m.source),
              Append(m.middles, m.last), TimeHeard(m.tags),
              IF m.cmd = "PING" THEN Pong(m.last) ELSE NULL)

LEMMA HeardIs ==
  ASSUME NEW m, Grammatical(m)
  PROVE  Heard(m) = CallFor(m)
<1>1. /\ m.tags = <<>> \/ m.tags \in TagLists
      /\ m.source \in Sources /\ m.cmd \in CommandWords /\ m.middles \in Seq(Lines)
      /\ (m.cmd \in Talk => Len(m.middles) = 1) /\ m.last \in Lines /\ CtcpNamed(m.last)
  BY DEF Grammatical
<1>2. PICK u : u = Understood(m)
  OBVIOUS
<1>3. PICK ps : ps = Append(m.middles, m.last)
  OBVIOUS
<1>4. /\ u.tags = TagsHeard(m.tags) /\ u.prefix = m.source /\ u.nick = NickHeard(m.source)
      /\ u.cmd = <<m.cmd>> /\ u.params = ps
  BY <1>2, <1>3 DEF Understood
<1>5. /\ ps \in Seq(Lines) /\ Len(ps) \in Nat /\ ps[Len(ps)] = m.last /\ Front(ps) = m.middles
      /\ (m.cmd \in Talk => Len(ps) = 2 /\ ps[2] = m.last)
  <2>1. PICK ms \in Seq(Lines) : ms = m.middles
    BY <1>1
  <2>2. PICK x \in Lines : x = m.last
    BY <1>1
  <2>4. AreParams(ps, ms, x)
    BY <1>3, <2>1, <2>2, Zenon DEF AreParams
  <2>3. /\ ps \in Seq(Lines) /\ ps[Len(ps)] = x /\ Front(ps) = ms
        /\ (Len(ms) = 1 => Len(ps) = 2 /\ ps[2] = x)
    BY <2>4, ParamsAre
  <2> QED BY <1>1, <2>1, <2>2, <2>3, LenProperties
<1>6. (IF u.nick # NULL THEN u.nick ELSE u.prefix) = OriginOf(m.source)
  BY <1>1, <1>4, OriginIs
<1>7. TimeOf(u.tags) = TimeHeard(m.tags)
  BY <1>1, <1>4, TimeRead
<1>8. ~(NULL \in ToSet(ps) \/ (m.cmd \in Talk /\ Len(ps) < 2))
  <2>1. NULL \notin ToSet(ps)
    BY <1>5, NullIsNoValue, LenProperties, ElementOfSeq DEF ToSet
  <2> QED BY <1>5, <2>1
<1>13. Verb(u.cmd) = m.cmd
  BY <1>4 DEF Verb
<1> DEFINE D(origin, time) ==
      IF NULL \in ToSet(ps) \/ (m.cmd \in Talk /\ Len(ps) < 2) THEN NULL
      ELSE IF m.cmd \in Talk /\ IsCtcp(ps[2]) THEN CtcpCall(m.cmd, origin, ps, time)
      ELSE Call(Handlers(m.cmd, ps), <<m.cmd>>, origin, ps, time,
                IF m.cmd = "PING" THEN Pong(ps[Len(ps)]) ELSE NULL)
<1>9. Dispatch(u) = D(IF u.nick # NULL THEN u.nick ELSE u.prefix, TimeOf(u.tags))
  BY <1>4, <1>13, Zenon DEF Dispatch
<1>10. Heard(m) = D(OriginOf(m.source), TimeHeard(m.tags))
  BY <1>2, <1>6, <1>7, <1>9, Zenon DEF Heard
<1>11. CASE m.cmd \in Talk /\ IsCtcp(m.last)
  <2>1. D(OriginOf(m.source), TimeHeard(m.tags))
          = CtcpCall(m.cmd, OriginOf(m.source), ps, TimeHeard(m.tags))
    BY <1>5, <1>8, <1>11, Zenon
  <2>2. /\ Token(SubSeq(m.last, 2, Len(m.last) - 1), SPACE) = <<m.last[2]>>
        /\ Rest(SubSeq(m.last, 2, Len(m.last) - 1), SPACE) = CtcpRest(m.last)
    BY <1>1, <1>11, CtcpRead
  <2> DEFINE C(origin, time, x) ==
        Call(IF m.cmd = "PRIVMSG" THEN <<"ctcp_req">> ELSE <<"ctcp_rsp">>,
             Token(SubSeq(x, 2, Len(x) - 1), SPACE), origin,
             IF Rest(SubSeq(x, 2, Len(x) - 1), SPACE) = <<>> THEN Front(ps)
             ELSE Append(Front(ps), Rest(SubSeq(x, 2, Len(x) - 1), SPACE)), time, NULL)
  <2>3. CtcpCall(m.cmd, OriginOf(m.source), ps, TimeHeard(m.tags))
          = C(OriginOf(m.source), TimeHeard(m.tags), ps[Len(ps)])
    BY Zenon DEF CtcpCall
  <2>4. C(OriginOf(m.source), TimeHeard(m.tags), m.last)
          = Call(IF m.cmd = "PRIVMSG" THEN <<"ctcp_req">> ELSE <<"ctcp_rsp">>, <<m.last[2]>>,
                 OriginOf(m.source),
                 IF CtcpRest(m.last) = <<>> THEN m.middles ELSE Append(m.middles, CtcpRest(m.last)),
                 TimeHeard(m.tags), NULL)
    BY <1>5, <2>2, Zenon
  <2>5. (IF m.cmd = "PRIVMSG" THEN <<"ctcp_req">> ELSE <<"ctcp_rsp">>)
          = <<IF m.cmd = "PRIVMSG" THEN "ctcp_req" ELSE "ctcp_rsp">>
    OBVIOUS
  <2> HIDE DEF C, D
  <2>6. Heard(m) = Call(IF m.cmd = "PRIVMSG" THEN <<"ctcp_req">> ELSE <<"ctcp_rsp">>, <<m.last[2]>>,
                 OriginOf(m.source),
                 IF CtcpRest(m.last) = <<>> THEN m.middles ELSE Append(m.middles, CtcpRest(m.last)),
                 TimeHeard(m.tags), NULL)
    BY <1>5, <1>10, <2>1, <2>3, <2>4, Zenon
  <2> QED BY <1>11, <2>5, <2>6, Zenon DEF CallFor
<1>12. CASE ~(m.cmd \in Talk /\ IsCtcp(m.last))
  <2>1. ~(m.cmd \in Talk /\ IsCtcp(ps[2]))
    BY <1>5, <1>12, Zenon
  <2>2. D(OriginOf(m.source), TimeHeard(m.tags))
          = Call(Handlers(m.cmd, ps), <<m.cmd>>, OriginOf(m.source), ps, TimeHeard(m.tags),
                 IF m.cmd = "PING" THEN Pong(ps[Len(ps)]) ELSE NULL)
    BY <1>8, <2>1, Zenon
  <2> HIDE DEF D
  <2>3. Heard(m) = Call(Handlers(m.cmd, ps), <<m.cmd>>, OriginOf(m.source), ps, TimeHeard(m.tags),
                 IF m.cmd = "PING" THEN Pong(m.last) ELSE NULL)
    BY <1>5, <1>10, <2>2, Zenon
  <2> QED BY <1>3, <1>12, <2>3, Zenon DEF CallFor
<1> QED BY <1>11, <1>12

HeardTags == [key : Lines, value : Lines \cup {NULL}]

LEMMA TagsTyped ==
  ASSUME NEW tags, tags = <<>> \/ tags \in TagLists
  PROVE  TagsHeard(tags) \in Seq(HeardTags)
<1>1. ASSUME NEW k \in TagKeys, NEW v \in TagValues PROVE TagHeard(k, v) \in HeardTags
  <2>1. <<k>> \in Lines
    BY KeysPlain, OneToken DEF UnescapedChars
  <2>2. v \in Lines
    BY ValuesAreLines
  <2> QED BY <2>1, <2>2 DEF TagHeard, HeardTags
<1>2. CASE tags = <<>>
  BY <1>2 DEF TagsHeard
<1>3. ASSUME NEW n \in Nat, Len(tags) = n,
             \A i \in 1..n : tags[i].key \in TagKeys /\ tags[i].value \in TagValues
      PROVE  TagsHeard(tags) \in Seq(HeardTags)
  <2>1. TagsHeard(tags) = [i \in 1..n |-> TagHeard(tags[i].key, tags[i].value)]
    BY <1>3, Zenon DEF TagsHeard
  <2>2. \A i \in 1..n : TagHeard(tags[i].key, tags[i].value) \in HeardTags
    BY <1>1, <1>3
  <2> QED BY <2>1, <2>2
<1>4. CASE tags \in {<<[key |-> "time", value |-> v]>> : v \in TagValues}
  <2>1. PICK v \in TagValues : tags = <<[key |-> "time", value |-> v]>>
    BY <1>4
  <2>2. Len(tags) = 1 /\ tags[1].key = "time" /\ tags[1].value = v
    BY <2>1
  <2>3. \A i \in 1..1 : i = 1
    OBVIOUS
  <2>4. \A i \in 1..1 : tags[i].key \in TagKeys /\ tags[i].value \in TagValues
    BY <2>2, <2>3 DEF TagKeys
  <2> QED BY <1>3, <2>2, <2>4
<1>5. CASE tags \in {<<[key |-> "msgid", value |-> v], [key |-> "time", value |-> w]>> : v, w \in TagValues}
  <2>1. PICK v, w \in TagValues : tags = <<[key |-> "msgid", value |-> v], [key |-> "time", value |-> w]>>
    BY <1>5
  <2>2. /\ Len(tags) = 2 /\ tags[1].key = "msgid" /\ tags[1].value = v
        /\ tags[2].key = "time" /\ tags[2].value = w
    BY <2>1
  <2>3. \A i \in 1..2 : i = 1 \/ i = 2
    OBVIOUS
  <2>4. \A i \in 1..2 : tags[i].key \in TagKeys /\ tags[i].value \in TagValues
    BY <2>2, <2>3 DEF TagKeys
  <2> QED BY <1>3, <2>2, <2>4
<1> QED BY <1>2, <1>4, <1>5 DEF TagLists

LEMMA UnderstoodTyped ==
  ASSUME NEW m, Grammatical(m)
  PROVE  Understood(m) \in ParsedMessages /\ Understood(m) # NULL
<1>1. /\ m.tags = <<>> \/ m.tags \in TagLists
      /\ m.source \in Sources /\ m.cmd \in CommandWords /\ m.middles \in Seq(Lines)
      /\ m.last \in Lines
  BY DEF Grammatical
<1>2. TagsHeard(m.tags) \in Seq([key : Lines, value : Lines \cup {NULL}])
  BY <1>1, TagsTyped DEF HeardTags
<1>3. m.source \in Lines /\ NickHeard(m.source) \in Lines \cup {NULL}
  BY <1>1, SourceRead, OriginIs
<1>4. <<m.cmd>> \in Lines
  BY <1>1, CommandsAreWords, OneToken
<1>5. Append(m.middles, m.last) \in Seq(Lines \cup {NULL})
  <2>1. Append(m.middles, m.last) \in Seq(Lines)
    BY <1>1, AppendProperties
  <2> QED BY <2>1, SeqMonotonic
<1>6. Understood(m) \in ParsedMessages
  BY <1>2, <1>3, <1>4, <1>5 DEF Understood, ParsedMessages
<1> QED BY <1>6, NullIsNoValue

(* A message whose line gives a parameter that is none is not heard. *)
LEMMA LostUnheard ==
  ASSUME NEW tags, NEW prefix, NEW word, NEW x
  PROVE  Dispatch(ParsedAs(tags, prefix, word, <<NULL, x>>)) = NULL
<1>1. PICK ps : ps = <<NULL, x>>
  OBVIOUS
<1>2. NULL \in ToSet(ps)
  <2>1. 1 \in DOMAIN ps /\ ps[1] = NULL
    BY <1>1
  <2> QED BY <2>1 DEF ToSet
<1>3. ParsedAs(tags, prefix, word, ps).params = ps
  BY DEF ParsedAs
<1> QED BY <1>1, <1>2, <1>3, Zenon DEF Dispatch

(* A message heard as another. *)
AstrayCall(m) ==
  Call(<<"unknown">>, <<":">> \o m.source, <<>>, <<<<m.cmd>>>> \o Meant(m), TimeMeant(m), NULL)

LEMMA AstrayHeard ==
  ASSUME NEW m, Grammatical(m), m.source # <<>>, NEW u,
         u = ParsedAs(m.tags, <<>>, <<":">> \o m.source, Append(<<<<m.cmd>>>> \o m.middles, m.last))
  PROVE  u \in ParsedMessages /\ Dispatch(u) = AstrayCall(m) /\ AstrayCall(m) \in Calls
<1>1. /\ m.tags = <<>> \/ m.tags \in TagLists
      /\ m.source \in Sources /\ m.cmd \in CommandWords /\ m.middles \in Seq(Lines)
      /\ m.last \in Lines
  BY DEF Grammatical
<1>2. PICK source \in Lines : source = m.source
  BY <1>1, SourceRead
<1>3. PICK word \in Lines : word = <<":">> \o source
  BY <1>2, Marks, OneToken, Glued
<1>4. Verb(word) = "XYZ"
  <2>1. Len(word) = Len(source) + 1
    <3>1. source \in Seq(Chars)
      BY DEF Lines
    <3> QED BY <1>3, <3>1, Marks, BehindColon
  <2>2. Len(source) \in Nat \ {0}
    BY <1>2, EmptySeq DEF Lines
  <2>3. Len(word) # 1
    BY <2>1, <2>2
  <2> QED BY <2>3 DEF Verb
<1>5. PICK k \in Lines : k = <<m.cmd>>
  BY <1>1, CommandsAreWords, OneToken
<1>6. PICK ms \in Seq(Lines) : ms = m.middles
  BY <1>1
<1>7. PICK t \in Lines : t = m.last
  BY <1>1
<1>8. PICK both \in Seq(Lines) : both = <<k>> \o ms
  <2>1. <<k>> \in Seq(Lines)
    BY Singly
  <2> QED BY <2>1, ConcatProperties
<1>9. PICK ps : ps = Append(both, t)
  OBVIOUS
<1>10. ps \in Seq(Lines) /\ Len(ps) \in Nat
  <2>1. Append(both, t) \in Seq(Lines)
    BY AppendProperties
  <2> QED BY <1>9, <2>1, LenProperties
<1>11. ps = <<<<m.cmd>>>> \o Meant(m)
  <2>1. PICK a \in Seq(Lines) : a = <<k>>
    BY Singly
  <2>2. PICK z \in Seq(Lines) : z = <<t>>
    BY Singly
  <2>3. (a \o ms) \o z = a \o (ms \o z)
    BY ConcatAssociative
  <2>4. Append(both, t) = both \o z /\ Append(ms, t) = ms \o z
    BY <2>2, AppendIsConcat
  <2>5. Meant(m) = Append(ms, t)
    BY <1>6, <1>7, NullIsNoValue DEF Meant
  <2> QED BY <1>5, <1>8, <1>9, <2>1, <2>3, <2>4, <2>5
<1>12. u = ParsedAs(m.tags, <<>>, word, ps)
  BY <1>2, <1>3, <1>5, <1>6, <1>7, <1>8, <1>9
<1>13. /\ u.tags = TagsHeard(m.tags) /\ u.prefix = <<>> /\ u.nick = NickHeard(<<>>)
       /\ u.cmd = word /\ u.params = ps
  BY <1>12 DEF ParsedAs
<1>14. NickHeard(<<>>) = NULL
  BY DEF NickHeard
<1>15. TimeOf(u.tags) = TimeMeant(m) /\ TimeMeant(m) \in Lines \cup {"now"}
  <2>1. TimeMeant(m) = TimeHeard(m.tags)
    BY Zenon DEF TimeMeant, TimeHeard
  <2> QED BY <1>1, <1>13, <2>1, TimeRead
<1>16. NULL \notin ToSet(ps)
  BY <1>10, NullIsNoValue, LenProperties, ElementOfSeq DEF ToSet
<1>17. "XYZ" \notin Talk /\ "XYZ" # "PING"
  BY DEF Talk
<1>18. Handlers("XYZ", ps) = <<"unknown">>
  <2>1. "XYZ" # "001" /\ "XYZ" # "221" /\ "XYZ" \notin Numerics /\ "XYZ" # "MODE"
        /\ "XYZ" # "PRIVMSG" /\ "XYZ" # "NOTICE"
    BY Zenon DEF Numerics
  <2> QED BY <1>17, <2>1 DEF Handlers
<1> DEFINE D(origin, time, cmd) ==
      IF NULL \in ToSet(ps) \/ (cmd \in Talk /\ Len(ps) < 2) THEN NULL
      ELSE IF cmd \in Talk /\ IsCtcp(ps[2]) THEN CtcpCall(cmd, origin, ps, time)
      ELSE Call(Handlers(cmd, ps), word, origin, ps, time,
                IF cmd = "PING" THEN Pong(ps[Len(ps)]) ELSE NULL)
<1>19. Dispatch(u) = D(IF u.nick # NULL THEN u.nick ELSE u.prefix, TimeOf(u.tags), Verb(u.cmd))
  BY <1>13, Zenon DEF Dispatch
<1>20. Dispatch(u) = D(<<>>, TimeMeant(m), "XYZ")
  BY <1>4, <1>13, <1>14, <1>15, <1>19, Zenon
<1>21. D(<<>>, TimeMeant(m), "XYZ") = Call(<<"unknown">>, word, <<>>, ps, TimeMeant(m), NULL)
  BY <1>16, <1>17, <1>18, Zenon
<1> HIDE DEF D
<1>22. AstrayCall(m) = Call(<<"unknown">>, word, <<>>, ps, TimeMeant(m), NULL)
  BY <1>2, <1>3, <1>11, Zenon DEF AstrayCall
<1>23. u \in ParsedMessages
  <2>1. TagsHeard(m.tags) \in Seq([key : Lines, value : Lines \cup {NULL}])
    BY <1>1, TagsTyped DEF HeardTags
  <2>2. ps \in Seq(Lines \cup {NULL})
    BY <1>10, SeqMonotonic
  <2>3. PICK tags : tags = TagsHeard(m.tags)
    OBVIOUS
  <2>4. u = [tags |-> tags, prefix |-> <<>>, nick |-> NULL, cmd |-> word, params |-> ps]
    BY <1>12, <1>14, <2>3, Zenon DEF ParsedAs
  <2> QED BY <2>1, <2>2, <2>3, <2>4, EmptyLine DEF ParsedMessages
<1>24. AstrayCall(m) \in Calls
  <2>1. <<"unknown">> \in Seq(HandlerNames)
    BY Singly DEF HandlerNames
  <2> QED BY <1>10, <1>15, <1>22, <2>1, EmptyLine DEF Call, Calls
<1> QED BY <1>20, <1>21, <1>22, <1>23, <1>24

LEMMA AskedTyped ==
  ASSUME NEW m, Grammatical(m)
  PROVE  CallFor(m) \in Calls /\ CallFor(m) # NULL
<1>1. /\ m.tags = <<>> \/ m.tags \in TagLists
      /\ m.source \in Sources /\ m.cmd \in CommandWords /\ m.middles \in Seq(Lines)
      /\ m.last \in Lines /\ CtcpNamed(m.last)
  BY DEF Grammatical
<1>2. OriginOf(m.source) \in Lines /\ TimeHeard(m.tags) \in Lines \cup {"now"}
  BY <1>1, OriginIs, TimeRead
<1>3. CASE m.cmd \in Talk /\ IsCtcp(m.last)
  <2>1. PICK h : h = <<IF m.cmd = "PRIVMSG" THEN "ctcp_req" ELSE "ctcp_rsp">>
    OBVIOUS
  <2>2. h \in Seq(HandlerNames)
    BY <2>1 DEF HandlerNames
  <2>3. <<m.last[2]>> \in Lines /\ CtcpRest(m.last) \in Lines
    BY <1>1, <1>3, CtcpRead
  <2>4. PICK ps : ps = IF CtcpRest(m.last) = <<>> THEN m.middles ELSE Append(m.middles, CtcpRest(m.last))
    OBVIOUS
  <2>5. ps \in Seq(Lines)
    BY <1>1, <2>3, <2>4, AppendProperties
  <2>6. CallFor(m) = Call(h, <<m.last[2]>>, OriginOf(m.source), ps, TimeHeard(m.tags), NULL)
    BY <1>3, <2>1, <2>4, Zenon DEF CallFor
  <2>7. CallFor(m) \in Calls
    BY <1>2, <2>2, <2>3, <2>5, <2>6 DEF Call, Calls
  <2> QED BY <2>7, NullIsNoValue
<1>4. CASE ~(m.cmd \in Talk /\ IsCtcp(m.last))
  <2>1. PICK ps : ps = Append(m.middles, m.last)
    OBVIOUS
  <2>2. ps \in Seq(Lines)
    BY <1>1, <2>1, AppendProperties
  <2>3. Handlers(m.cmd, ps) \in Seq(HandlerNames)
    BY <1>1, HandlersAreNames DEF HandlersTyped
  <2>4. <<m.cmd>> \in Lines
    BY <1>1, CommandsAreWords, OneToken
  <2>5. PICK pong : pong = IF m.cmd = "PING" THEN Pong(m.last) ELSE NULL
    OBVIOUS
  <2>6. pong \in Lines \cup {NULL}
    BY <1>1, <2>5 DEF Pong
  <2>7. CallFor(m) = Call(Handlers(m.cmd, ps), <<m.cmd>>, OriginOf(m.source), ps, TimeHeard(m.tags), pong)
    BY <1>4, <2>1, <2>5, Zenon DEF CallFor
  <2>8. CallFor(m) \in Calls
    BY <1>2, <2>2, <2>3, <2>4, <2>6, <2>7 DEF Call, Calls
  <2> QED BY <2>8, NullIsNoValue
<1> QED BY <1>3, <1>4

(* What is heard of a message is what was asked, in the words of the       *)
(* property.                                                               *)
LEMMA AskedMeans ==
  ASSUME NEW m, Grammatical(m), NEW h, h = CallFor(m)
  PROVE  /\ h.origin = OriginOf(m.source) /\ h.time = TimeHeard(m.tags)
         /\ h.pong = (IF m.cmd = "PING" /\ m.last # <<>> THEN m.last ELSE NULL)
         /\ (m.cmd \in Talk /\ IsCtcp(m.last) =>
              /\ h.event = <<m.last[2]>>
              /\ h.handlers = <<IF m.cmd = "PRIVMSG" THEN "ctcp_req" ELSE "ctcp_rsp">>
              /\ h.params = IF Len(SubSeq(m.last, 3, Len(m.last) - 1)) < 2 THEN m.middles
                            ELSE Append(m.middles, Tail(SubSeq(m.last, 3, Len(m.last) - 1))))
         /\ (~(m.cmd \in Talk /\ IsCtcp(m.last)) =>
              /\ h.event = <<m.cmd>> /\ h.params = Meant(m)
              /\ h.handlers = Handlers(m.cmd, Meant(m)))
<1>1. CASE m.cmd \in Talk /\ IsCtcp(m.last)
  <2>1. m.cmd # "PING"
    BY <1>1 DEF Talk
  <2>2. h = Call(<<IF m.cmd = "PRIVMSG" THEN "ctcp_req" ELSE "ctcp_rsp">>, <<m.last[2]>>,
                 OriginOf(m.source),
                 IF CtcpRest(m.last) = <<>> THEN m.middles ELSE Append(m.middles, CtcpRest(m.last)),
                 TimeHeard(m.tags), NULL)
    BY <1>1, Zenon DEF CallFor
  <2>3. /\ h.origin = OriginOf(m.source) /\ h.time = TimeHeard(m.tags) /\ h.pong = NULL
        /\ h.event = <<m.last[2]>>
        /\ h.handlers = <<IF m.cmd = "PRIVMSG" THEN "ctcp_req" ELSE "ctcp_rsp">>
        /\ h.params = IF CtcpRest(m.last) = <<>> THEN m.middles ELSE Append(m.middles, CtcpRest(m.last))
    BY <2>2 DEF Call
  <2>4. m.last \in Lines /\ CtcpNamed(m.last)
    BY DEF Grammatical
  <2>5. (CtcpRest(m.last) = <<>>) <=> (Len(SubSeq(m.last, 3, Len(m.last) - 1)) < 2)
    BY <1>1, <2>4, CtcpRead
  <2>6. h.params = IF Len(SubSeq(m.last, 3, Len(m.last) - 1)) < 2 THEN m.middles
                   ELSE Append(m.middles, Tail(SubSeq(m.last, 3, Len(m.last) - 1)))
    <3>1. CASE Len(SubSeq(m.last, 3, Len(m.last) - 1)) < 2
      BY <2>3, <2>5, <3>1, Zenon
    <3>2. CASE ~(Len(SubSeq(m.last, 3, Len(m.last) - 1)) < 2)
      <4>1. CtcpRest(m.last) = Tail(SubSeq(m.last, 3, Len(m.last) - 1))
        BY <3>2, Zenon DEF CtcpRest
      <4> QED BY <2>3, <2>5, <3>2, <4>1, Zenon
    <3> QED BY <3>1, <3>2
  <2> QED BY <1>1, <2>1, <2>3, <2>6, Zenon
<1>2. CASE ~(m.cmd \in Talk /\ IsCtcp(m.last))
  <2>1. h = Call(Handlers(m.cmd, Append(m.middles, m.last)), <<m.cmd>>, OriginOf(m.source),
                 Append(m.middles, m.last), TimeHeard(m.tags),
                 IF m.cmd = "PING" THEN Pong(m.last) ELSE NULL)
    BY <1>2, Zenon DEF CallFor
  <2>2. /\ h.origin = OriginOf(m.source) /\ h.time = TimeHeard(m.tags)
        /\ h.pong = (IF m.cmd = "PING" THEN Pong(m.last) ELSE NULL)
        /\ h.event = <<m.cmd>> /\ h.handlers = Handlers(m.cmd, Append(m.middles, m.last))
        /\ h.params = Append(m.middles, m.last)
    BY <2>1 DEF Call
  <2>3. h.pong = (IF m.cmd = "PING" /\ m.last # <<>> THEN m.last ELSE NULL)
    BY <2>2, Zenon DEF Pong
  <2>4. Meant(m) = Append(m.middles, m.last)
    <3>1. m.last # NULL
      BY NullIsNoValue DEF Grammatical
    <3> QED BY <3>1, Zenon DEF Meant
  <2> QED BY <1>2, <2>2, <2>3, <2>4, Zenon
<1> QED BY <1>1, <1>2

-----------------------------------------------------------------------------
(* The line that is under way has the form that was chosen for what is     *)
(* meant, and what was heard is what that message asks for in its form.    *)
CallOf(m, f) ==
  IF Astray(m, f) THEN AstrayCall(m) ELSE IF Lost(m, f) THEN NULL ELSE CallFor(m)

WrittenAs(l, m, f) == f \in LineForms(m) /\ l # <<>> /\ l = Line(m, f)

IncomingInv ==
  \/ meant = NULL /\ written = NULL /\ line = <<>> /\ heard = NULL
  \/ meant \in Messages /\ heard = NULL /\ WrittenAs(line, meant, written)
  \/ /\ meant \in Messages /\ line = <<>>
     /\ written \in LineForms(meant) /\ heard = CallOf(meant, written)

LEMMA WrittenParsed ==
  ASSUME NEW m \in Messages, NEW f \in LineForms(m), NEW l, l = Line(m, f)
  PROVE  /\ l \in Lines /\ l # <<>> /\ CallOf(m, f) \in Calls \cup {NULL}
         /\ (IF Parse(l) = NULL THEN NULL ELSE Dispatch(Parse(l))) = CallOf(m, f)
<1>1. CASE Parameterless(m)
  <2>1. l \in Lines /\ l # <<>> /\ Parse(l) = NULL /\ Lost(m, f) /\ ~Astray(m, f)
    BY <1>1, NothingParsed
  <2> QED BY <2>1, Zenon DEF CallOf
<1>2. CASE Grammatical(m)
  <2>1. PICK p : p = Parse(l)
    OBVIOUS
  <2>2. l \in Lines /\ l # <<>>
    BY <1>2, MessageParsed
  <2>3. CASE Astray(m, f)
    <3>1. p = ParsedAs(m.tags, <<>>, <<":">> \o m.source, Append(<<<<m.cmd>>>> \o m.middles, m.last))
      BY <1>2, <2>1, <2>3, MessageParsed
    <3>2. m.source # <<>>
      BY <2>3 DEF Astray
    <3>3. p \in ParsedMessages /\ Dispatch(p) = AstrayCall(m) /\ AstrayCall(m) \in Calls
      BY <1>2, <3>1, <3>2, AstrayHeard
    <3>4. p # NULL
      BY <3>3, NullIsNoValue
    <3>5. CallOf(m, f) = AstrayCall(m)
      BY <2>3 DEF CallOf
    <3> QED BY <2>1, <2>2, <3>3, <3>4, <3>5
  <2>4. CASE ~Astray(m, f) /\ Lost(m, f)
    <3>1. p = ParsedAs(m.tags, m.source, <<m.cmd>>, <<NULL, m.last>>)
      BY <1>2, <2>1, <2>4, MessageParsed
    <3>2. Dispatch(p) = NULL
      BY <3>1, LostUnheard
    <3>3. CallOf(m, f) = NULL
      BY <2>4 DEF CallOf
    <3> QED BY <2>1, <2>2, <3>2, <3>3
  <2>5. CASE ~Astray(m, f) /\ ~Lost(m, f)
    <3>1. p = ParsedAs(m.tags, m.source, <<m.cmd>>, Append(m.middles, m.last))
      BY <1>2, <2>1, <2>5, MessageParsed
    <3>2. p = Understood(m)
      BY <3>1, Zenon DEF Understood, ParsedAs
    <3>3. p # NULL /\ Dispatch(p) = CallFor(m) /\ CallFor(m) \in Calls
      BY <1>2, <3>2, UnderstoodTyped, HeardIs, AskedTyped DEF Heard
    <3>4. CallOf(m, f) = CallFor(m)
      BY <2>5 DEF CallOf
    <3> QED BY <2>1, <2>2, <3>3, <3>4
  <2> QED BY <2>3, <2>4, <2>5
<1> QED BY <1>1, <1>2, MessageIs

LEMMA IncomingInvKept == IncomingInv /\ [IncomingNext]_incomingVars => IncomingInv'
<1> SUFFICES ASSUME IncomingInv, [IncomingNext]_incomingVars PROVE IncomingInv'
  OBVIOUS
<1>1. CASE Write
  <2>5. PICK m \in Messages : \E f \in LineForms(m) : meant' = m /\ written' = f /\ line' = Line(m, f)
    BY <1>1 DEF Write
  <2>1. PICK f \in LineForms(m) : meant' = m /\ written' = f /\ line' = Line(m, f)
    BY <2>5
  <2>2. line' # <<>>
    BY <2>1, WrittenParsed
  <2>3. WrittenAs(line', meant', written')
    BY <2>1, <2>2 DEF WrittenAs
  <2>4. heard' = NULL
    BY <1>1, NullIsNoValue DEF Write, IncomingInv
  <2> QED BY <2>1, <2>3, <2>4, Zenon DEF IncomingInv
<1>2. CASE Handle
  <2>1. meant \in Messages /\ WrittenAs(line, meant, written)
    BY <1>2 DEF Handle, IncomingInv
  <2>2. /\ heard' = (IF Parse(line) = NULL THEN NULL ELSE Dispatch(Parse(line)))
        /\ line' = <<>> /\ meant' = meant /\ written' = written
    BY <1>2 DEF Handle
  <2>3. heard' = CallOf(meant, written)
    BY <2>1, <2>2, WrittenParsed DEF WrittenAs
  <2> QED BY <2>1, <2>2, <2>3, Zenon DEF IncomingInv, WrittenAs
<1>3. CASE NextMessage
  BY <1>3, Zenon DEF NextMessage, IncomingInv
<1>4. CASE UNCHANGED incomingVars
  BY <1>4, Zenon DEF incomingVars, IncomingInv
<1> QED BY <1>1, <1>2, <1>3, <1>4 DEF IncomingNext

(* Every line under way is a form of the message it was written for, and   *)
(* every call made so far is the one its message asks for, or none where   *)
(* the form is one that the parser fails on: sirc_parse and sirc_event_hdr *)
(* (sirc/sirc_parse.c, sirc/sirc_event_hdr.c).                             *)
THEOREM IncomingInvariance == IncomingSpec => []IncomingInv
<1>1. IncomingInit => IncomingInv
  BY DEF IncomingInit, IncomingInv
<1> QED BY <1>1, IncomingInvKept, PTL DEF IncomingSpec

(* A message that is neither lost nor astray is heard. *)
LEMMA IsHeard ==
  ASSUME NEW m \in Messages, NEW f \in LineForms(m), ~Lost(m, f), NEW h, h = CallFor(m)
  PROVE  IsHeardBy(m, h)
<1>1. Grammatical(m)
  <2>1. ~Parameterless(m)
    BY DEF Parameterless, Lost, Meant
  <2> QED BY <2>1, MessageIs
<1>2. h # NULL
  BY <1>1, AskedTyped
<1>3. /\ h.origin = OriginOf(m.source) /\ h.time = TimeHeard(m.tags)
      /\ h.pong = (IF m.cmd = "PING" /\ m.last # <<>> THEN m.last ELSE NULL)
      /\ (m.cmd \in Talk /\ IsCtcp(m.last) =>
           /\ h.event = <<m.last[2]>>
           /\ h.handlers = <<IF m.cmd = "PRIVMSG" THEN "ctcp_req" ELSE "ctcp_rsp">>
           /\ h.params = IF Len(SubSeq(m.last, 3, Len(m.last) - 1)) < 2 THEN m.middles
                         ELSE Append(m.middles, Tail(SubSeq(m.last, 3, Len(m.last) - 1))))
      /\ (~(m.cmd \in Talk /\ IsCtcp(m.last)) =>
           /\ h.event = <<m.cmd>> /\ h.params = Meant(m)
           /\ h.handlers = Handlers(m.cmd, Meant(m)))
  BY <1>1, AskedMeans
<1> QED BY <1>2, <1>3, Zenon DEF IsHeardBy, OriginOf, TimeHeard, TimeMeant

LEMMA InvMeant == IncomingInv => HeardAsMeant
<1> SUFFICES ASSUME IncomingInv, meant # NULL, line = <<>> PROVE HeardAsMeant
  BY DEF HeardAsMeant
<1>1. meant \in Messages /\ written \in LineForms(meant) /\ heard = CallOf(meant, written)
  BY DEF IncomingInv, WrittenAs
<1>2. CASE Astray(meant, written)
  <2>1. heard = AstrayCall(meant)
    BY <1>1, <1>2 DEF CallOf
  <2> QED BY <1>2, <2>1, Zenon DEF HeardAsMeant, AstrayCall
<1>3. CASE Lost(meant, written) /\ ~Astray(meant, written)
  <2>1. heard = NULL
    BY <1>1, <1>3 DEF CallOf
  <2> QED BY <1>3, <2>1, Zenon DEF HeardAsMeant
<1>4. CASE ~Lost(meant, written) /\ ~Astray(meant, written)
  <2>1. heard = CallFor(meant)
    BY <1>1, <1>4 DEF CallOf
  <2>2. IsHeardBy(meant, heard)
    BY <1>1, <1>4, <2>1, IsHeard
  <2> QED BY <1>4, <2>2, Zenon DEF HeardAsMeant
<1> QED BY <1>2, <1>3, <1>4

(* Whatever form a peer chooses for a message, one of its handlers is      *)
(* called for it with its origin, its time and all its parameters, but for *)
(* the forms that HeardAsMeant names, with one outcome each; for any texts *)
(* and any values of tags (sirc/sirc_parse.c).                             *)
THEOREM MeantIsHeard == IncomingSpec => []HeardAsMeant
BY IncomingInvariance, InvMeant, PTL

(* What is parsed of a line and what is called for it has its type.        *)
THEOREM IncomingTypeCorrect == IncomingSpec => []IncomingTypeOK
<1>1. IncomingInv => IncomingTypeOK
  <2> SUFFICES ASSUME IncomingInv PROVE IncomingTypeOK
    OBVIOUS
  <2>1. ASSUME meant \in Messages PROVE meant.source \in Sources /\ Len(meant.middles) < 3
    <3>1. CASE Grammatical(meant)
      <4>1. Len(meant.middles) \in Nat
        BY <3>1, LenProperties DEF Grammatical
      <4> QED BY <3>1, <4>1 DEF Grammatical
    <3>2. CASE Parameterless(meant)
      BY <3>2 DEF Parameterless
    <3> QED BY <2>1, <3>1, <3>2, MessageIs
  <2>2. ASSUME meant \in Messages PROVE meant # NULL
    BY <2>2, NullIsNoValue
  <2>3. ASSUME meant \in Messages, written \in LineForms(meant) PROVE CallOf(meant, written) \in Calls \cup {NULL}
    BY <2>3, WrittenParsed
  <2>4. ASSUME meant \in Messages, WrittenAs(line, meant, written) PROVE line \in Lines
    BY <2>4, WrittenParsed DEF WrittenAs
  <2> QED BY <2>1, <2>2, <2>3, <2>4, EmptyLine DEF IncomingInv, IncomingTypeOK, WrittenAs
<1> QED BY <1>1, IncomingInvariance, PTL
=============================================================================
