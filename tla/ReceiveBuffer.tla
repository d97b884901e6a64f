--------------------------- MODULE ReceiveBuffer ---------------------------
(***************************************************************************)
(* The receiving side of a SircSession (sirc/sirc.c): one byte is read at  *)
(* a time into a buffer of SIRC_BUF_LEN bytes, a line that ends with CR LF *)
(* is handed to sirc_parse.  The session, and what is in its buffer, stays *)
(* from one connection to the next.                                        *)
(*                                                                         *)
(* The peer sends lines of at most MaxLine bytes, the CR LF counted, with  *)
(* neither CR nor LF within (RFC 1459).  They may be longer than the       *)
(* buffer: message-tags and server-time are requested (server_cap.c), and  *)
(* the tags alone may take 8191 bytes (sirc_parse.c).  A connection may    *)
(* end anywhere.                                                           *)
(***************************************************************************)
EXTENDS Naturals, Sequences

CONSTANTS
  BufLen,   \* SIRC_BUF_LEN
  MaxLine,  \* longest line of the peer
  Bytes     \* what lines are made of

CR == "CR"
LF == "LF"

ASSUME BufLenAssumption == BufLen \in Nat \ {0}
ASSUME MaxLineAssumption == MaxLine \in Nat /\ MaxLine >= 2
ASSUME BytesAssumption == CR \notin Bytes /\ LF \notin Bytes

VARIABLES
  reading,  \* sirc->stream, with a read under way
  buf,      \* sirc->buf up to sirc->bufptr
  sending,  \* peer: what it has sent of its current line
  nlines,   \* peer: its lines on this connection, from the last one on that was
            \* longer than the buffer, counted up to 3
  intact    \* history: the last of them was handed over as it was sent

receiveVars == <<reading, buf, sending, nlines, intact>>

Octets == Bytes \cup {CR, LF}
bufptr == Len(buf)

(* A byte is stored at bufptr, which is compared with the size only then:  *)
(* bufptr = BufLen, where the type allows it, is the byte behind buf.      *)
ReceiveTypeOK ==
  /\ reading \in BOOLEAN
  /\ buf \in Seq(Octets) /\ bufptr <= BufLen
  /\ sending \in Seq(Octets) /\ Len(sending) < MaxLine
  /\ nlines \in 0..3
  /\ intact \in BOOLEAN

ReceiveInit ==
  /\ reading = FALSE
  /\ buf = <<>>
  /\ sending = <<>>
  /\ nlines = 0
  /\ intact = TRUE

(* on_connect_finish: sirc_recv goes on where the buffer stands. *)
StartReading ==
  /\ ~reading
  /\ reading' = TRUE
  /\ sending' = <<>> /\ nlines' = 0 /\ intact' = TRUE
  /\ UNCHANGED buf

(* on_recv_ready with an error, no byte or a closed stream. *)
StopReading ==
  /\ reading
  /\ reading' = FALSE
  /\ sending' = <<>> /\ nlines' = 0 /\ intact' = TRUE
  /\ UNCHANGED buf

TooLong(s) == Len(s) > BufLen

EndsLine(s) == Len(s) >= 2 /\ s[Len(s) - 1] = CR /\ s[Len(s)] = LF

WithoutCRLF(s) == SubSeq(s, 1, Len(s) - 2)

(* Mutant: the buffer is not cleared after a line that was handed over. *)
Kept_Line(s) == IF TooLong(s) THEN <<>> ELSE s

(* What the buffer holds after the bytes s, before the next read. *)
Kept(s) == IF TooLong(s) \/ EndsLine(s) THEN <<>> ELSE s

(* s is handed to sirc_parse as the line l. *)
Handed(s, l) == ~TooLong(s) /\ EndsLine(s) /\ WithoutCRLF(s) = WithoutCRLF(l)

MaySend(b) ==
  IF sending # <<>> /\ sending[Len(sending)] = CR
    THEN b = LF
    ELSE b = CR \/ (b \in Bytes /\ Len(sending) < MaxLine - 2)

(* on_recv_ready with the byte b. *)
ReceiveByte(b) ==
  /\ reading
  /\ MaySend(b)
  /\ buf' = Kept(Append(buf, b))
  /\ IF b = LF
       THEN /\ sending' = <<>>
            /\ nlines' = IF TooLong(Append(sending, b)) THEN 1
                         ELSE IF nlines < 3 THEN nlines + 1 ELSE 3
            /\ intact' = Handed(Append(buf, b), Append(sending, b))
       ELSE /\ sending' = Append(sending, b)
            /\ UNCHANGED <<nlines, intact>>
  /\ UNCHANGED reading

ReceiveNext == StartReading \/ StopReading \/ \E b \in Octets : ReceiveByte(b)

ReceiveSpec == ReceiveInit /\ [][ReceiveNext]_receiveVars

-----------------------------------------------------------------------------
(* A connection that ended within a line leaves its rest in the buffer,    *)
(* where it spoils the first line of the next connection.  A line longer   *)
(* than the buffer is dropped in pieces, but for its end, which is handed  *)
(* over as a line of its own.  And when the buffer was cleared between CR  *)
(* and LF, by either, the LF spoils the line behind.  That is all: from    *)
(* the third line on, counted from the beginning of the connection or from *)
(* the last line that was too long, every line is handed over as it was    *)
(* sent.                                                                   *)
LinesRecover == nlines = 3 => intact
=============================================================================
