------------------------------ MODULE Sending ------------------------------
(***************************************************************************)
(* Sending commands (sirc/sirc_cmd.c, sirc/sirc_cmd_builder.c,             *)
(* sirc/io_stream.c).  sirc_cmd_msg splits a long message into several     *)
(* PRIVMSG at character boundaries; every other command is one line; a     *)
(* line longer than 512 bytes is cut, its CR LF with it, and a write may   *)
(* take fewer bytes than it was given.  Both are reported as success: what *)
(* the server then holds has no end, and the next line is glued to it.     *)
(*                                                                         *)
(* A message is the sequence of the widths of its UTF-8 characters.  The   *)
(* other commands are sequences of tokens, as in IncomingMessage, whose    *)
(* parser of parameters also stands for the server's; a token counts for   *)
(* one byte.  The connection is one and the same throughout.               *)
(***************************************************************************)
EXTENDS IncomingMessage

CONSTANTS
  Widths,     \* widths of characters
  Room,       \* bytes of a PRIVMSG that are left for its text, and one
  RawLimit,   \* bytes of a line that sirc_cmd_raw writes: 512
  MaxMessage, \* characters of a message
  MaxWrites   \* writes since the peer's last look at them

ASSUME SendingAssumption ==
  /\ Room \in Nat \ {0} /\ RawLimit \in Nat /\ MaxWrites \in Nat \ {0} /\ MaxMessage \in Nat
  /\ Widths \subseteq Nat \ {0}

VARIABLES
  text,    \* the message sirc_cmd_msg is sending
  sent,    \* characters of it that were handed to sirc_cmd_raw
  result,  \* "idle", "sending", "ok", "err"
  writes,  \* history: the writes of this message
  got,     \* history: what the server has read of this message
  unended, \* whether the server holds a line without its end
  asked,   \* a command with its arguments and what became of it, or NULL
  reply    \* the parameters the server read for it, or NULL

sendingVars == <<text, sent, result, writes, got, unended, asked, reply>>

-----------------------------------------------------------------------------
(* sirc_cmd_msg.                                                           *)

Bytes8(s) == FoldLeft(+, 0, s)

(* Mutant: the character that does not fit any more is sent with the others. *)
Fitting_Boundary(s) ==
  IF Bytes8(s) <= Room THEN Len(s)
  ELSE CHOOSE n \in 0..Len(s) : /\ Bytes8(SubSeq(s, 1, n)) >= Room
                                /\ n = 0 \/ Bytes8(SubSeq(s, 1, n - 1)) < Room

(* sirc_command_builder_set_trailing: how many characters of s the line    *)
(* takes: all, or as many as leave a byte of the room free.                *)
Fitting(s) ==
  IF Bytes8(s) <= Room THEN Len(s)
  ELSE CHOOSE n \in 0..Len(s) : /\ Bytes8(SubSeq(s, 1, n)) < Room
                                /\ Bytes8(SubSeq(s, 1, n + 1)) >= Room

Remaining == SubSeq(text, sent + 1, Len(text))

SendingInit ==
  /\ text = <<>> /\ sent = 0 /\ result = "idle" /\ writes = <<>> /\ got = <<>>
  /\ unended = FALSE /\ asked = NULL /\ reply = NULL

(* The user's line, or a message of the same connection. *)
StartMessage ==
  /\ result = "idle" /\ asked = NULL
  /\ \E n \in 1..MaxMessage : text' \in [1..n -> Widths]
  /\ sent' = 0 /\ result' = "sending"
  /\ UNCHANGED <<writes, got, unended, asked, reply>>

(* io_stream_write: the write takes all it is given, or a part of it, or   *)
(* fails.                                                                  *)
Outcomes == {"all", "part", "none"}

(* What the server is left with after a write, which ended a line or not.  *)
Left(ended, outcome) ==
  IF outcome = "none" THEN unended ELSE ~(ended /\ outcome = "all")

(* The server reads a line as it was written. *)
ReadWhole(w) == w.taken = "all" /\ ~w.behind

(* One turn of the loop: the builder's line, then sirc_cmd_raw.  A first   *)
(* line that can take nothing is an error; a later one is sent empty, and  *)
(* then the loop does not end: the name of the channel has left less room  *)
(* than one character takes.                                               *)
SendPart(outcome) ==
  /\ result = "sending"
  /\ Len(writes) < MaxWrites
  /\ LET n == Fitting(Remaining)
         w == [from |-> sent + 1, to |-> sent + n, taken |-> outcome, behind |-> unended]
     IN  IF n = 0 /\ sent = 0
           THEN result' = "err" /\ UNCHANGED <<sent, writes, got, unended>>
           ELSE /\ sent' = sent + n
                /\ writes' = Append(writes, w)
                /\ got' = IF ReadWhole(w) THEN got \o SubSeq(text, w.from, w.to) ELSE got
                /\ unended' = Left(TRUE, outcome)
                /\ result' = CASE outcome = "none" -> "err"
                               [] outcome # "none" /\ sent + n = Len(text) -> "ok"
                               [] OTHER -> "sending"
  /\ UNCHANGED <<text, asked, reply>>

EndMessage ==
  /\ result \in {"ok", "err"}
  /\ text' = <<>> /\ sent' = 0 /\ result' = "idle" /\ writes' = <<>> /\ got' = <<>>
  /\ UNCHANGED <<unended, asked, reply>>

-----------------------------------------------------------------------------
(* The commands of sirc_cmd.c: which arguments they need, which one they   *)
(* can do without, and whether the last one goes behind a colon.           *)

Command(needs, optional, colon) == [needs |-> needs, optional |-> optional, colon |-> colon]

Commands ==
  [PING |-> Command(1, FALSE, TRUE), PONG |-> Command(1, FALSE, TRUE),
   USER |-> Command(4, FALSE, TRUE), JOIN |-> Command(1, TRUE, TRUE),
   PART |-> Command(1, TRUE, TRUE),  NICK |-> Command(1, FALSE, FALSE),
   QUIT |-> Command(0, TRUE, TRUE),  TOPIC |-> Command(1, TRUE, TRUE),
   NAMES |-> Command(1, FALSE, FALSE), WHOIS |-> Command(1, FALSE, FALSE),
   INVITE |-> Command(2, FALSE, FALSE), KICK |-> Command(2, TRUE, TRUE),
   PASS |-> Command(1, FALSE, TRUE), LIST |-> Command(0, TRUE, FALSE),
   AUTHENTICATE |-> Command(1, FALSE, FALSE), AWAY |-> Command(0, TRUE, FALSE)]

(* Commands whose last argument is free text. *)
TextCommands == {"PING", "PONG", "USER", "PART", "QUIT", "TOPIC", "KICK", "PASS", "JOIN"}

Word == <<"w">>

WithColon(c) == Commands[c].colon

Full(c) == Commands[c].needs + (IF Commands[c].optional THEN 1 ELSE 0)

(* The line of sirc_cmd_raw's format: words, then the last argument. *)
CommandText(c, args) ==
  LET n == Len(args)
      behind == WithColon(c) /\ n = Full(c)
  IN  <<c>> \o JoinedBy(SPACE, IF behind THEN Front(args) ELSE args)
            \o (IF behind THEN <<SPACE, ":">> \o args[n] ELSE <<>>)

(* Arguments as the user gives them: words, and a text at the end. *)
ArgumentsOf(c) ==
  LET words == [i \in 1..Commands[c].needs |-> Word]
      last == IF c \notin TextCommands THEN {Word}
              ELSE IF Commands[c].optional THEN Texts ELSE Texts \ {<<>>}
  IN  IF Commands[c].optional
        THEN ({words} \ {<<>>}) \cup {Append(words, x) : x \in last}
        ELSE {[words EXCEPT ![Len(words)] = x] : x \in last}

AskedFor(c, args, outcome, behind) ==
  [cmd |-> c, args |-> args, taken |-> outcome, behind |-> behind]

ASSUME CommandsAreValues ==
  \A c \in DOMAIN Commands : \A args \in ArgumentsOf(c), o \in Outcomes, b \in BOOLEAN :
    NULL # args /\ NULL # AskedFor(c, args, o, b)

(* The line and its CR LF are no longer than what is written of it. *)
FitsLine(c, args) == Len(CommandText(c, args)) + 2 <= RawLimit

(* sirc_cmd_raw for any other command. *)
Issue(outcome) ==
  /\ result = "idle" /\ asked = NULL
  /\ \E c \in DOMAIN Commands : \E args \in ArgumentsOf(c) :
       /\ asked' = AskedFor(c, args, outcome, unended)
       /\ reply' = IF FitsLine(c, args) /\ ReadWhole(asked')
                      THEN ParamsOf(Rest(CommandText(c, args), SPACE)) ELSE NULL
       /\ unended' = Left(FitsLine(c, args), outcome)
  /\ UNCHANGED <<text, sent, result, writes, got>>

Answered ==
  /\ asked # NULL
  /\ asked' = NULL /\ reply' = NULL
  /\ UNCHANGED <<text, sent, result, writes, got, unended>>

SendingNext ==
  \/ StartMessage
  \/ \E o \in Outcomes : SendPart(o) \/ Issue(o)
  \/ EndMessage \/ Answered

SendingSpec == SendingInit /\ [][SendingNext]_sendingVars

SendingTypeOK ==
  /\ text \in Seq(Widths) /\ sent \in 0..Len(text) /\ got \in Seq(Widths)
  /\ result \in {"idle", "sending", "ok", "err"} /\ unended \in BOOLEAN
  /\ \A i \in DOMAIN writes : writes[i].taken \in Outcomes
  /\ asked = NULL => reply = NULL

-----------------------------------------------------------------------------
(* A message that is reported as sent and whose lines all reached the      *)
(* server as they were written was read in full and in order, and no line  *)
(* of it passes the limit.  A write that was cut spoils its own line and   *)
(* the one behind it, which is glued to it, and no other.  Of any other    *)
(* command the server reads the arguments it was given, each as one        *)
(* parameter (free text stands behind a colon), unless the line was too    *)
(* long, was cut in the write, or came behind a line without end: then,    *)
(* although the client is told that it was sent, it reads no such line.    *)
(* (The text of AWAY stands behind no colon: the server reads its first    *)
(* word.)                                                                  *)
HeardAsSent ==
  /\ asked # NULL =>
       \/ reply = asked.args
       \/ reply = NULL /\ ~(FitsLine(asked.cmd, asked.args) /\ ReadWhole(asked))
  /\ result = "ok" =>
       /\ (\A i \in DOMAIN writes : ReadWhole(writes[i])) => got = text
       /\ \A i \in DOMAIN writes :
            /\ Bytes8(SubSeq(text, writes[i].from, writes[i].to)) <= Room
            /\ i > 1 => (writes[i].behind <=> writes[i - 1].taken = "part")
=============================================================================
