-------------------------- MODULE IncomingMessage --------------------------
(***************************************************************************)
(* From a line of the server to the event handler: sirc_parse              *)
(* (sirc/sirc_parse.c) takes the line apart with strtok, sirc_event_hdr    *)
(* (sirc/sirc_event_hdr.c) picks the handler and its arguments.            *)
(*                                                                         *)
(* A string is a sequence of tokens: the characters the parser looks for   *)
(* are tokens of their own, any other run of characters is one word.  The  *)
(* peer writes messages of the grammar (RFC 1459, IRCv3 message tags): with *)
(* or without parameters, with or without the colon of the last one, and   *)
(* with one blank or two wherever the grammar has <SPACE>.  Letter case and *)
(* number formats are left out, a run of blanks is at most two.  A CTCP    *)
(* message names its command.                                              *)
(***************************************************************************)
EXTENDS Naturals, Sequences, FiniteSets, SequencesExt

CONSTANTS
  Texts,     \* what a last parameter may be
  TagValues, \* unescaped tag values
  MaxParams, \* SIRC_PARAM_COUNT, or fewer
  MaxWide,   \* how many of a line's gaps may be two blanks wide
  NULL       \* no value

SOH == "\\001"  \* delimits a CTCP message
BSL == "\\"
SPACE == " "
SEMICOLON == ";"

VARIABLES
  meant,  \* the message the peer has written, or NULL
  written, \* the form it chose for its line
  line,   \* the line it sent for it
  heard   \* the call of the event handler, with what was answered, or NULL

incomingVars == <<meant, written, line, heard>>

-----------------------------------------------------------------------------
(* The peer.                                                               *)

Numerics == {"001", "221", "311", "433"}
Named == {"JOIN", "PART", "QUIT", "NICK", "TOPIC", "KICK", "INVITE", "CAP",
          "AUTHENTICATE", "PONG", "ERROR", "TAGMSG", "FAIL", "WARN", "NOTE", "XYZ"}
Talk == {"PRIVMSG", "NOTICE"}
UserSource == <<"nick", "!", "user", "@", "host">>
Sources == {<<>>, <<"irc.server">>, UserSource}
Targets == {<<"#chan">>, <<"nick">>}
NoTags == <<>>

(* The tokens of lines. *)
Chars ==
  {SPACE, SEMICOLON, BSL, SOH, ":", "@", "=", "!", "s", "r", "n", "CR", "LF"}
  \cup {"irc.server", "nick", "user", "host", "#chan", "a", "w", "time", "msgid"}
  \cup Numerics \cup Named \cup Talk \cup {"PING", "MODE"}
  \cup UNION {ToSet(x) : x \in Texts \cup TagValues}
Lines == Seq(Chars)

ASSUME TextsAreLines == Texts \cup TagValues \subseteq Lines

(* A CTCP message names its command: one word after the delimiter.        *)
IsCtcp(x) == Len(x) >= 2 /\ x[1] = SOH /\ x[Len(x)] = SOH
ASSUME CtcpNamesCommand ==
  \A x \in Texts : IsCtcp(x) =>
    Len(x) > 2 /\ x[2] # SPACE /\ (Len(x) > 3 => x[3] = SPACE)

ASSUME ParamsAssumption == MaxParams \in Nat /\ MaxParams >= 3
ASSUME WideAssumption == MaxWide \in Nat

Message(tags, source, cmd, middles, last) ==
  [tags |-> tags, source |-> source, cmd |-> cmd, middles |-> middles, last |-> last]

TagLists == {<<[key |-> "time", value |-> v]>> : v \in TagValues}
  \cup {<<[key |-> "msgid", value |-> v], [key |-> "time", value |-> w]>> :
          v, w \in TagValues}

TalkMessages ==
  {Message(NoTags, s, c, <<t>>, x) : s \in Sources, c \in Talk, t \in Targets, x \in Texts}
CommandMessages ==
  {Message(NoTags, s, c, m, x) : s \in Sources, c \in Numerics \cup Named \cup {"PING"},
     m \in {<<>>, <<<<"nick">>, <<"a", ":">>>>}, x \in {y \in Texts : Len(y) < 3}}
ModeMessages == {Message(NoTags, <<"irc.server">>, "MODE", <<t>>, x) : t \in Targets, x \in Texts}
TaggedMessages ==
  {Message(g, s, "PRIVMSG", <<t>>, x) : g \in TagLists, s \in Sources \ {UserSource},
     t \in Targets, x \in {<<"w", SPACE, ":", "w">>, <<"@">>}}
BareMessages ==
  {Message(NoTags, s, c, <<>>, NULL) : s \in Sources, c \in Numerics \cup Named \cup {"PING"}}

Messages ==
  TalkMessages \cup CommandMessages \cup ModeMessages \cup TaggedMessages \cup BareMessages

(* The last parameter may go without its colon when it is a word. *)
IsWord(x) == x # <<>> /\ x[1] # ":" /\ \A i \in DOMAIN x : x[i] # SPACE

Escape(c) == CASE c = SEMICOLON -> <<BSL, ":">> [] c = SPACE -> <<BSL, "s">>
               [] c = BSL -> <<BSL, BSL>> [] c = "CR" -> <<BSL, "r">>
               [] c = "LF" -> <<BSL, "n">> [] OTHER -> <<c>>
Escaped(v) == FoldLeft(LAMBDA acc, c : acc \o Escape(c), <<>>, v)

(* The texts ps, each behind a c. *)
JoinedBy(c, ps) == FoldLeft(LAMBDA acc, p : acc \o <<c>> \o p, <<>>, ps)

TagText(t, eq) == <<t.key>> \o (IF t.value = <<>> /\ ~eq THEN <<>>
                                ELSE <<"=">> \o Escaped(t.value))
TagsText(tags, eq) ==
  IF tags = <<>> THEN <<>>
  ELSE <<"@">> \o TagText(tags[1], eq)
       \o JoinedBy(SEMICOLON, [i \in 1..Len(tags) - 1 |-> TagText(tags[i + 1], eq)])
       \o <<SPACE>>

(* The parameters of a message, whichever way they are written. *)
Meant(m) == IF m.last = NULL THEN m.middles ELSE Append(m.middles, m.last)

(* The forms of a line: a colon before the last parameter, an equals sign  *)
(* after the key of an empty tag, and the gaps that are two blanks wide: 1 *)
(* behind the tags, 2 behind the source, k + 2 before the k-th parameter,  *)
(* and, two more than parameters, at the end of the line (one blank).      *)
AfterTags == 1
AfterSource == 2
AtEnd(m) == Len(Meant(m)) + 3
Gaps(m) == {g \in 1..AtEnd(m) : (g = AfterTags => m.tags # <<>>) /\ (g = AfterSource => m.source # <<>>)}
LineForms(m) ==
  {f \in [colon : BOOLEAN, eq : BOOLEAN, wide : SUBSET Gaps(m)] :
     /\ Cardinality(f.wide) <= MaxWide
     /\ IF m.last = NULL THEN ~f.colon ELSE f.colon \/ IsWord(m.last)
     /\ f.colon => AtEnd(m) \notin f.wide}

Extra(f, g) == IF g \in f.wide THEN <<SPACE>> ELSE <<>>

SourceText(m, f) == IF m.source = <<>> THEN <<>> ELSE <<":">> \o m.source \o <<SPACE>> \o Extra(f, AfterSource)
LastText(m, f) ==
  IF m.last = NULL THEN <<>>
  ELSE <<SPACE>> \o Extra(f, Len(m.middles) + 3) \o (IF f.colon THEN <<":">> ELSE <<>>) \o m.last

(* The line for m in the form f. *)
Line(m, f) ==
  (TagsText(m.tags, f.eq) \o Extra(f, AfterTags))
  \o SourceText(m, f)
  \o <<m.cmd>>
  \o JoinedBy(SPACE, [i \in DOMAIN m.middles |-> Extra(f, i + 2) \o m.middles[i]])
  \o LastText(m, f)
  \o Extra(f, AtEnd(m))

-----------------------------------------------------------------------------
(* sirc_parse.                                                             *)

(* Where the first of the tokens cs is in s, Len(s) + 1 when there is none. *)
FirstOf(s, cs) ==
  LET at == {i \in DOMAIN s : s[i] \in cs}
  IN  IF at = {} THEN Len(s) + 1 ELSE CHOOSE i \in at : \A j \in at : i <= j
From(s, i) == SubSeq(s, i, Len(s))

(* strtok: c at the beginning is skipped; the token runs up to the next c, *)
(* which is consumed.  No token is NULL.                                   *)
Skip(s, c) ==
  LET other == {i \in DOMAIN s : s[i] # c}
  IN  IF other = {} THEN <<>> ELSE From(s, CHOOSE i \in other : \A j \in other : i <= j)
Token(s, c) ==
  LET t == SubSeq(Skip(s, c), 1, FirstOf(Skip(s, c), {c}) - 1)
  IN  IF t = <<>> THEN NULL ELSE t
Rest(s, c) == From(Skip(s, c), FirstOf(Skip(s, c), {c}) + 1)

(* All tokens of s that the loop over strtok stores: it stores before it   *)
(* asks whether there was one, so that a text without any gives one NULL.  *)
Tokens(s) ==
  LET starts == {i \in DOMAIN s : s[i] # SPACE /\ (i = 1 \/ s[i - 1] = SPACE)}
  IN  IF starts = {} THEN <<NULL>>
      ELSE [k \in 1..Cardinality(starts) |->
         LET i == CHOOSE j \in starts : Cardinality({n \in starts : n < j}) = k - 1
         IN  Token(From(s, i), SPACE)]

(* The loop over the tags: a state per character, as in the code. *)
Unescaped(c) == CASE c = ":" -> SEMICOLON [] c = "s" -> SPACE [] c = "r" -> "CR"
                  [] c = "n" -> "LF" [] OTHER -> c
TagStart == [key |-> <<>>, value |-> <<>>, inKey |-> TRUE, esc |-> FALSE]
TagStep(t, c) ==
  CASE t.inKey /\ c = "=" -> [t EXCEPT !.inKey = FALSE]
    [] t.inKey /\ c # "=" -> [t EXCEPT !.key = Append(@, c)]
    [] ~t.inKey /\ t.esc -> [t EXCEPT !.value = Append(@, Unescaped(c)), !.esc = FALSE]
    [] ~t.inKey /\ ~t.esc /\ c = BSL -> [t EXCEPT !.esc = TRUE]
    [] OTHER -> [t EXCEPT !.value = Append(@, c)]
ParseTag(s) ==
  LET t == FoldLeft(TagStep, TagStart, s)
  IN  [key |-> t.key, value |-> IF t.value = <<>> THEN NULL ELSE t.value]

TagsIn(s) ==
  LET ends == {i \in DOMAIN s : s[i] = SEMICOLON} \cup {Len(s) + 1}
  IN  [k \in 1..Cardinality(ends) |->
         LET e == CHOOSE j \in ends : Cardinality({n \in ends : n < j}) = k - 1
             b == IF k = 1 THEN 1
                  ELSE 1 + CHOOSE j \in ends : Cardinality({n \in ends : n < j}) = k - 2
         IN  ParseTag(SubSeq(s, b, e - 1))]
TagsOf(l) == IF l[1] # "@" THEN <<>> ELSE TagsIn(SubSeq(l, 2, FirstOf(l, {SPACE}) - 1))

(* Mutant: the trailing parameter is looked for by its colon alone. *)
ParamsOf_Colon(s) ==
  LET i == FirstOf(s, {":"})
  IN  IF i > Len(s) THEN Tokens(s)
      ELSE Append(Tokens(SubSeq(s, 1, i - 1)), From(s, i + 1))

(* The parameters: a colon at the beginning, or the first colon behind a   *)
(* space, starts the last one.                                             *)
ParamsOf(s) ==
  IF s[1] = ":" THEN <<Tail(s)>>
  ELSE LET at == {i \in 1..Len(s) - 1 : s[i] = SPACE /\ s[i + 1] = ":"}
       IN  IF at = {} THEN Tokens(s)
           ELSE LET i == CHOOSE i \in at : \A j \in at : i <= j
                IN  Append(Tokens(SubSeq(s, 1, i - 1)), From(s, i + 2))

(* The nick is known only when user and host are. *)
NickOf(prefix) ==
  LET nick == Token(prefix, "!")
      user == Token(Rest(prefix, "!"), "@")
      host == Rest(Rest(prefix, "!"), "@")
  IN  IF nick = NULL \/ user = NULL \/ host = <<>> THEN NULL ELSE nick

(* sirc_parse: the message, or NULL for a bad line. *)
Parse(l) ==
  LET irc == IF l[1] = "@" THEN From(l, FirstOf(l, {SPACE}) + 1) ELSE l
      prefixed == irc[1] = ":"
      prefix == IF prefixed THEN Token(Tail(irc), SPACE) ELSE <<>>
      body == IF prefixed THEN Rest(Tail(irc), SPACE) ELSE irc
      rest == Rest(body, SPACE)
      params == ParamsOf(rest)
  IN  IF Token(body, SPACE) = NULL \/ rest = <<>> THEN NULL
      ELSE IF Len(params) > MaxParams THEN NULL
      ELSE [tags |-> TagsOf(l), prefix |-> prefix, nick |-> NickOf(prefix),
            cmd |-> Token(body, SPACE), params |-> params]

-----------------------------------------------------------------------------
(* sirc_event_hdr.                                                         *)

IsChannel(t) == t = <<"#chan">>  \* sirc_target_is_channel

(* The time of the first time tag that has a value. *)
TimeOf(tags) ==
  LET at == {i \in DOMAIN tags : tags[i].key = <<"time">> /\ tags[i].value # NULL}
  IN  IF at = {} THEN "now" ELSE tags[CHOOSE i \in at : \A j \in at : i <= j].value

(* The command that a word names; none is written in several tokens. *)
Verb(word) == IF Len(word) = 1 THEN word[1] ELSE "XYZ"

(* The handlers that are called, in their order. *)
Handlers(cmd, params) ==
  CASE cmd = "001" -> <<"welcome", "numeric">>
    [] cmd = "221" -> <<"umode">>
    [] cmd \in Numerics \ {"001", "221"} -> <<"numeric">>
    [] cmd = "PRIVMSG" -> IF IsChannel(params[1]) THEN <<"channel">> ELSE <<"privmsg">>
    [] cmd = "NOTICE" -> IF IsChannel(params[1]) THEN <<"channel_notice">> ELSE <<"notice">>
    [] cmd = "MODE" -> IF IsChannel(params[1]) THEN <<"mode">> ELSE <<"umode">>
    [] cmd = "PING" -> <<"ping">>
    [] cmd = "XYZ" -> <<"unknown">>
    [] OTHER -> <<cmd>>

Call(handlers, event, origin, params, time, pong) ==
  [handlers |-> handlers, event |-> event, origin |-> origin, params |-> params,
   time |-> time, pong |-> pong]

(* sirc_ctcp_event_hdr: the last parameter without its delimiters and its  *)
(* first word; there is one parameter less when nothing is left of it.     *)
CtcpCall(cmd, origin, params, time) ==
  LET x == params[Len(params)]
      inner == SubSeq(x, 2, Len(x) - 1)
      rest == Rest(inner, SPACE)
  IN  Call(IF cmd = "PRIVMSG" THEN <<"ctcp_req">> ELSE <<"ctcp_rsp">>,
           Token(inner, SPACE), origin,
           IF rest = <<>> THEN Front(params) ELSE Append(Front(params), rest), time, NULL)

(* sirc_cmd_pong, which refuses an empty parameter. *)
Pong(x) == IF x = <<>> THEN NULL ELSE x

(* No handler is called for a message with a NULL among its parameters. *)
Dispatch(m) ==
  LET origin == IF m.nick # NULL THEN m.nick ELSE m.prefix
      n == Len(m.params)
      cmd == Verb(m.cmd)
  IN  IF NULL \in ToSet(m.params) \/ (cmd \in Talk /\ n < 2) THEN NULL
      ELSE IF cmd \in Talk /\ IsCtcp(m.params[2])
        THEN CtcpCall(cmd, origin, m.params, TimeOf(m.tags))
      ELSE Call(Handlers(cmd, m.params), m.cmd, origin, m.params, TimeOf(m.tags),
                IF cmd = "PING" THEN Pong(m.params[n]) ELSE NULL)

-----------------------------------------------------------------------------
ParsedMessages ==
  [tags : Seq([key : Lines, value : Lines \cup {NULL}]), prefix : Lines,
   nick : Lines \cup {NULL}, cmd : Lines, params : Seq(Lines \cup {NULL})]
HandlerNames ==
  {"welcome", "numeric", "umode", "channel", "privmsg", "channel_notice", "notice",
   "mode", "ping", "unknown", "ctcp_req", "ctcp_rsp"} \cup Named
Calls ==
  [handlers : Seq(HandlerNames), event : Lines, origin : Lines, params : Seq(Lines),
   time : Lines \cup {"now"}, pong : Lines \cup {NULL}]

ASSUME NullIsNoValue ==
  NULL \notin Lines /\ NULL \notin ParsedMessages /\ NULL \notin Calls /\ NULL \notin Messages

IncomingInit == meant = NULL /\ written = NULL /\ line = <<>> /\ heard = NULL

Write ==
  /\ meant = NULL
  /\ \E m \in Messages : \E f \in LineForms(m) :
       meant' = m /\ written' = f /\ line' = Line(m, f)
  /\ UNCHANGED heard

(* sirc_parse and sirc_event_hdr, called from on_recv_ready. *)
Handle ==
  /\ line # <<>>
  /\ line' = <<>>
  /\ heard' = IF Parse(line) = NULL THEN NULL ELSE Dispatch(Parse(line))
  /\ UNCHANGED <<meant, written>>

NextMessage ==
  /\ line = <<>> /\ meant # NULL
  /\ meant' = NULL /\ written' = NULL /\ heard' = NULL
  /\ UNCHANGED line

IncomingNext == Write \/ Handle \/ NextMessage

IncomingSpec == IncomingInit /\ [][IncomingNext]_incomingVars

IncomingTypeOK ==
  /\ meant = NULL \/ (meant.source \in Sources /\ Len(meant.middles) < 3 /\ written \in LineForms(meant))
  /\ line \in Lines /\ (line = <<>> \/ meant # NULL)
  /\ heard \in Calls \cup {NULL}

-----------------------------------------------------------------------------
(* A message that no handler is called for although the grammar has it:    *)
(* one without parameters, whose line ends at the command                  *)
(* (sirc_parse.c:213-217), and one whose only parameter has a colon and    *)
(* two blanks before it, for then there is no token before the colon.      *)
Lost(m, f) == Meant(m) = <<>> \/ (m.middles = <<>> /\ f.colon /\ 3 \in f.wide)

(* A message heard as another: with two blanks behind the tags its source  *)
(* is taken for the command, and the command for a parameter.              *)
Astray(m, f) == AfterTags \in f.wide /\ m.source # <<>>

TimeMeant(m) ==
  LET v == IF m.tags = <<>> THEN <<>> ELSE Last(m.tags).value
  IN  IF v = <<>> THEN "now" ELSE v

(* What a message in a form that is neither lost nor astray shall call.    *)
IsHeardBy(m, h) ==
  /\ h # NULL
  /\ h.origin = (IF Len(m.source) > 1 THEN <<m.source[1]>> ELSE m.source)
  /\ h.time = TimeMeant(m)
  /\ h.pong = IF m.cmd = "PING" /\ m.last # <<>> THEN m.last ELSE NULL
  /\ IF m.cmd \in Talk /\ IsCtcp(m.last)
       THEN LET x == m.last
                words == SubSeq(x, 3, Len(x) - 1)
            IN  /\ h.event = <<x[2]>>
                /\ h.handlers = <<IF m.cmd = "PRIVMSG" THEN "ctcp_req" ELSE "ctcp_rsp">>
                /\ h.params = IF Len(words) < 2 THEN m.middles
                              ELSE Append(m.middles, Tail(words))
       ELSE /\ h.event = <<m.cmd>>
            /\ h.params = Meant(m)
            /\ h.handlers = Handlers(m.cmd, Meant(m))

(* For every message and every form of its line that is not one of the     *)
(* three below the handler is called once, with the command's own event,   *)
(* the nick or the server as its origin, the time of its tag and all its   *)
(* parameters: none lost, none split at a blank or joined, a colon or a    *)
(* delimiter within a text left alone, repeated blanks and blanks at the   *)
(* end passed over.  A PING is answered with its last parameter, unless it *)
(* is empty.  The forms that the parser fails on are exactly these: a      *)
(* message without parameters and one whose only parameter stands behind   *)
(* two blanks and a colon are dropped, and one with a source behind two    *)
(* blanks after its tags is an unknown command without an origin.          *)
HeardAsMeant ==
  meant # NULL /\ line = <<>> =>
    CASE Lost(meant, written) /\ ~Astray(meant, written) -> heard = NULL
      [] Astray(meant, written) ->
           heard = Call(<<"unknown">>, <<":">> \o meant.source, <<>>,
                        <<<<meant.cmd>>>> \o Meant(meant), TimeMeant(meant), NULL)
      [] OTHER -> IsHeardBy(meant, heard)
=============================================================================
