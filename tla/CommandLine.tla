---------------------------- MODULE CommandLine -----------------------------
(***************************************************************************)
(* What the user types as a command, and what the parser makes of it       *)
(* (lib/command.c, with the bindings of core/chat_command.h).              *)
(*                                                                         *)
(* A line is a sequence of characters, of which only the blank, the hyphen,*)
(* the backslash and the quotation mark are told apart; a run of letters   *)
(* is one symbol.  The user writes as docs/commands.rst has it: a value    *)
(* with a blank or with a hyphen at its beginning is quoted, the last      *)
(* argument may go without.                                                *)
(***************************************************************************)
EXTENDS Naturals, Sequences, SequencesExt

CONSTANTS
  Values,   \* what arguments and the values of options may be
  MaxOpts   \* SRN_COMMAND_MAX_OPTS

ASSUME ValuesAreTexts == \A v \in Values : v \in Seq(ToSet(v))
ASSUME MaxOptsAssumption == MaxOpts \in Nat

QUOTE == "'"
SLASH == "\\"
BLANK == " "
NoSub == ""

(* A few of the bindings: with subcommands, with options that have values  *)
(* or not, of which one is the beginning of another, with arguments that   *)
(* may be omitted.                                                         *)
Binding(sub, opts, argc, omit) == [sub |-> sub, opts |-> opts, argc |-> argc, omit |-> omit]
Opt(key, valued) == [key |-> key, valued |-> valued]
Dashed(word) == <<"-", word>>

Bindings ==
  [connect |-> Binding(<<>>, <<Opt(Dashed("pwd"), TRUE), Opt(Dashed("tls"), FALSE),
                               Opt(Dashed("tls") \o Dashed("noverify"), FALSE)>>, 2, TRUE),
   pattern |-> Binding(<<"add", "rm", "list">>, <<>>, 2, TRUE),
   ignore  |-> Binding(<<>>, <<Opt(Dashed("cur"), FALSE)>>, 1, FALSE),
   kick    |-> Binding(<<>>, <<>>, 3, TRUE),
   reload  |-> Binding(<<>>, <<>>, 0, FALSE)]

VARIABLES
  typedCommand, \* what the user wants, or <<>>
  parsed        \* what srn_command_parse made of the line typed for it

commandVars == <<typedCommand, parsed>>

-----------------------------------------------------------------------------
(* The user.                                                               *)

Quoted(v) ==
  <<QUOTE>> \o FoldLeft(LAMBDA acc, c : acc \o (IF c \in {QUOTE, SLASH} THEN <<SLASH, c>> ELSE <<c>>),
                        <<>>, v) \o <<QUOTE>>

MayStandBare(v, isLast) ==
  /\ v # <<>> /\ v[1] \notin {"-", QUOTE, BLANK} /\ v[Len(v)] # BLANK
  /\ isLast \/ BLANK \notin ToSet(v)

Written(v, bare, isLast) == IF bare /\ MayStandBare(v, isLast) THEN v ELSE Quoted(v)

Spaced(parts) == FoldLeft(LAMBDA acc, x : acc \o <<BLANK>> \o x, <<>>, parts)

(* The line for command m, with quotation marks only where needed or not. *)
LineFor(m, bare) ==
  <<m.name>> \o (IF m.sub = NoSub THEN <<>> ELSE <<BLANK, m.sub>>)
    \o Spaced([i \in DOMAIN m.opts |->
         m.opts[i].key \o (IF m.opts[i].valued THEN <<BLANK>> \o Written(m.opts[i].value, bare, FALSE)
                                               ELSE <<>>)])
    \o Spaced([i \in DOMAIN m.args |-> Written(m.args[i], bare, i = Bindings[m.name].argc)])

(* Options given: none, one, or as many as there is room for. *)
Given(o, v) == [key |-> o.key, valued |-> o.valued, value |-> IF o.valued THEN v ELSE <<>>]
OptionLists(b) ==
  LET one == {Given(b.opts[i], v) : i \in DOMAIN b.opts, v \in Values}
  IN  {<<>>} \cup {<<o>> : o \in one} \cup {[i \in 1..MaxOpts |-> o] : o \in one}

(* The first arguments vary where there are no options. *)
ArgumentLists(b, opts) ==
  LET short == {v \in Values : Len(v) < 2}
      counts == IF b.omit THEN 0..b.argc ELSE {b.argc}
      Lists(n, vs) == [1..n -> vs]
  IN  UNION {IF opts = <<>> /\ n < 3 THEN Lists(n, Values) ELSE Lists(n, short) : n \in counts}

CommandsOf(name) ==
  LET b == Bindings[name]
      subs == IF b.sub = <<>> THEN {NoSub} ELSE ToSet(b.sub)
  IN  UNION {{[name |-> name, sub |-> s, opts |-> os, args |-> as] : s \in subs, as \in ArgumentLists(b, os)}
             : os \in OptionLists(b)}

-----------------------------------------------------------------------------
(* The parser.                                                             *)

FirstAt(s, Test(_)) == LET i == SelectInSeq(s, Test) IN IF i = 0 THEN Len(s) + 1 ELSE i
Behind(s, i) == SubSeq(s, i, Len(s))
Chug(s) == Behind(s, FirstAt(s, LAMBDA c : c # BLANK))
Chomp(s) == Reverse(Chug(Reverse(s)))

(* get_arg: the next word, and the rest without the blanks before it; <<>> *)
(* stands for no rest.                                                     *)
Split(t, e) == [ok |-> t # <<>>, arg |-> SubSeq(t, 1, e - 1), next |-> Chug(Behind(t, e + 1))]
WordOf(t) == Split(t, FirstAt(t, LAMBDA c : c = BLANK))
get_arg(s) == WordOf(Chug(s))

(* Mutant: a backslash that was escaped escapes what follows it. *)
EscapeEnds_Late(c) == c = QUOTE

(* Whether the escape ends with the character c that was escaped. *)
EscapeEnds(c) == c \in {QUOTE, SLASH}

(* The loop of get_quote_arg, behind the opening mark.  The character that *)
(* is escaped is removed and its backslash is left, which comes to the     *)
(* same for a backslash.                                                   *)
QuoteStep(q, c) ==
  IF q.closed THEN q
  ELSE LET r == [q EXCEPT !.used = @ + 1]
       IN  CASE ~q.esc /\ c = SLASH -> [r EXCEPT !.esc = TRUE, !.arg = Append(@, c)]
             [] ~q.esc /\ c = QUOTE -> [r EXCEPT !.closed = TRUE]
             [] q.esc /\ c \in {QUOTE, SLASH} -> [r EXCEPT !.esc = ~EscapeEnds(c)]
             [] OTHER -> [r EXCEPT !.esc = FALSE, !.arg = Append(@, c)]

Unquoted(t, q) == [ok |-> q.closed, arg |-> q.arg, next |-> Chug(Behind(t, q.used + 1))]
Unquote(t) ==
  Unquoted(t, FoldLeft(QuoteStep, [arg |-> <<>>, esc |-> FALSE, closed |-> FALSE, used |-> 0], t))

QuotedOrWord(t) == IF t[1] = QUOTE THEN Unquote(Tail(t)) ELSE WordOf(t)
get_quote_arg(s) == QuotedOrWord(Chug(s))

(* get_last_quote_arg: what stands behind the closing mark is dropped. *)
QuotedOrAll(t) == IF t[1] = QUOTE THEN Unquote(Tail(t)) ELSE [ok |-> TRUE, arg |-> t, next |-> <<>>]
get_last_quote_arg(s) == QuotedOrAll(Chomp(Chug(s)))

StartsWith(s, key) == Len(s) >= Len(key) /\ SubSeq(s, 1, Len(key)) = key

Result(ret) == [ret |-> ret, sub |-> NoSub, keys |-> <<>>, vals |-> <<>>, args |-> <<>>]

(* The loop over the subcommands goes on with the rest of the line when    *)
(* one is found, and a later one found there takes its place.              *)
SubFound(word) == [sub |-> word.arg[1], next |-> word.next]
ParseSub(b, s) ==
  FoldLeft(LAMBDA p, word : IF p.next # <<>> /\ StartsWith(p.next, <<word>>)
                              THEN SubFound(get_arg(p.next)) ELSE p,
           [sub |-> NoSub, next |-> s], b.sub)

(* One turn of the loop over the options: the word is the option, and what *)
(* is behind it its value when the binding says so.                        *)
Keep(p, key, v, next) ==
  [p EXCEPT !.keys = Append(@, key), !.vals = Append(@, v), !.next = next]

WithValue(p, key, val) ==
  IF val.ok THEN Keep(p, key, val.arg, val.next) ELSE [p EXCEPT !.ret = "failed"]

OptionAt(b, p, i, word) ==
  CASE i = 0 -> [p EXCEPT !.ret = "unknown option"]
    [] i > 0 /\ ~b.opts[i].valued -> Keep(p, word.arg, <<>>, word.next)
    [] i > 0 /\ b.opts[i].valued ->
         IF word.next = <<>> \/ word.next[1] = "-" THEN [p EXCEPT !.ret = "missing value"]
         ELSE WithValue(p, word.arg, get_quote_arg(word.next))

ParseOption(b, p) ==
  IF p.ret # "ok" \/ p.next = <<>> \/ p.next[1] # "-" THEN p
  ELSE OptionAt(b, p, SelectInSeq(b.opts, LAMBDA o : StartsWith(p.next, o.key)), get_arg(p.next))

(* The array of the values lies behind that of the keys: when that is      *)
(* full, the NULL behind the last key is put in the place of the first     *)
(* value, and one key more than that is an error.                          *)
EndOptions(p) ==
  CASE Len(p.keys) > MaxOpts -> [p EXCEPT !.ret = "too many options"]
    [] Len(p.keys) = MaxOpts -> [p EXCEPT !.vals[1] = <<"NULL">>]
    [] OTHER -> p

ParseOptions(b, s) ==
  EndOptions(FoldLeft(LAMBDA p, i : ParseOption(b, p),
                      [ret |-> "ok", keys |-> <<>>, vals |-> <<>>, next |-> s],
                      [i \in 1..MaxOpts + 1 |-> i]))

(* An argument that is missing, or not closed, ends the arguments. *)
WithArgument(p, a) ==
  IF a.ok THEN [ok |-> TRUE, args |-> Append(p.args, a.arg), next |-> a.next]
          ELSE [p EXCEPT !.ok = FALSE]

ParseArgs(b, s) ==
  FoldLeft(LAMBDA p, i :
             IF ~p.ok \/ p.next = <<>> THEN [p EXCEPT !.ok = FALSE]
             ELSE WithArgument(p, IF i = b.argc THEN get_last_quote_arg(p.next)
                                                ELSE get_quote_arg(p.next)),
           [ok |-> TRUE, args |-> <<>>, next |-> s], [i \in 1..b.argc |-> i])

(* srn_command_parse, called by srn_command_context_proc with the binding  *)
(* of the first word: one part of the line after the other, each on what   *)
(* the one before has left of it.                                          *)
ArgumentsParsed(b, sub, opts, args) ==
  IF ~args.ok /\ ~b.omit THEN Result("missing argument")
  ELSE [ret |-> "ok", sub |-> sub, keys |-> opts.keys, vals |-> opts.vals, args |-> args.args]

OptionsParsed(b, sub, opts) ==
  IF opts.ret # "ok" THEN Result(opts.ret) ELSE ArgumentsParsed(b, sub, opts, ParseArgs(b, opts.next))

SubParsed(b, sub, any) ==
  IF any /\ b.sub # <<>> /\ sub.sub = NoSub THEN Result("unknown subcommand")
  ELSE OptionsParsed(b, sub.sub, ParseOptions(b, sub.next))

ParsedLine(b, rest) == SubParsed(b, ParseSub(b, rest), rest # <<>>)

srn_command_parse(l) ==
  LET word == get_arg(Chomp(l)) IN ParsedLine(Bindings[word.arg[1]], word.next)

(* srn_command_get_opt: the first of that name. *)
OptionFound(p, i) == [given |-> i > 0, value |-> IF i > 0 THEN p.vals[i] ELSE <<>>]
srn_command_get_opt(p, key) == OptionFound(p, SelectInSeq(p.keys, LAMBDA k : k = key))

-----------------------------------------------------------------------------
CommandInit == typedCommand = <<>> /\ parsed = <<>>

TypeCommand ==
  /\ typedCommand = <<>>
  /\ \E name \in DOMAIN Bindings, bare \in BOOLEAN : \E m \in CommandsOf(name) :
       /\ typedCommand' = [cmd |-> m, bare |-> bare]
       /\ parsed' = srn_command_parse(LineFor(m, bare))

CommandDone == typedCommand # <<>> /\ typedCommand' = <<>> /\ parsed' = <<>>

CommandNext == TypeCommand \/ CommandDone

CommandSpec == CommandInit /\ [][CommandNext]_commandVars

CommandTypeOK == (typedCommand = <<>>) = (parsed = <<>>)

-----------------------------------------------------------------------------
(* The text v is written with a quotation mark that is escaped. *)
MarkEscaped(v, bare, isLast) == QUOTE \in ToSet(v) /\ ~(bare /\ MayStandBare(v, isLast))
MarksEscaped(m, bare) ==
  \/ \E i \in DOMAIN m.opts : MarkEscaped(m.opts[i].value, bare, FALSE)
  \/ \E i \in DOMAIN m.args : MarkEscaped(m.args[i], bare, i = Bindings[m.name].argc)

(* A pattern may have a name that begins like a subcommand listed later:   *)
(* it takes the place of the subcommand.                                   *)
NamedLikeSub(m) == m.args # <<>> /\ m.args[1] # <<>> /\ m.args[1][1] \in ToSet(Bindings[m.name].sub)

(* With as many options as there is room for the first value is lost.      *)
Readable(m) == Len(m.opts) < MaxOpts /\ ~NamedLikeSub(m)

(* What was meant has been read: the subcommand, each option with its      *)
(* value and no other, and each argument whole.                            *)
ReadAsMeant(p, m) ==
  LET OptionsOf(key) == {i \in DOMAIN m.opts : m.opts[i].key = key}
  IN  /\ p.ret = "ok" /\ p.sub = m.sub /\ p.args = m.args
      /\ \A o \in ToSet(Bindings[m.name].opts) :
           IF OptionsOf(o.key) = {} THEN ~srn_command_get_opt(p, o.key).given
           ELSE \E i \in OptionsOf(o.key) :
                  srn_command_get_opt(p, o.key) = [given |-> TRUE, value |-> m.opts[i].value]

(* A command written as the documentation has it is read as it was meant,  *)
(* blanks, hyphens, backslashes and the marks of bare texts included, if   *)
(* it escapes no quotation mark.                                           *)
ReadAsWritten ==
  typedCommand # <<>> /\ Readable(typedCommand.cmd) /\ ~MarksEscaped(typedCommand.cmd, typedCommand.bare) =>
    ReadAsMeant(parsed, typedCommand.cmd)

(* "If you want to use a single quotation mark in a quoted text, use       *)
(* backslash \ to escape it" (docs/commands.rst): it is read as it was     *)
(* meant if it does.  In the code the backslash stays, and the mark goes.  *)
EscapedMarksRead ==
  typedCommand # <<>> /\ Readable(typedCommand.cmd) /\ MarksEscaped(typedCommand.cmd, typedCommand.bare) =>
    ReadAsMeant(parsed, typedCommand.cmd)
=============================================================================
