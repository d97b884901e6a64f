----------------------------- MODULE MircColors -----------------------------
(***************************************************************************)
(* mIRC formatting turned into Pango markup (mirc_colorize_renderer.c on   *)
(* top of lib/markup_renderer.c): a control character opens or closes a    *)
(* tag, and markup has to be nested, so whatever was opened after a tag is *)
(* closed with it and opened again.                                        *)
(*                                                                         *)
(* The message is read control by control and may go on for ever.  A       *)
(* colour code is a foreground and a background, each given or not, each   *)
(* valid or not; its digits are not modelled.                              *)
(***************************************************************************)
EXTENDS Naturals, Sequences, FiniteSets, SequencesExt

CONSTANTS
  Colors,  \* the valid colours
  NoColor, \* MIRC_COLOR_UNKNOWN
  Invalid, \* a number beyond the table
  Absent   \* a number that is left out

ASSUME InvalidIsNoColor == Invalid \notin Colors \cup {NoColor}

Toggles == {"bold", "italics", "underline"}
Silent  == {"reverse", "blink"}   \* kept on the stack, never written
Controls == Toggles \cup Silent \cup {"color"}

VARIABLES
  ctx,   \* ColorlizeContext: stack, fg_color, bg_color; what the markup
         \* written to str has open, and whether it was nested so far
  styles,\* history: what the controls read so far ask for
  ink    \* history: the foreground and background they ask for

mircVars == <<ctx, styles, ink>>

NoMarkup == [stack |-> <<>>, fg |-> NoColor, bg |-> NoColor, open |-> <<>>, nested |-> TRUE]

MircTypeOK ==
  /\ ctx.stack \in Seq(Controls) /\ IsInjective(ctx.stack)
  /\ {ctx.fg, ctx.bg} \subseteq Colors \cup {NoColor}
  /\ ctx.nested \in BOOLEAN
  /\ styles \subseteq Controls
  /\ ink \in [fg : Colors \cup {NoColor}, bg : Colors \cup {NoColor}]

MircInit == ctx = NoMarkup /\ styles = {} /\ ink = [fg |-> NoColor, bg |-> NoColor]

-----------------------------------------------------------------------------
Valid(color) == IF color = Invalid THEN NoColor ELSE color

(* Of the two colours the tag takes the foreground, if there is one. *)
Shown(fg, bg) == IF fg # NoColor THEN <<"foreground", fg>> ELSE <<"background", bg>>

(* do_colorize with a control that is not on the stack. *)
OpenTag(c, ch) ==
  CASE ch \in Silent  -> [c EXCEPT !.stack = Append(@, ch)]
    [] ch \in Toggles -> [c EXCEPT !.stack = Append(@, ch), !.open = Append(@, <<ch>>)]
    [] ch = "color" ->
         LET fg == Valid(c.fg)
             bg == Valid(c.bg)
             d  == [c EXCEPT !.fg = fg, !.bg = bg]
         IN  IF fg = NoColor /\ bg = NoColor THEN d
             ELSE [d EXCEPT !.stack = Append(@, ch), !.open = Append(@, <<ch>> \o Shown(fg, bg))]

(* A closing tag is written: in markup it must be that of the last one. *)
CloseTag(c, ch) ==
  IF ch \in Silent THEN c
  ELSE IF c.open = <<>> THEN [c EXCEPT !.nested = FALSE]
  ELSE [c EXCEPT !.open = Front(@), !.nested = @ /\ Last(c.open)[1] = ch]

(* Mutant: the tags closed on the way are not opened again. *)
Reopened_Nothing(c, tags) == c

Reopened(c, tags) == FoldLeft(OpenTag, c, tags)

(* do_colorize with a control that is on the stack at p. *)
CloseUpTo(c, ch, p) ==
  LET above  == SubSeq(c.stack, p + 1, Len(c.stack))
      closed == FoldLeft(CloseTag, c, Reverse(<<ch>> \o above))
      again  == Reopened([closed EXCEPT !.stack = SubSeq(@, 1, p - 1)], above)
  IN  IF ch = "color" /\ (again.fg # NoColor \/ again.bg # NoColor)
        THEN OpenTag(again, ch) ELSE again

do_colorize(c, ch) ==
  LET p == SelectInSeq(c.stack, LAMBDA x : x = ch)
  IN  IF p = 0 THEN OpenTag(c, ch) ELSE CloseUpTo(c, ch, p)

(* MIRC_PLAIN: the colours first, then the stack from its top. *)
Plain(c) ==
  FoldLeft(do_colorize, [c EXCEPT !.fg = NoColor, !.bg = NoColor], Reverse(c.stack))

Toggled(ch) == (styles \ {ch}) \cup ({ch} \ styles)

ReadToggle(ch) ==
  /\ ctx' = do_colorize(ctx, ch)
  /\ styles' = Toggled(ch) /\ UNCHANGED ink

(* A colour code without a number clears both, one without one of them     *)
(* keeps it.                                                               *)
ReadColor(fg, bg) ==
  LET New(color, old) == IF fg = Absent /\ bg = Absent THEN NoColor
                         ELSE IF color = Absent THEN old ELSE color
  IN  /\ ctx' = do_colorize([ctx EXCEPT !.fg = New(fg, @), !.bg = New(bg, @)], "color")
      /\ ink' = [fg |-> Valid(New(fg, ink.fg)), bg |-> Valid(New(bg, ink.bg))]
      /\ UNCHANGED styles

(* MIRC_PLAIN and the end of the text. *)
ReadPlain ==
  /\ ctx' = Plain(ctx)
  /\ styles' = {} /\ ink' = [fg |-> NoColor, bg |-> NoColor]

MircNext ==
  \/ \E ch \in Toggles \cup Silent : ReadToggle(ch)
  \/ \E fg, bg \in Colors \cup {Invalid, Absent} : ReadColor(fg, bg)
  \/ ReadPlain

MircSpec == MircInit /\ [][MircNext]_mircVars

-----------------------------------------------------------------------------
(* Whatever controls a message has and in whichever order, the markup is   *)
(* nested, and the text that follows is in the styles that are switched on *)
(* and in the colour last asked for, and in nothing else: the other tags   *)
(* survive the closing of one, and the end of the text closes all.         *)
ShownAsAsked ==
  /\ ctx.nested
  /\ ToSet(ctx.open) = {<<ch>> : ch \in styles \cap Toggles}
       \cup (IF ink.fg = NoColor /\ ink.bg = NoColor THEN {}
             ELSE {<<"color">> \o Shown(ink.fg, ink.bg)})
  /\ Len(ctx.open) = Cardinality(ToSet(ctx.open))
=============================================================================
