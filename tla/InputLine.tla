------------------------------ MODULE InputLine ------------------------------
(***************************************************************************)
(* The input of a channel's buffer: what the user typed, the history of    *)
(* what was sent, browsed with Up and Down (sui/sui_buffer.c), and the     *)
(* completion with Tab (sui/sui_completion.c) of commands, of senders of   *)
(* the last messages and of users of the channel.  All of them write to    *)
(* the same text buffer.                                                   *)
(*                                                                         *)
(* The text is one line, with the cursor at its end.  GTK is external: a   *)
(* mark with left gravity stays where it is when text is inserted there,   *)
(* and goes to the start of what is deleted around it.                     *)
(***************************************************************************)
EXTENDS Naturals, Sequences, SequencesExt

CONSTANTS
  MaxHistory,  \* 10
  Typable,     \* characters the user types
  Bound,       \* the names of commands, as sequences of characters
  Members,     \* the nicks of the channel, in the order of the user list
  MaxKeys,     \* keys pressed, Return apart
  MaxSent      \* lines sent

Blank == " "
Slash == "/"
Colon == ":"

(* What the input may hold. *)
Letters == Typable \cup {Colon} \cup UNION {ToSet(n) : n \in ToSet(Bound) \cup ToSet(Members)}

ASSUME InputBounds == MaxHistory \in Nat \ {0} /\ MaxKeys \in Nat /\ MaxSent \in Nat
ASSUME NamesAreWords ==
  /\ Bound \in Seq(Seq(Letters)) /\ Members \in Seq(Seq(Letters))
  /\ \A n \in ToSet(Bound) \cup ToSet(Members) : n # <<>> /\ Blank \notin ToSet(n)

VARIABLES
  content,     \* input_text_buffer
  history,     \* input_history: lines, the oldest first, and the stage
  staged,      \* input_stage is its last element
  iter,        \* input_history_iter, 0 without a history
  present,     \* members in the user list
  senders,     \* the senders of the last messages, the latest first
  tabbed,      \* last_func is set
  mark,        \* completion-position
  offers,      \* model
  offer,       \* iter of the model
  last,        \* last_prefix and last_suffix
  keys,
  sentLines,   \* history: lines that were sent
  draft,       \* history: the text when browsing began
  pressed      \* history: the last key

completionVars == <<tabbed, mark, offers, offer, last>>
browseVars == <<history, staged, iter, draft>>
inputVars == <<content, browseVars, present, senders, completionVars, keys, sentLines, pressed>>

NoOffer == [prefix |-> <<>>, suffix |-> <<>>]
Suffix == <<Colon>>  \* nick-completion-suffix

InputTypeOK ==
  /\ staged => history # <<>>
  /\ Len(history) <= MaxHistory + 1
  /\ iter \in (IF history = <<>> THEN {0} ELSE DOMAIN history)
  /\ mark \in 0..Len(content)
  /\ offer \in (IF offers = <<>> THEN {1} ELSE DOMAIN offers)
  /\ present \subseteq ToSet(Members) /\ ToSet(senders) \subseteq ToSet(Members)

InputInit ==
  /\ content = <<>> /\ history = <<>> /\ staged = FALSE /\ iter = 0
  /\ present = ToSet(Members) /\ senders = <<>>
  /\ tabbed = FALSE /\ mark = 0 /\ offers = <<>> /\ offer = 1 /\ last = NoOffer
  /\ keys = 0 /\ sentLines = <<>> /\ draft = <<>> /\ pressed = "other"

Key(k) == keys < MaxKeys /\ keys' = keys + 1 /\ pressed' = k

-----------------------------------------------------------------------------
(* The history.                                                            *)

(* Mutant: the draft stays in the list. *)
Unstaged_Kept(h) == h

Unstaged(h) == IF staged THEN Front(h) ELSE h

(* reset_browse_input *)
Reset(h) == history' = h /\ staged' = FALSE /\ iter' = Len(h)

(* push_input_history *)
Pushed(h, line) ==
  IF h # <<>> /\ Last(h) = line THEN h
  ELSE IF Len(h) = MaxHistory THEN Append(Tail(h), line)
  ELSE Append(h, line)

SetText(line) == content' = line /\ mark' = 0 /\ UNCHANGED <<tabbed, offers, offer, last>>

(* sui_buffer_browse_prev_input, start_browse_input *)
Up ==
  /\ iter # 0 /\ Key("other")
  /\ IF staged
       THEN /\ iter > 1 /\ iter' = iter - 1
            /\ SetText(history[iter - 1])
            /\ UNCHANGED <<history, staged, draft>>
       ELSE /\ history' = Append(history, content) /\ staged' = TRUE /\ draft' = content
            /\ SetText(history[iter])
            /\ UNCHANGED iter
  /\ UNCHANGED <<present, senders, sentLines>>

(* sui_buffer_browse_next_input: from the stage on, browsing ends and the  *)
(* text stays.                                                             *)
Down ==
  /\ staged /\ Key("down")
  /\ IF iter < Len(history)
       THEN /\ iter' = iter + 1 /\ SetText(history[iter + 1])
            /\ UNCHANGED <<history, staged>>
       ELSE /\ Reset(Unstaged(history)) /\ UNCHANGED <<content, completionVars>>
  /\ UNCHANGED <<draft, present, senders, sentLines>>

(* sui_buffer_send_input with a line; without one nothing happens, and     *)
(* browsing goes on.                                                       *)
Send ==
  /\ content # <<>> /\ Len(sentLines) < MaxSent
  /\ pressed' = "other" /\ sentLines' = Append(sentLines, content)
  /\ Reset(Pushed(Unstaged(history), content))
  /\ SetText(<<>>)
  /\ UNCHANGED <<draft, present, senders, keys>>

Type(c) ==
  /\ Key("other") /\ content' = Append(content, c)
  /\ UNCHANGED <<browseVars, present, senders, completionVars, sentLines>>

Erase ==
  /\ content # <<>> /\ Key("other") /\ content' = Front(content)
  /\ mark' = IF mark > Len(content') THEN Len(content') ELSE mark
  /\ UNCHANGED <<browseVars, present, senders, tabbed, offers, offer, last, sentLines>>

-----------------------------------------------------------------------------
(* Completion.                                                             *)

(* g_utf8_strdown *)
Folded(s) == [i \in DOMAIN s |-> IF s[i] = "A" THEN "a" ELSE s[i]]

(* The names of the list that are in the set, in the order of the list. *)
Among(names, set) ==
  FoldLeft(LAMBDA found, n : IF n \in set THEN Append(found, n) ELSE found, <<>>, names)

Extending(names, word) == Among(names, {n \in ToSet(names) : IsPrefix(Folded(word), Folded(n))})
After(name, word) == SubSeq(name, Len(word) + 1, Len(name))

(* What follows the last blank. *)
BeforeWord(context) == SelectLastInSeq(context, LAMBDA c : c = Blank)
LastWord(context) == SubSeq(context, BeforeWord(context) + 1, Len(context))

(* srn_chat_complete_command completes the whole of the context.           *)
CommandOffers(context) ==
  LET fit == Extending(Bound, context)
  IN  IF context = <<>> \/ context[1] # Slash THEN <<>>
      ELSE [i \in DOMAIN fit |-> [prefix |-> context, suffix |-> After(fit[i], context)]]

NickOffers(nicks, word, suffix) ==
  LET fit == Extending(nicks, word)
  IN  [i \in DOMAIN fit |->
         [prefix |-> SubSeq(fit[i], 1, Len(word)), suffix |-> After(fit[i], word) \o suffix]]

(* real_completion_func: commands and the last senders. *)
BufferOffers(context) ==
  CommandOffers(context) \o NickOffers(senders, LastWord(context), <<>>)

(* sui_chat_buffer_completion_func: then the users, if a word was begun    *)
(* (sui_user_list_get_users_by_prefix).                                    *)
Offers(context) ==
  LET word == LastWord(context)
  IN  BufferOffers(context)
        \o (IF word = <<>> THEN <<>>
            ELSE NickOffers(Among(Members, present), word, Suffix))

(* sui_completion_complete from where it found nothing changed: an empty   *)
(* prefix is not replaced (gtk_text_iter_backward_chars by 0).             *)
Insert(m, os, o) ==
  LET c == os[o]
      start == m - Len(c.prefix)
  IN  /\ last' = c /\ offers' = os
      /\ IF c.prefix = <<>>
           THEN mark' = m /\ offer' = o /\ UNCHANGED content
           ELSE /\ content' = SubSeq(content, 1, start) \o c.prefix \o c.suffix
                /\ mark' = start
                /\ offer' = IF o = Len(os) THEN 1 ELSE o + 1

(* The text is as the last completion left it. *)
AsCompleted ==
  /\ tabbed
  /\ IsSuffix(last.prefix, SubSeq(content, 1, mark))
  /\ Folded(SubSeq(content, mark + 1, Len(content))) = Folded(last.suffix)

(* reset_state with an empty list of offers *)
ResetToNothing ==
  /\ mark' = Len(content) /\ offers' = <<>> /\ offer' = 1 /\ last' = NoOffer
  /\ UNCHANGED content

(* sui_completion_complete *)
Tab ==
  /\ Key("tab") /\ tabbed' = TRUE
  /\ CASE AsCompleted /\ offers # <<>> -> Insert(mark, offers, offer)
       [] AsCompleted /\ offers = <<>> -> UNCHANGED <<content, mark, offers, offer, last>>
       [] ~AsCompleted /\ Offers(content) # <<>> -> Insert(Len(content), Offers(content), 1)
       [] OTHER -> ResetToNothing
  /\ UNCHANGED <<browseVars, present, senders, sentLines>>

(* Users come and go, and write. *)
JoinOrPart(n) ==
  /\ present' = IF n \in present THEN present \ {n} ELSE present \cup {n}
  /\ pressed' = "other"
  /\ UNCHANGED <<content, browseVars, senders, completionVars, keys, sentLines>>

Says(n) ==
  /\ senders = <<>> /\ n \in present
  /\ senders' = <<n>> /\ pressed' = "other"
  /\ UNCHANGED <<content, browseVars, present, completionVars, keys, sentLines>>

InputNext ==
  \/ Up \/ Down \/ Send \/ Erase \/ Tab
  \/ \E c \in Typable : Type(c)
  \/ \E n \in ToSet(Members) : JoinOrPart(n) \/ Says(n)

InputSpec == InputInit /\ [][InputNext]_inputVars

-----------------------------------------------------------------------------
(* The last MaxHistory of the lines, each run of equal ones as one.        *)
Runs(lines) ==
  FoldLeft(LAMBDA h, l : IF h # <<>> /\ Last(h) = l THEN h ELSE Append(h, l), <<>>, lines)
Recalled(lines) ==
  LET runs == Runs(lines)
  IN  SubSeq(runs, IF Len(runs) > MaxHistory THEN Len(runs) - MaxHistory + 1 ELSE 1, Len(runs))

(* Browsing, editing, completing and sending in any order, the history is  *)
(* what was sent, never a draft; the way back down ends at the draft that  *)
(* browsing began with; and Tab only puts a name in the place of something *)
(* at the end of the text that begins alike, while the rest stays.  (It    *)
(* need not be a word: after "/a a", Tab and the erasing of " a", the next *)
(* Tab still offers nicks for the "a", which now belongs to a command.)    *)
InputKept ==
  [][/\ (IF staged' THEN Front(history') ELSE history') = Recalled(sentLines')
     /\ pressed' = "down" /\ staged' /\ iter' = Len(history') => content' = draft
     /\ pressed' = "tab" /\ content' # content =>
          \E k \in 0..Len(content) - 1 :
            /\ SubSeq(content', 1, k) = SubSeq(content, 1, k)
            /\ \E name \in ToSet(Bound) \cup ToSet(Members) \cup {n \o Suffix : n \in ToSet(Members)} :
                 /\ Folded(SubSeq(content', k + 1, Len(content'))) = Folded(name)
                 /\ Folded(content)[k + 1] = Folded(name)[1]]_inputVars
=============================================================================
