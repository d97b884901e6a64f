------------------------------- MODULE Window -------------------------------
(***************************************************************************)
(* The buffers of the main window (sui/sui_window.c, sui/sui_side_bar.c,   *)
(* sui/sui.c): the stack shows one of them, the side bar selects its row,  *)
(* the core is told of it (SUI_EVENT_CUTOVER).  What the user types in a   *)
(* buffer is sent by a timer, a line per tick (sui_buffer_send_input),     *)
(* until the lines are used up, one fails or the user stops it.            *)
(*                                                                         *)
(* GTK is external: a stack that loses its visible child shows the first   *)
(* one left; a source in dispatch is not dispatched again.  A line is one  *)
(* of a few kinds: a text, a command that fails, that opens or closes a    *)
(* buffer, or that waits in a nested main loop (srn_server_wait).          *)
(***************************************************************************)
EXTENDS Naturals, Sequences, SequencesExt

CONSTANTS
  Buffers,
  NoBuffer,
  MaxTyped,   \* lines the user types
  MaxClicks,  \* clicks on the send button that start a timer
  MaxUnread   \* messages counted in a buffer

ASSUME WindowAssumption == MaxTyped \in Nat /\ MaxClicks \in Nat /\ MaxUnread \in Nat

LineKinds == {"text", "fail", "open", "close", "wait"}

VARIABLES
  stack,    \* buffer_stack: the buffers in their order
  visible,  \* its visible child
  row,      \* the selected row of the side bar
  core,     \* the chat the core takes for the current one
  unread,   \* unread_count_label of each buffer
  input,    \* the lines in the input of each buffer
  typed,    \* how many lines were typed, which is the number of the last one
  timer,    \* send_timer: 0 or the number of the click that started it
  clicks,
  calls,    \* the sends that wait, the innermost one last
  clickedIn,\* history: the buffer the last click was for
  timesSent,\* history: how often each line was sent
  disturbed \* history: the lines that waited when their buffer was typed or
            \* clicked in, or closed

windowVars == <<stack, visible, row, core, unread, input, typed, timer, clicks,
                calls, clickedIn, timesSent, disturbed>>

Live == ToSet(stack)
InWait(b) == {calls[i].line.id : i \in {j \in DOMAIN calls : calls[j].buf = b}}

WindowTypeOK ==
  /\ Live \subseteq Buffers /\ visible \in Live \cup {NoBuffer}
  /\ row \in Live \cup {NoBuffer} /\ core \in Buffers \cup {NoBuffer}
  /\ unread \in [Buffers -> 0..MaxUnread]
  /\ timer \in 0..clicks /\ clicks \in 0..MaxClicks
  /\ \A b \in Buffers : \A i \in DOMAIN input[b] : input[b][i].kind \in LineKinds

WindowInit ==
  /\ stack = <<>> /\ visible = NoBuffer /\ row = NoBuffer /\ core = NoBuffer
  /\ unread = [b \in Buffers |-> 0]
  /\ input = [b \in Buffers |-> <<>>] /\ typed = 0
  /\ timer = 0 /\ clicks = 0 /\ calls = <<>>
  /\ clickedIn = NoBuffer /\ timesSent = [i \in 1..MaxTyped |-> 0] /\ disturbed = {}

-----------------------------------------------------------------------------
(* Mutant: a sending goes on in the buffer that is shown now. *)
TimerAfterShow_Kept(old, new) == timer

(* buffer_stack_on_child_changed cancels the sending. *)
TimerAfterShow(old, new) == IF old = new THEN timer ELSE 0

(* Mutant: the core is told of a buffer only when its row is there already, *)
(* which is not so while it is added.                                       *)
CutOver_Row(b, old, added) == IF added THEN old ELSE b

(* on_child_changed of the side bar: SUI_EVENT_CUTOVER. *)
CutOver(b, old, added) == b

(* sui_side_bar_item_clear_count *)
Seen(b) == [unread EXCEPT ![b] = 0]

(* sui_side_bar_item_inc_count, as far as it is told apart *)
MoreUnread(b) == [unread EXCEPT ![b] = IF @ < MaxUnread THEN @ + 1 ELSE @]

(* The visible child becomes b: its row is selected, its counter cleared,  *)
(* the core told.  An empty stack selects nothing and tells nobody.        *)
Show(b, added) ==
  /\ visible' = b /\ row' = b
  /\ core' = IF b = NoBuffer THEN core
             ELSE IF b = visible THEN core ELSE CutOver(b, core, added)
  /\ unread' = IF b = NoBuffer THEN unread ELSE Seen(b)
  /\ timer' = TimerAfterShow(visible, b)

(* add_child and remove_child: the side bar follows the stack. *)
RowAdded(b) == Append(stack, b)
RowRemoved(b) == RemoveAt(stack, CHOOSE i \in DOMAIN stack : stack[i] = b)

(* sui_new_buffer, sui_window_add_buffer: shown at once. *)
Opened(b) == stack' = RowAdded(b) /\ Show(b, TRUE)

(* sui_free_buffer, sui_window_rm_buffer. *)
Closed(b) ==
  LET left == RowRemoved(b)
  IN  /\ stack' = left
      /\ IF visible # b THEN UNCHANGED <<visible, row, core, unread, timer>>
         ELSE Show(IF left = <<>> THEN NoBuffer ELSE Head(left), FALSE)

(* A chat is made: a server added, a channel joined, a message of somebody. *)
OpenBuffer(b) ==
  /\ b \notin Live
  /\ Opened(b)
  /\ UNCHANGED <<input, typed, clicks, calls, clickedIn, timesSent, disturbed>>

(* A chat is removed by the core, or closed from its menu; a line of it    *)
(* may be waiting.                                                         *)
CloseBuffer(b) ==
  /\ b \in Live
  /\ Closed(b)
  /\ input' = [input EXCEPT ![b] = <<>>]
  /\ disturbed' = disturbed \cup InWait(b)
  /\ UNCHANGED <<typed, clicks, calls, clickedIn, timesSent>>

(* listbox_on_row_selected, by a click or sui_side_bar_prev and _next;     *)
(* sui_activate_buffer comes to the same.                                  *)
SelectRow(b) ==
  /\ b \in Live /\ b # visible
  /\ Show(b, FALSE)
  /\ UNCHANGED <<stack, input, typed, clicks, calls, clickedIn, timesSent, disturbed>>

(* sui_buffer_add_message: counted unless the buffer is the current one. *)
AddMessage(b) ==
  /\ b \in Live
  /\ unread' = IF b = visible THEN Seen(b) ELSE MoreUnread(b)
  /\ UNCHANGED <<stack, visible, row, core, input, typed, timer, clicks, calls,
                 clickedIn, timesSent, disturbed>>

-----------------------------------------------------------------------------
(* Sending.                                                                *)

(* The input is locked while the timer runs. *)
TypeLine(kind) ==
  /\ visible # NoBuffer /\ timer = 0 /\ typed < MaxTyped
  /\ typed' = typed + 1
  /\ input' = [input EXCEPT ![visible] = Append(@, [id |-> typed + 1, kind |-> kind])]
  /\ disturbed' = disturbed \cup InWait(visible)
  /\ UNCHANGED <<stack, visible, row, core, unread, timer, clicks, calls, clickedIn, timesSent>>

(* send_button_on_clicked: starts the timer or cancels it. *)
Click ==
  /\ visible # NoBuffer
  /\ IF timer = 0
       THEN /\ clicks < MaxClicks /\ clicks' = clicks + 1 /\ timer' = clicks + 1
            /\ clickedIn' = visible /\ disturbed' = disturbed \cup InWait(visible)
       ELSE timer' = 0 /\ UNCHANGED <<clicks, clickedIn, disturbed>>
  /\ UNCHANGED <<stack, visible, row, core, unread, input, typed, calls, timesSent>>

Busy == {calls[i].timer : i \in DOMAIN calls}
TickDue == timer # 0 /\ timer \notin Busy /\ visible # NoBuffer

(* send_message_timeout with nothing left. *)
TickEmpty ==
  /\ TickDue /\ input[visible] = <<>>
  /\ timer' = 0
  /\ UNCHANGED <<stack, visible, row, core, unread, input, typed, clicks, calls,
                 clickedIn, timesSent, disturbed>>

SendFirst(kind) ==
  /\ TickDue /\ input[visible] # <<>> /\ Head(input[visible]).kind = kind
  /\ timesSent' = [timesSent EXCEPT ![Head(input[visible]).id] = @ + 1]
  /\ UNCHANGED <<typed, clicks, clickedIn, disturbed>>

(* The line is deleted whatever came of it. *)
LinesAfter(b) == [input EXCEPT ![b] = Tail(@)]

TickText(ok) ==
  /\ SendFirst(IF ok THEN "text" ELSE "fail")
  /\ input' = LinesAfter(visible)
  /\ timer' = IF ok THEN timer ELSE 0
  /\ UNCHANGED <<stack, visible, row, core, unread, calls>>

(* /query: the other buffer is shown, which cancels the sending. *)
TickOpen(b) ==
  /\ SendFirst("open")
  /\ IF b \in Live THEN UNCHANGED stack /\ Show(b, FALSE) ELSE Opened(b)
  /\ input' = LinesAfter(visible)
  /\ UNCHANGED calls

(* /unquery and the like close the buffer the line is sent from.  (The     *)
(* code then goes on with the buffer that is freed.)                       *)
TickClose ==
  /\ SendFirst("close")
  /\ Closed(visible)
  /\ input' = [input EXCEPT ![visible] = <<>>]
  /\ UNCHANGED calls

(* /server connect and the like: the line is still there while it waits. *)
TickWait ==
  /\ SendFirst("wait")
  /\ calls' = Append(calls, [buf |-> visible, line |-> Head(input[visible]),
                             timer |-> timer, text |-> input[visible]])
  /\ UNCHANGED <<stack, visible, row, core, unread, input, timer>>

(* The nested loops end one after the other, the innermost first.  A text  *)
(* that has changed meanwhile is left alone: the iterators are invalid; so *)
(* is every other when the buffer was closed, which the code then uses     *)
(* although it is freed, unless that crashes.  A command that failed ends  *)
(* whichever sending is under way by then.                                 *)
WaitEnds ==
  /\ calls # <<>>
  /\ LET c == Last(calls)
     IN  input' = IF input[c.buf] = c.text THEN [input EXCEPT ![c.buf] = Tail(@)] ELSE input
  /\ calls' = Front(calls)
  /\ timer' \in {timer, 0}
  /\ UNCHANGED <<stack, visible, row, core, unread, typed, clicks, clickedIn, timesSent, disturbed>>

WindowNext ==
  \/ \E b \in Buffers : OpenBuffer(b) \/ CloseBuffer(b) \/ SelectRow(b) \/ AddMessage(b) \/ TickOpen(b)
  \/ \E kind \in LineKinds : TypeLine(kind)
  \/ Click \/ TickEmpty \/ TickClose \/ TickWait \/ WaitEnds
  \/ \E ok \in BOOLEAN : TickText(ok)

WindowSpec == WindowInit /\ [][WindowNext]_windowVars

-----------------------------------------------------------------------------
(* Whichever way buffers come, go and are chosen, the row selected in the  *)
(* side bar and the chat the core acts on (for commands without a name,    *)
(* for replies to WHOIS) are those of the visible buffer, and it has no    *)
(* unread messages.                                                        *)
CurrentAgrees ==
  visible # NoBuffer => row = visible /\ core = visible /\ unread[visible] = 0

(* A line is only ever sent from the buffer the user asked to send in: what *)
(* is still being written in another one stays there, though a new buffer  *)
(* may be shown between two lines.  And it is sent once, failing or not,   *)
(* unless the user stopped the sending while the line waited for a server, *)
(* and then started it again or edited the text.  (Closing the buffer ends *)
(* it with its lines.)                                                     *)
SentAsAsked ==
  [][\A i \in 1..MaxTyped :
       timesSent'[i] # timesSent[i] =>
         /\ visible = clickedIn
         /\ timesSent[i] > 0 => i \in disturbed]_windowVars
=============================================================================
