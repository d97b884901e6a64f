------------------------------ MODULE JoinPanel ------------------------------
(***************************************************************************)
(* The join panel of a server (sui/sui_join_panel.c): the list of channels *)
(* that the numerics 321, 322 and 323 fill (sui.c, sui_server_buffer.c),   *)
(* and the entry of a channel with its password, which is looked up in the *)
(* secret service without waiting (config/password.c).                     *)
(*                                                                         *)
(* The server answers one LIST after the other, and may leave out the      *)
(* first line of an answer; a connection may end within one.  The list is  *)
(* the same each time; what the filter hides is still in it.               *)
(***************************************************************************)
EXTENDS Naturals, Sequences, SequencesExt

CONSTANTS
  Channels,    \* names in the entry
  Listing,     \* what the server lists
  MaxRequests, \* LISTs that are sent
  MaxListCuts  \* connections that end

ASSUME ListingIsList == Listing \in Seq(ToSet(Listing))
ASSUME ListBounds == MaxRequests \in Nat /\ MaxListCuts \in Nat

NoChannel == ""
Passwords == {"key1", "key2"}
NoPassword == ""

VARIABLES
  announces, \* the server sends 321
  answer,    \* the lines of the server that are under way
  lists,     \* LISTs that were sent
  cuts,
  adding,    \* is_adding
  rows,      \* chan_list_store
  page,
  entry,     \* chan_entry
  key,       \* password_entry
  lookups,   \* channels whose password is being looked up
  keyring,   \* the secret service
  joined,    \* history: the last JOIN that was sent
  kept,      \* history: rows that were there when the last answer began
  listed     \* history: an answer was received to its end

joinVars == <<announces, answer, lists, cuts, adding, rows, page, entry, key,
              lookups, keyring, joined, kept, listed>>

listVars == <<announces, answer, lists, cuts, adding, rows, kept, listed>>
entryVars == <<page, entry, key, lookups, keyring, joined>>

JoinTypeOK ==
  /\ {announces, adding, listed} \subseteq BOOLEAN
  /\ lists \in 0..MaxRequests /\ cuts \in 0..MaxListCuts
  /\ rows \in Seq(ToSet(Listing)) /\ kept \in Seq(ToSet(Listing))
  /\ page \in {"join", "search"}
  /\ entry \in Channels \cup {NoChannel} /\ key \in Passwords \cup {NoPassword}
  /\ lookups \subseteq Channels
  /\ keyring \in [Channels -> Passwords \cup {NoPassword}]

JoinInit ==
  /\ announces \in BOOLEAN
  /\ answer = <<>> /\ lists = 0 /\ cuts = 0
  /\ adding = FALSE /\ rows = <<>> /\ kept = <<>> /\ listed = FALSE
  /\ page = "join" /\ entry = NoChannel /\ key = NoPassword /\ lookups = {}
  /\ keyring = [c \in Channels |-> NoPassword]
  /\ joined = <<NoChannel, NoPassword>>

-----------------------------------------------------------------------------
(* The list.                                                               *)

Start == <<"start">>
Row(c) == <<"row", c>>
End == <<"end">>

(* refresh_button_on_clicked: another LIST may be under way. *)
Refresh ==
  /\ lists < MaxRequests /\ lists' = lists + 1
  /\ answer' = answer \o (IF announces THEN <<Start>> ELSE <<>>)
                      \o [i \in DOMAIN Listing |-> Row(Listing[i])] \o <<End>>
  /\ UNCHANGED <<announces, cuts, adding, rows, kept, listed>> /\ UNCHANGED entryVars

(* Nothing tells the panel. *)
Cut ==
  /\ answer # <<>> /\ cuts < MaxListCuts /\ cuts' = cuts + 1
  /\ answer' = <<>>
  /\ UNCHANGED <<announces, lists, adding, rows, kept, listed>> /\ UNCHANGED entryVars

Receive(line) ==
  /\ answer # <<>> /\ Head(answer) = line /\ answer' = Tail(answer)
  /\ UNCHANGED <<announces, lists, cuts>> /\ UNCHANGED entryVars

(* Mutant: the old rows stay. *)
RowsAtStart_Kept == rows

(* sui_server_buffer_clear_channel *)
RowsAtStart == <<>>

(* sui_chan_list_start is refused while a list is being added. *)
ListStart ==
  /\ Receive(Start)
  /\ adding' = TRUE
  /\ rows' = IF adding THEN rows ELSE RowsAtStart
  /\ kept' = IF adding THEN rows ELSE <<>>
  /\ UNCHANGED listed

(* sui_chan_list_add is refused without it. *)
ListAdd(c) ==
  /\ Receive(Row(c))
  /\ rows' = IF adding THEN Append(rows, c) ELSE rows
  /\ UNCHANGED <<adding, kept, listed>>

(* sui_chan_list_end *)
ListEnd ==
  /\ Receive(End)
  /\ adding' = FALSE /\ listed' = (listed \/ adding)
  /\ UNCHANGED <<rows, kept>>

-----------------------------------------------------------------------------
(* The entry.                                                              *)

(* chan_entry_on_changed *)
SetEntry(c) ==
  /\ entry' = c
  /\ IF c = NoChannel THEN key' = NoPassword /\ UNCHANGED lookups
                      ELSE lookups' = lookups \cup {c} /\ UNCHANGED key

TypeChannel(c) ==
  /\ page = "join" /\ c # entry /\ SetEntry(c)
  /\ UNCHANGED <<page, keyring, joined>> /\ UNCHANGED listVars

TypeKey(k) ==
  /\ page = "join" /\ key' = k
  /\ UNCHANGED <<page, entry, lookups, keyring, joined>> /\ UNCHANGED listVars

(* stack_on_child_changed, without an effect on the data *)
TurnPage ==
  /\ page' = IF page = "join" THEN "search" ELSE "join"
  /\ UNCHANGED <<entry, key, lookups, keyring, joined>> /\ UNCHANGED listVars

(* chan_tree_view_on_row_activate *)
ActivateRow(c) ==
  /\ page = "search" /\ c \in ToSet(rows) \cap Channels
  /\ page' = "join"
  /\ IF c = entry THEN UNCHANGED <<entry, key, lookups>> ELSE SetEntry(c)
  /\ UNCHANGED <<keyring, joined>> /\ UNCHANGED listVars

(* srn_config_manager_lookup_channel_password: nothing is written to the   *)
(* variable when the secret service has none.                              *)
LookedUp(c, else) == IF keyring[c] = NoPassword THEN else ELSE keyring[c]

(* on_password_lookup: whatever the entry says by now; no password is no   *)
(* change, so that of another channel stays.                               *)
LookupDone(c) ==
  /\ c \in lookups /\ lookups' = lookups \ {c}
  /\ key' = LookedUp(c, key)
  /\ UNCHANGED <<page, entry, keyring, joined>> /\ UNCHANGED listVars

(* sui_join_panel_clear *)
ClearPanel == entry' = NoChannel /\ key' = NoPassword

ClickCancel == ClearPanel /\ UNCHANGED <<page, lookups, keyring, joined>> /\ UNCHANGED listVars

(* srn_config_manager_store_channel_password, or _clear_ when it is empty. *)
Stored(c, k) == [keyring EXCEPT ![c] = k]

(* join_button_on_click: the password is stored or forgotten first; the    *)
(* panel closes when JOIN could be sent.                                   *)
ClickJoin(c, remember, ok) ==
  /\ LET k == IF page = "join" THEN key ELSE NoPassword
     IN  /\ IF page = "join" THEN c = entry ELSE ~remember
         /\ keyring' = IF remember /\ c # NoChannel THEN Stored(c, k) ELSE keyring
         /\ joined' = IF ok THEN <<c, k>> ELSE joined
  /\ IF ok THEN ClearPanel ELSE UNCHANGED <<entry, key>>
  /\ UNCHANGED <<page, lookups>> /\ UNCHANGED listVars

JoinNext ==
  \/ Refresh \/ Cut \/ ListStart \/ ListEnd \/ TurnPage \/ ClickCancel
  \/ \E c \in ToSet(Listing) : ListAdd(c)
  \/ \E c \in Channels : LookupDone(c) \/ ActivateRow(c)
  \/ \E c \in Channels \cup {NoChannel} :
       TypeChannel(c) \/ \E remember, ok \in BOOLEAN : ClickJoin(c, remember, ok)
  \/ \E k \in Passwords \cup {NoPassword} : TypeKey(k)

JoinSpec == JoinInit /\ [][JoinNext]_joinVars

-----------------------------------------------------------------------------
(* Whenever the panel says that it is not loading, it shows the whole list *)
(* of the last answer, however many were asked for at once and wherever    *)
(* connections ended, after what such an end left behind; and nothing from *)
(* a server that does not announce its list.                               *)
ListShown ==
  ~adding => rows = IF announces /\ listed THEN kept \o Listing ELSE <<>>
=============================================================================
