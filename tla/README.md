# Srain: a verification project

Srain is an IRC client in C on GLib/GTK.  This directory holds TLA+ models of
it, the TLC configurations that check them on small instances, and TLAPS
proofs of what holds for every instance.  `PROJECT.json` names, for every
definition, the source lines it stands for.  Paths below are relative to
`src/src/` unless they start with `src/`.

Contents: 1 inventory - 2 models - 3 runs - 4 fairness - 5 proofs - 6 what the
code does against its own documents - 7 what is not modelled - 8 plan.

## 1. Inventory

The program is single threaded.  Everything happens in callbacks of the GLib
main loop: user input (GTK signals), completions of asynchronous network calls,
timeouts and idle sources.  Three things break the simple picture of one atomic
callback after another:

* `srn_server_wait_until_registered` (`core/server.c:215`) runs a *nested* main
  loop inside a command, so any other callback may run in the middle of it;
* timeouts and idle sources carry a raw `SrnServer *`, and only some of them are
  removed when the server is released;
* GTK signals are synchronous: showing a buffer selects a row, which shows a
  buffer, which tells the core, all within one call.

| Component | State | Operations | Talks to | What makes it hard, what makes it correct | Modules |
|---|---|---|---|---|---|
| Server connection (`core/server_state.c`, `core/server.c`, `sirc/sirc.c`) | `state`, `registered`, the session (cancellable, stream, outstanding calls), ids of the reconnect and ping timeouts, place in `srv_list` | connect, disconnect, reconnect, quit; completions; timeouts; removal | called by commands, UI, app; calls the session; is called back by IRC events | cancelled calls that complete late, abandoned timeouts, nested loops, release of memory.  One operation at a time; no connection that was called off comes up; quits and retries complete | `ServerLifecycle`, `ServerConn` |
| Chats and users (`core/chat.c`, `chat_user.c`, `server_user.c`) | the user table, the user lists, joined flags, current chat | JOIN, PART, KICK, QUIT, NICK, NAMES, messages, query/unquery | driven by IRC events and UI | nick as key and object as value change separately, objects are freed when nobody refers to them.  No dangling pointer, user lists equal to what the peer said | `Chats`; ranks in `UserList`; ignore marks in `Messages` |
| Capability negotiation and SASL (`core/server_cap.c`, `irc_event_cap`, `irc_event_authenticate`) | requested and enabled capabilities, `negotiated`, `loggedin` | CAP LS/NEW/ACK/NAK/DEL, AUTHENTICATE, SASL numerics | IRC events, login configuration | CAP NEW/DEL crossing requests, sets that outlive the connection.  Login before CAP END, CAP END always sent | `CapNegotiation` |
| Alternate nicks (`core/user_config.c`) | current against configured nick | next alternate nick, recovery from a ghost | IRC events | arithmetic on lengths, answers that cross.  The retries go round, the nick comes back | `AlternateNick` |
| Receive buffer, line splitting (`sirc/sirc.c`, `sirc_parse.c`) | `buf`, `bufptr` | read one byte, end of line, reset; take a line apart | GIO, dispatch | a line as long as the buffer, a connection that ends within a line, delimiters within fields | `ReceiveBuffer`, `IncomingMessage` |
| IRC event dispatch (`sirc/sirc_event_hdr.c`) | none | message to callback | session | numerics, CTCP, tags | `IncomingMessage` |
| Command builder (`sirc/sirc_cmd*.c`, `io_stream.c`) | the line being built | one function per command; truncate, split at characters | commands | lengths, multi-byte characters, failing and short writes | `Sending` |
| Messages and filters (`core/message.c`, `filter/`, `lib/pattern_set.c`) | pattern sets, ignore marks | renderers, filters, log, notification | chats | order of filters, marks that move with renames | `Messages` |
| Renderers (`render/`, `lib/markup_renderer.c`) | stack of open tags | text to markup | messages | tags that end in another order than they began | `MircColors`; two more in `Messages` |
| Commands (`core/chat_command.c`, `lib/command.c`) | suspended commands | parse and run commands | server, chats | quotation, escapes and options read in place; suspended in the nested loop | `CommandLine`, and the modules of what they act on |
| Application, configuration (`core/app.c`, `config/`, `core/*_config.c`) | `srv_list`, configurations, who points to them | add and remove servers, read, reload | all | a reload frees what servers and chats use | `ConfigReload` |
| UI events (`core/app_ui_event.c`), URLs (`core/app_url.c`) | none | the entry points of the user | server, chats | must be accepted in any state | in `ServerConn`, `Chats`, `Window`, `ConfigReload` |
| User interface (`sui/`) | buffers and side bar; input, history, completion; user list; panels; previews | clicks, keys, timers, late answers | UI events | several copies of one state, synchronous signals, answers that come after their widget is gone | `Window`, `InputLine`, `UserList`, `JoinPanel`, `ConnectPanel`, `UrlPreview` |
| Result values (`lib/ret.c`) | ring of messages | new, read, release | all | oldest message freed while held | none |
| Support library (`lib/`), `libecdsaauth` | none | helpers | all | nothing stateful; the cryptography comes from elsewhere | none |

`PROJECT.json` lists the same parts with their status and, under `hazards`, the
lines where something is hard to test.

## 2. Models

An action is one dispatch of the main loop, with everything the handler calls.
A definition has the name of the C function it stands for, or of the step where
a function has several.  Definitions named `X_Something` with the comment
"Mutant" are deliberately wrong variants of `X`: substituting one for `X` must
break the property it is paired with, which shows that the property does say
something about `X`.

### ServerConn: one server from creation to release

`ServerConn` composes the state machine (`srn_server_state_transfrom`), the
session, the timeouts and the callers, because the hazards lie between them.

| State | Code |
|---|---|
| `life` | not created, in `app->srv_list` (`srn_server_is_valid`), out of it but not released, released |
| `state`, `registered` | `srv->state`, `srv->registered` |
| `connectOps`, `handshakeOps`, `readOps` | asynchronous GIO calls that will still call back |
| `cancelled`, `stream` | `sirc->cancel`, `sirc->stream` |
| `reconnLive`/`reconn_timer`, `pingLive`/`ping_timer` | armed GLib sources, and the field that names one of them; the two differ when a source is abandoned |
| `rejoins`, `idles` | sources whose id nobody keeps |
| `waits` | commands suspended in the nested main loop, the innermost first |

`ActionConnect` ... `ActionDisconnectFinish` are the seven actions of the state
machine; a combination of state and action the `switch` refuses is a disabled
operator.  Commands and UI events (`CommandConnect`, `UserQuit`, ...) and
callbacks (`ConnectReady`, `LinkDown`, `PingTimeout`, `IdleRemove`, ...) call
them as the handlers do.  A handler whose action is refused still does the rest
of what it does (a late `ConnectReady` uses up its operation, `LinkDown` stops
the ping timer first).  What `WaitReturn` does depends on the state in which the
command resumes, not on the one in which it was suspended.

Undefined behaviour: a callback on a released server reads freed memory.
`srn_server_is_valid` compares the pointer with the list, so that what the
build can do short of crashing is return early; the nested loop on a freed
server may or may not end.

### ServerLifecycle: what a server promises

The abstract specification: phases *absent, down, trying, up, ending, gone* and
whether there is a link.  A link is obtained only while trying, lost only into
trying, ending or removal, and gone is final.  `ServerConn` implements it with
`Phase` (from `life` and `state`) and `Link` (`Listed /\ stream # "null"`); the
instance is `Lifecycle`, the statement `ImplementsLifecycle`.  CONNECTING and
RECONNECTING are both *trying*, DISCONNECTING and QUITING both *ending*, so a
timeout that fires or a close that finishes is a stutter.

### Chats: users, lists, channels

`nick` and `table` keep the object and the name of a user apart; `key` records
who owns the memory of a hash key (the table uses the nick *inside* the object
as key), because renaming to a nick that is in the table keeps the key of the
replaced object.  If that object is released, the key dangles, and a lookup is
then a choice between hit and miss.  `list` is the ordered user list of each
chat; the order matters because the first match counts.  `Reclaim` models the
reference counting of `srn_server_user_free` and `srn_chat_user_free`.

The peer (`up`, `inside`, `member`, `listing`) is an IRC server that tells the
truth in order: it reports JOIN, PART, KICK, QUIT and NICK of users in channels
the user is in, and lists the names after a JOIN.  `taken` is a history
variable: has a nick the table remembers been taken over by a rename, and was
the replaced object released.

### CapNegotiation: registration, connection after connection

`server_enabled` and `client_enabled` are the two flag sets of `SrnServerCap`.
Requests travel in the queue `requests`; the peer takes them in order and its
answer is handled in the same step, since the client only sends in answer to a
line.  `New`, `Del` and `LoggedOut` come unasked and cross what is under way.
Capability sets are *kept* between connections (`ResetRegistration`).  `acked`,
`auth`, `ended` and `cut` (it refused a request, or sent a line with nothing to
ask for) are the peer's side; `stale` records whether the sets still belong to
this connection.  SASL EXTERNAL behaves like PLAIN; a `sasl` whose
mechanisms Srain does not know is an unknown capability.

### AlternateNick: how the client comes to a nick

A nick is a base and the underlines behind it.  The client's `requests` and the
server's `events` are two queues, so that a `/nick`, a NICK of a retry, the
Welcome and the QUIT of the holder cross in every order.  `NextAlternate` is
`srn_user_config_get_next_alternate_nick` with its comparison of lengths as
unsigned numbers, `IsAlternate` is the check before the configured nick is taken
back.  Others take and leave the configured nick and its alternates;
`Reconnect` may leave a ghost of the client behind, which holds its nick.

### ReceiveBuffer, IncomingMessage, Sending: the wire

`ReceiveBuffer` is `on_recv_ready`: a byte is stored, `bufptr` compared with
the size afterwards, the line handed over at CR LF.  The buffer survives the
connection.  Storing at `bufptr` before comparing means that the byte behind the
buffer is read into and looked at when a line fills the buffer exactly:
`bufptr` = `BufLen` is a state of the model, as it is of the code, and no
property speaks against it.  A line may be longer than the buffer, since
message-tags and server-time are requested, also in the middle of a connection:
it is dropped in pieces, and its end is handed over as a line of its own.

`IncomingMessage` is `sirc_parse` and `sirc_event_hdr`: the peer chooses a
message and one of the forms the grammar has for it (tags, prefix or none,
parameters or none, the last one with or without a colon, one blank or two in
every gap and at the end), the code cuts the line with `strtok` and calls a
handler, or none.  A string is a sequence of tokens, where delimiters are
tokens and everything between them is a word.  `meant` is the message, `written`
the form it has, `heard` the call of the handler.  Three forms are not heard as
they are meant; `Lost` and `Astray` name them, and `HeardAsMeant` says what
becomes of them.

`Sending` is the other direction: one definition per command of `sirc_cmd.c`
with the line it writes, and `sirc_cmd_msg`, which splits a text into lines at
character boundaries; a character is its width in bytes.  A command that is
longer than 512 bytes loses its end.  A write may take fewer bytes than it was
given, which is reported as success, and may fail in the middle of a message;
`unended` is whether the server holds a line without its end, to which the next
one is glued.  The module
extends `IncomingMessage` because the server that reads the line splits
parameters by the same grammar.

### Messages: from an event to the user

Each event of the server is routed to a chat, goes through the renderers and
the filters in their order, is shown or not, logged or not and notified of or
not (`delivered`, taken away by `Look`).  `userTable` holds the ignore mark and
the attached patterns of the user known by a nick; `Renamed` moves it as
`srn_server_rename_user` does.  The chat's list is searched by nick once more,
and the first entry found is the sender (`Found`): when a nick was taken over,
that may be the one of the user who had it (`LeftEntry`).  People rename, come, leave and take each
other's nicks; `unwanted` records whom the user ignored and who has been in sight
since.  What the code does and one may not expect: NOTE has no chat, `/ignore
-cur` ignores on the whole server, detaching a filter that is not attached is
reported as done, a pattern that is removed and added again comes back to life
where it was attached.

### ConfigReload: who uses which configuration

A configuration is named after its owner (the application, a server, a chat)
and the step that made it; `uses` is who holds a pointer to which one, `freed`
the freed ones, `is` what they say.  `ReadServer` and `ReadChat` are the readers:
general section, then the server's own, then defaults, login and the secret
service, then the checks.  A reload sets the new configurations in the code's
order and stops at the first server whose own is not valid, and a malformed
file leaves the user's configuration empty.  `RemoveServer` frees the server's
configuration in any case, but the server itself and its chats only when it is
DISCONNECTED; otherwise `strays` keeps what they go on with.

### Window, InputLine: the buffers and what is typed in them

`Window` has the stack of buffers, the visible page, the row of the side bar,
the core's current chat and the counters of unread messages.
`CutOver` is the chain of signals between them.  What the user types is sent a
line per tick of a timer; a line may fail, open or close a buffer, or wait in a
nested main loop, in which clicks, typing, the timer, further lines and the
closing of buffers, its own included, go on (`calls` are the suspended ones).
When the buffer of a waiting line was closed, the code goes on with freed memory
(`sui/sui_buffer.c:335`); the model goes on as if that did not crash.

`InputLine` is one buffer's text, its history with Up and Down, and the
completion with Tab: the mark, the offers and the last prefix are kept while
all three change the text.  A mark with left gravity stays where it is when text
is inserted there.

### UserList, JoinPanel, ConnectPanel, UrlPreview: widgets with memory

`UserList` has the rank of each user, the copy in his row, and the counters
that are adjusted by the difference of the two.  `JoinPanel` fills its list from
numerics that a disconnect may cut, and its password from an asynchronous
lookup.  `ConnectPanel` fills a form from configurations and from
lookups that may be late.  `UrlPreview` is a request in two asynchronous steps,
with one `GCancellable`, that the user cancels or that outlives its message.

### MircColors, CommandLine: texts with structure

`MircColors` reads a message control by control, and keeps what the code keeps
(the stack of tags) and what the markup has open.  `CommandLine` has the
commands' bindings, the way a user writes a command according to
`src/docs/commands.rst`, and the four functions of `lib/command.c` that read it
in place.  `MCCommandLine` has the values that arguments and options take in the
runs.

### MCComponents: side by side

The fourteen modules from AlternateNick on share no state with one another: the
handlers they model touch different fields, and where two meet they meet in a
value, which the modules choose from the same small sets.  `MCComponents`
extends them all; the variable `part`, which the initial state chooses, says
which one runs.  The state space is therefore the sum of theirs, not the product.

## 3. Runs

| Run | Configuration | Properties | What it shows |
|---|---|---|---|
| `conn` | `ServerConn.cfg` | `TypeOK`, `OneOperation`, `StateMatchesSession`, `FreedAfterIO`, `PingTimerOwned`, `RetryArmed`, `ConnectedOnlyOnRequest`, `ImplementsLifecycle`, `QuitRemoves`, `AttemptEnds`, `RetryHappens`, `ClosedLinkReleased` | whatever the order of requests, retries, ping timeouts, late completions and nested waits, at most one network operation is outstanding, the state tells which, a released session gets no callback, and timers that must be stoppable are; no connection comes up after it was called off, the abstract lifecycle is implemented, and quit, retry and close complete, attempts if the peer answers |
| `chats` | `Chats.cfg` | `TypeOK`, `PointersLive`, `NoDoubleEntry`, `JoinedMatchesPeer`, `RosterExact` | no pointer leads to a released object or closed chat, nobody is listed twice, the joined flags follow the peer, and the user lists are exact unless a remembered nick was taken over |
| `cap` | `CapNegotiation.cfg` | `TypeOK`, `EnabledWereRequested`, `AuthenticateOnlyAcked`, `LoginBeforeEnd`, `FreshNegotiationEnds` | the capability sets stay comparable over connections, the login follows the acknowledgement and precedes CAP END, and a negotiation with fresh sets ends |
| `components` | `Components.cfg` | `TypeOK` and those of the next table | the other components, one by one |
| the other eight | one each | one each | section 6 |

What `components` asks of each part:

| Part | Property | What it shows |
|---|---|---|
| ReceiveBuffer | `LinesRecover` | what a connection that ended within a line, or a line longer than the buffer, leaves behind spoils at most two lines; from the third on every line arrives as sent |
| IncomingMessage | `HeardAsMeant` | in whichever form a message is written, its own handler gets its origin, time and parameters, but in three forms, of which it says what happens |
| Sending | `HeardAsSent` | a message reported as sent whose writes were whole was read in full and in order, in lines within the limit, a cut write spoils its line and the next; the server reads each argument of a command as one parameter, or no such command when its line was cut or glued to one that was |
| AlternateNick | `ConnectionRegisters`, `NickReclaimed` | while one nick is free a lasting connection is registered; a nick given up before the client's eyes is taken back |
| Messages | `IgnoredUnheard`, `LogIsWhatWasShown` | the ignored stay ignored through renames, whoever takes their nicks, unless the list has a left entry of that nick first; the log is what was shown |
| ConfigReload | `ConfigsLive`, `AllReloaded` | nobody uses a freed configuration, but a server removed before it was DISCONNECTED; "reloaded" means that servers and chats go by the new file |
| Window | `CurrentAgrees`, `SentAsAsked` | stack, side bar, core and counters agree; a line is sent once, and from the buffer it was asked for, nested waits included |
| InputLine | `InputKept` | the history is what was sent, the way down ends at the draft, Tab replaces only what begins alike |
| MircColors | `ShownAsAsked` | the markup is nested, and the style in force is the one asked for |
| UrlPreview | `LateAnswersHarmless` | no callback meets a finalized widget, no late image, no second request on one cancellable |
| JoinPanel | `ListShown` | a list that is said to be complete is complete |
| UserList | `StatisticsAgree` | the counters are the numbers of rows |
| CommandLine | `ReadAsWritten` | what is written as documented is read as meant, if no quotation mark is escaped in it |

**Bounds.** A step that would exceed a bound is not taken; no other step is
affected.

`conn` (about 296,000 states): three timer ids per kind, two idle callbacks, one
rejoin timeout, two nested waits.  Three reconnect timeouts are the current one
and two abandoned ones, one more than the number that can act on each other;
the second idle callback and the second wait let a callback run on an object
the first has removed.  The ids are not declared symmetric, as the run checks
liveness too.  The four runs that refute a statement about the connection use
the bounds that their counterexamples need; `disconnect_completes` has no wait.

`chats` (about a million states): three nicks and three objects (the user and
two others), one channel, one dialog, which is the smallest instance in which one
user takes over the nick of another who is remembered in a list.  The objects
other than `Me` are symmetric.  The dialog's nick also sends the CTCP requests.
A handler never relates two channels, except QUIT and DISCONNECT, which treat
every chat alike.

`cap`: `sasl`, two more capabilities and an unknown one, at most two requests
under way when the peer says CAP NEW.  One capability to be acknowledged while
another is still requested and a third refused is every combination that
`srn_server_cap_all_enabled` can see.

`components` (about 436,000 states together):

* *Receiving*: a buffer of 4 bytes and lines of up to 8, so that a line fits,
  fills it exactly, or is dropped in one or two pieces with an end of any length,
  and a leftover with a line overflows it; texts of up to 3 tokens, blanks,
  colons and delimiters of CTCP among them, values of tags of up to 2, with each
  character that is escaped, and 5 parameters, which the message with the most reaches;
  one gap at a time is two blanks wide (`MaxWide`): the parser skips each by
  itself.
* *Sending*: messages of up to 4 characters, 1, 2 or 4 bytes wide, with room
  for 4: boundaries fall between and within characters, and the widest one fills a
  line alone but finds no room before another, which is the case of the endless
  loop below.  Up to 6 writes of a message.  A line of 12 tokens (`RawLimit`),
  which the longest commands pass and the others do not.
* *Nicks*: two changes of hands, one `/nick`, one cut; four alternates, which is
  the whole cycle, and a short nick, which the user may ask for and others hold.
* *Messages*: the user and one other person with three nicks (his own, one he
  takes, one to be taken), one channel, filters on the server's chat, ignore
  marks and renderers on one nick (`MarkedNicks`), two of all these at a time
  (`MaxMarks`), so that any two of them meet on one line.  One chat has others in its
  list (`MaxLists`), two of them (`MaxEntries`): the one who left a nick and the
  one who took it.  A second other person only repeats the first: all that is said
  about two is that they never share a nick.
* *Windows*: two buffers, two lines, two clicks, one unread message: two timers
  and two suspended calls are the most that can meet over a line.
* *Input*: four keys beside Return, two lines to send and a history of one, so that the second
  line pushes the first out; two commands that begin alike and a nick.
* *Configurations*: two servers, one of them with a password; three files and a
  malformed one; three steps that make configurations.
* *Widgets*: three users (their ranks are independent), a list of two channels
  asked for twice and cut once, one server in the form with one lookup under way.
* *Commands*: five of the bindings, which between them have everything a binding
  can have; two options, the limit.  *Colours*: one, beside none, an invalid and
  an absent one; the message has no bound, its state is finite.

**Deadlock** is checked in `chats` and `cap`, which never stop.  A server that
is gone and has nothing pending ends a behaviour of `ServerConn`.  In
`components` a message that was handled, a preview that is gone, or a history
whose bound is reached ends one.  These runs do without.

## 4. Fairness

* *ServerConn.* The main loop dispatches every ready source, hence weak fairness
  of each timeout, of the idle callback and of each completion.  The
  operating system bounds the opening of a socket, and the closing of a stream
  completes.  Nothing bounds the TLS handshake: the client's timeout is commented
  out (`sirc/sirc.c:84`) and the handshake has none of its own (`sirc/sirc.c:355`),
  so that `HandshakeReady` is fair only once it was cancelled.  `AttemptEnds`
  therefore assumes `PeerAnswers`: no handshake stays unanswered for ever.  (A
  peer that accepts a TCP connection and is silent in TLS does hold the server in
  CONNECTING, until the user stops it.)  A read ends only when something ends
  it: `LinkMustEnd` says the stream was closed here, or the operation was
  cancelled, or the peer was sent QUIT (it closes, or the system gives up).  A
  peer that stays connected and silent for ever is allowed.  A nested loop looks
  at its condition in every iteration: `WaitAdvance` is fair, and `WaitReturn`
  unless the server was released, when it looks at freed memory.  No user action
  is fair, nor are `Welcome` and the ping timeout: no liveness property depends
  on them.
* *CapNegotiation.* The peer takes the requests it is sent.  CAP NEW, CAP DEL,
  connecting and disconnecting are not fair.  `FreshNegotiationEnds` excludes an
  ECDSA key that cannot be loaded: then the client does not answer the challenge
  and the peer has to give up.
* *AlternateNick.* `NickSystem`: what is under way on a connection that lasts
  arrives and is handled.  Others, the user and the network need do nothing;
  what they do is bounded, which stands for "from some time on nobody interferes".
* Everything else has safety properties only.

## 5. Proofs

TLAPS proves the following for every value of the constants that satisfies the
`ASSUME`s, each of which stands where its constant is declared: timer ids differ
from 0; bounds are naturals; `sasl` is a supported capability and unknown ones
are not; the own nick is one, and free names are none; a line has room for its
CR LF; the users of a channel are finitely many; texts and tag values are sequences of
tokens, and NULL is none; a message may have three parameters; an invalid colour
is no colour; names that are completed are words; the values given to commands are
texts; and so on.

* **SequenceLemmas.** What the other modules rest on.  Induction is stated for a
  set of naturals (`SetInduction`, from the least number outside it), and a fold
  for a function from positions and states to states (`FoldExists`,
  `FoldValues`): the fold over a sequence has, after each of its elements, the
  value that the step makes of the one before.  Every statement below on what a
  parser or a builder computes is a predicate on this value, shown step by step.
* **ServerConnProofs.** `IInv` is the conjunction of `TypeOK`, the five other
  invariants of `conn` and `AbsentIsFresh` (a server not yet created has
  no operation, timer or wait).  The invariants lean on each other: that a new
  connection does not make a second operation (`OneOperation`) needs that
  DISCONNECTED and RECONNECTING are idle (`StateMatchesSession`); that a
  released session is idle needs the same; that Welcome arms the only ping
  timeout needs `PingTimerOwned`.  Everything but `waits` is proved per
  action as `Core`, because none of the other invariants mentions `waits` and a
  sequence in the goal makes the solver slow; `WaitsTyped` adds it.  From `Invariance`
  follow the six invariants and the action property `NoLateConnection`.
  `Refinement`: `Spec` implements `ServerLifecycle`; initial states map to
  initial states and every step maps to a step or a stutter, and the invariants
  are needed to know that a retry starts without a link and that a lost link was
  there.
* **CapNegotiationProofs.** `TypeOK`, `EnabledWereRequested` and
  `AuthenticateOnlyAcked` are inductive together: an acknowledgement only
  contains what a request in the queue asked for, which was recorded when it was
  sent.  `EndAfterLogin` proves `LoginBeforeEnd`.  Its invariant `LoginInv`
  follows sasl through the negotiation: it is in one unread line of CAP LS, or in
  one request, or acknowledged, never in two of these; the authentication is
  begun once; and while the login is due no CAP END is in the queue, or sasl is
  not acknowledged and CAP END comes before every request for it.  Both halves
  need each other: that CAP END is only sent with all capabilities acknowledged
  is of no use unless no request for sasl is still to be taken.
* **ChatsProofs.** `ChatsInv` has three layers.  The heap (`ClientOK`): the
  table leads from a nick to the object that has this nick, whatever is listed or
  in the table is alive, and nothing is freed that is referred to.  The peer
  (`PeerTypeOK`, `PeerOK`): the own nick is never among the members of
  others.  What the two have in common: while no key has been freed, the
  joined flags follow the peer (`JoinedOK`); while no nick has been taken over,
  listed users are found under their nick (`Known`), and the list shows the
  members and the own nick, up to what NAMES is still to list (`ShownOK`).  The
  first layer needs no assumption on the peer, hence `PointersLive` and
  `NoDoubleEntry` hold even after nicks were taken over.
* **WireProofs.** Three components. `ReceiveInv`: from the third line on, counted
  from the beginning of the connection or from the last line that was longer than
  the buffer, the buffer is what was sent of the current line, as long as that fits;
  in the second there may be one LF before it, which is left when the buffer was
  cleared between CR and LF. No property of the first line is needed, but one: a
  sent CR is the last byte of the buffer or the buffer is empty. `SendingInv`: each
  write of a text begins where the one before ended and fits into a line, unless
  what is left begins with a character no line has room for; it stands behind a line
  without end exactly when the one before was cut, and what the server has read is
  the texts of the whole ones; and the line of a command is words and at most one
  text behind a colon, of which the server's reader gives back each. `IncomingInv`:
  the line under way is one of the forms of what is meant, and what was called is
  what that form is heard as. That it is called is a chain of lemmas in the order of
  `sirc_parse`: the tags end at the first blank, as escaped values have none; the
  source ends at the next; no middle parameter begins with a colon or has a blank,
  any run of blanks before it is passed over, and the last is what is behind the
  first colon with a blank before it; every escaped character is read back; then
  `sirc_event_hdr` sees the parameters and the CTCP command that were meant.
* **InterfaceProofs.** Messages and the widgets. `MsgInv`: whoever is unwanted
  is online under a nick of his own, and the entry of the table for that nick
  is the ignored one, through renames to nicks that the table remembers; and an
  entry of a chat's list that was not left behind is of a nick in the table, so
  that finding it finds that user.
  `IgnoredUnheard` follows as the user filter is in every pipeline that says
  something of a user but the topic's, and `LogIsWhatWasShown` as the log filter is the last.
  `MircInv`, for `ShownAsAsked`: nothing is twice on the stack, and each prefix
  of it accounts for a prefix of the open elements, so that closing what is
  above a style and opening it again leaves the rest as it was. `AgreeInv` is
  for `CurrentAgrees`. `SendInv` for `SentAsAsked`: each line is in one input;
  one that was sent and is still there waits in a call or was disturbed; an
  undisturbed call will find its input as it left it, and no other timer for
  its buffer, at any depth of nesting. `InputInv` for `InputKept`: the history
  is what was sent, with the draft behind it while it is browsed; all offers of
  a list are continuations of one word, so that any of them may take the place
  of the one put in before. `PreviewInv` for `LateAnswersHarmless`: a finalized
  previewer has cancelled what is under way, and an image is shown only with
  nothing pending. `RankInv` for `StatisticsAgree`: whoever has no row is
  remembered without a rank, else adding his row would take him off a counter.
  `RowsInv` for `ListShown`: the lines still to come are those of answers one
  after the other, the first perhaps begun, and between its first line and its
  last the rows are those before it and what it has brought.
* **CommandProofs.** Of `/reload`, `LiveInv`: the users of one owner's configuration
  always agree on it, as they are set together, and configurations are named
  after steps already made, so that a reload frees only what nobody keeps.
  `StrayInv`: what a server that was removed but not released goes on with is
  used by nobody else, so that of it exactly the server's own is ever freed.
  `ListInv`: who has a configuration is who is in the list or is a chat of one
  that is.  `ReloadedInv`, for `AllReloaded`: whoever joins after a reload reads
  the file that was read, until it changes.  Of the parser, `ReadAsWritten` for
  any values: the invariant is only that what is parsed is the line that was
  typed, and the rest is a chain of lemmas on `lib/command.c`.  A scan of an
  escaped text ends outside of an escape and still open (`InnerScanned`), so a
  quoted value ends at its own closing mark (`UnquoteTaken`).  Whatever is
  written begins and ends with something other than a blank (`WrittenWell`), so
  behind each part stands a blank and the parts after it (`SpacedChain`), and
  each reader leaves just these (`WordTaken`, `WrittenTaken`, `WrittenLast`).
  Then the loops: a key may be found as another of which it is the continuation,
  but only as one that takes a value when it does (`OptionsKnown`), so that
  `-tls-noverify` is read right with `-tls` before it in the table; no subcommand is
  found again in what is behind the first (`SubRead`).

* **ComponentsProofs.** The components that `components` runs side by side.
  `EachByItself`: the specification of that run implies the one of each component
  (without the fairness of the nick), since a step of one leaves the variables of
  the others alone.  So `ComponentsTypeCorrect` and `ComponentsCorrect` have the
  invariants and action properties of the run for all values of the constants.
  The types of the nicks and the connect panel are proved here as well: an event
  that refuses a nick is only of one that others hold, hence of an alternate or
  the short one, and what follows either is an alternate, so the client never asks for a fourth
  underline; `ConnectPanel` assumes that a section's nick is one the user may enter.

Only model-checked: all liveness (out of the prover's reach), that is
`QuitRemoves`, `AttemptEnds`, `RetryHappens`, `ClosedLinkReleased`,
`FreshNegotiationEnds`, `ConnectionRegisters` and `NickReclaimed`.

## 6. What the code does against its own documents

Each of these runs checks one statement of the repository, which TLC refutes.

| Run | Statement | What happens |
|---|---|---|
| `disconnect_completes` | changelog: "you can smoothly disconnect/quit from server even it is unresponsive" | disconnect while CONNECTING cancels the attempt; CONNECT_FAIL is refused in DISCONNECTING, and so is every user action: the server stays there, unless the `/connect` that began the attempt waits and removes it |
| `reconnection_stopped` | "Reconnection stopped" (`core/app_ui_event.c:161`) | a manual `/server connect` in RECONNECTING leaves its timeout armed; the next failure arms another and only that one is stopped |
| `only_disconnected_removed` | "frees a disconnected server" and the assertion in `srn_server_free` | `/connect` removes a server whose registration failed whatever its state: it leaves the list and is never released |
| `freed_unreferenced` | "server may be referenceed after returning" (`core/server_state.c:242`) | the idle callback runs in the nested loop, and the suspended command then reads the freed server |
| `leaver_is_joined` | `g_return_if_fail(chat_user->is_joined)` (`core/app_irc_event.c:603`) | a remembered user whose nick is taken over shadows the new owner in the list; the PART of the new owner is ignored |
| `skipped_only_unsupported` | "SASL authentication is not supported on this server, login skipped" | the first line of a CAP LS answer in two lines is taken for the whole |
| `escaped_marks_read` | "If you want to use a single quotation mark in a quoted text, use backslash `\` to escape it" (`src/docs/commands.rst:71`) | the mark is removed and its backslash arrives |
| `alternates_documented` | "When count of append underline more than twice, use the original nick" (`core/user_config.c:119`) | the comparison of the lengths lets a third underline through, and the nick with three is not recognised as an alternate |

Where the models met the following, they do as the code does, and the property
concerned says in its comment what it leaves out.

* Capability sets left by an earlier connection make the comparison of
  `srn_server_cap_all_enabled` fail on the next: CAP END is then never sent.
  `FreshNegotiationEnds` speaks of connections whose sets are their own.
* An entry that a user left in a chat's list shadows whoever takes his nick
  (`core/chat.c:130`): also when that one is ignored, and then his lines are shown.
  A topic is filtered by nothing (`core/chat.c:452`).
* A message without parameters is dropped (`sirc/sirc_parse.c:214`), and so is
  one whose only parameter stands behind two blanks and a colon, for the blanks
  give a parameter that is NULL.  A source behind two blanks after the tags is
  taken for the command.
* A command that was cut at 512 bytes is reported as sent, without its CR LF; so
  is a write that took only a part of the line ("TODO send it totally",
  `sirc/sirc_cmd.c:308`).  The next line is glued to what was written.
* The waiting line of a buffer that is closed meanwhile ends with the use of
  the freed buffer (`sui/sui_buffer.c:335`).
* A server that `/connect` removes before it is DISCONNECTED is not released, but
  its configuration is (`core/app.c:346`): its session goes on with freed memory.
* An option beyond `SRN_COMMAND_MAX_OPTS` less one loses the value of the first
  (`lib/command.c:443`). An unclosed quotation counts as an omitted argument where
  arguments may be omitted.
* A channel name that leaves less room in a line than the next character takes
  makes `sirc_cmd_msg` write empty lines without end (bounded by `MaxWrites`).
* AWAY sends its text without a colon: the server reads its first word.
* Of the alternates only those with one or two underlines are given back when
  the configured nick is free (`srn_user_config_is_alternate_nick`); the nick
  with three, and one of the user's own choosing, are kept.
* A `nick@host` prefix is taken for a nick as a whole.
* After a reload with one invalid server the servers behind it keep their old
  configuration; the chat of a server itself keeps its own even when "All config
  reloaded" is said; the logger's configuration is freed again at the end of the
  program.  `chat-list` within a server's section is read by nobody.
* MODE looks at the first letter only: any mode that is taken away, and any that
  is no rank when it is given, leaves the user it names without a rank.
* A preview that failed or was cancelled keeps its request, and its button no
  longer does anything.
* A completion that was empty once stays empty until the text changes, even when
  the nick has come in between; completions do not go round, as the mark moves.
* Choosing another server in the connect panel keeps the host or the password of
  the one before if it has none of its own; a late password fills a cleared form.

## 7. What is not modelled

* Text: message contents, wording, formatting, logging, translations.
* In `ServerConn`: the auto-run commands of a configuration, the reply lag, the
  lines sent by `/quit` and by the ping; a second server (a frame of `waits`
  belongs to this one; `Window` has waits of several).
* In `Chats`: MODE letters (their effect on ranks is in `UserList`), topics,
  nicks that differ by case only, a peer that reports a user of a channel nobody
  is in.
* In `CapNegotiation`: the modifiers `-`, `~`, `=` of CAP ACK, which a peer does
  not send to a client that never asks for them; CAP LIST, which changes nothing;
  the base64 and ECDSA computations.
* In `Messages`: the renderers that `/render -cur` attaches to a user within one
  chat (`src/docs/commands.rst:410`).
* In `Window`: the removal of the current server when `srn_server_free` returns
  early (`core/app.c:341`): its buffers stay and `cur_srv` is NULL.
* In `InputLine`: sending is one step; what may happen while a command of it
  waits is in `Window`.  `ConnectPanel` has no property but its types: what it
  hands over is what the form shows.
* In `ConfigReload`: what a server that was removed but not released does
  afterwards, beside using what it has.
* In `MircColors`: the digits of a colour, which are read in one step.
* In `IncomingMessage` and `Sending`: letter case, number formats, character
  sets other than UTF-8, and messages that are not legal;
  runs of more than two blanks, and several wide gaps in one line in the run.
* In `ConfigReload`: autorun commands.  `/reload` as one of them would free the
  list that is being gone through (`core/app.c:285`, `core/server.c:265`).
* The strip and the URL renderer, which turn text into text without state; the
  search for a server by an URL's address.
* `lib/ret.c`: every caller reads a result within the call that made it.
* What only lays out widgets (messages, menus, dialogs, themes, D-Bus); the
  logger; the remaining support library; `libecdsaauth`, which is vendored.
* The numerics of `sirc/sirc_numeric.h` are names; those that have a handler
  with an effect are in the modules of what they affect.

## 8. Plan

Done: the lifecycle, the connection and its refinement; chats; capabilities;
the wire in both directions; nicks; messages; configurations; the windows,
the input and the panels; proofs of every safety property except those of
section 5's last paragraph.  What is left, in this order:

1. `Servers`: several connections of `ServerLifecycle` in one list, with the
   auto connect, the current server and the autorun commands.
2. MODE in `Chats`, so that the ranks of `UserList` come from a peer that tells
   the truth.
3. The ring of result values under nested waits.
