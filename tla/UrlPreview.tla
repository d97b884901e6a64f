----------------------------- MODULE UrlPreview -----------------------------
(***************************************************************************)
(* The previewer of an URL in a message (sui/sui_url_previewer.c; created  *)
(* by sui_message_real_update in sui/sui_message.c): a request that is     *)
(* answered in two asynchronous steps, which the user may cancel and which *)
(* outlives the message.                                                   *)
(*                                                                         *)
(* libsoup and GIO are external: an operation whose GCancellable is        *)
(* cancelled before its callback runs ends with an error.                  *)
(***************************************************************************)
VARIABLES
  auto,      \* auto_preview_url: started at once, hidden until it is an image
  alive,     \* in the content box of its message; FALSE: finalized
  hidden,
  stackPage, \* visible page of the stack
  ctype,     \* content_type
  previewed,
  msg,       \* SoupMessage of the request under way
  cancelled, \* state of the GCancellable
  pending,   \* the callback that is to come
  touched    \* history: a callback used the previewer after it was finalized

previewVars == <<auto, alive, hidden, stackPage, ctype, previewed, msg, cancelled, pending, touched>>

PreviewTypeOK ==
  /\ {auto, alive, hidden, previewed, msg, cancelled, touched} \subseteq BOOLEAN
  /\ stackPage \in {"preload", "loading", "text", "image"}
  /\ ctype \in {"unknown", "unsupported", "image"}
  /\ pending \in {"none", "send", "fill"}

(* A previewer that is not of http is dropped by its message at once. *)
PreviewInit ==
  /\ auto \in BOOLEAN /\ hidden = auto /\ alive = TRUE
  /\ ctype = "unknown" /\ previewed = FALSE /\ cancelled = FALSE /\ touched = FALSE
  /\ IF auto THEN stackPage = "loading" /\ msg = TRUE /\ pending = "send"
             ELSE stackPage = "preload" /\ msg = FALSE /\ pending = "none"

-----------------------------------------------------------------------------
(* sui_url_previewer_preview, by the button of the first page.  A request  *)
(* that failed or was cancelled has left its msg: the button is dead.  The *)
(* page of a previewer whose type is known has no button, so its check of  *)
(* the type, which would tell why again, is never met.                     *)
StartPreview ==
  /\ alive /\ ~hidden /\ stackPage = "preload" /\ ~msg /\ ~previewed
  /\ stackPage' = "loading" /\ msg' = TRUE /\ cancelled' = FALSE /\ pending' = "send"
  /\ UNCHANGED <<auto, alive, hidden, ctype, previewed, touched>>

(* cancel_preview, by the button of the page that shows the progress. *)
CancelPreview ==
  /\ alive /\ ~hidden /\ stackPage = "loading" /\ ~previewed
  /\ stackPage' = "preload" /\ cancelled' = TRUE
  /\ UNCHANGED <<auto, alive, hidden, ctype, previewed, msg, pending, touched>>

(* Mutant: only the references are dropped. *)
CancelledByFinalize_Not == cancelled

(* sui_url_previewer_finalize cancels what is under way. *)
CancelledByFinalize == TRUE

(* The message goes, with its buffer. *)
DropMessage ==
  /\ alive /\ alive' = FALSE /\ msg' = FALSE
  /\ cancelled' = CancelledByFinalize
  /\ UNCHANGED <<auto, hidden, stackPage, ctype, previewed, pending, touched>>

(* The callbacks look at the error before they look at the previewer; with *)
(* an error they leave all as it is, msg too.                              *)
Failed(op) ==
  /\ pending = op /\ pending' = "none"
  /\ UNCHANGED <<auto, alive, hidden, stackPage, ctype, previewed, msg, cancelled, touched>>

CallbackOf(op) == pending = op /\ ~cancelled /\ touched' = (touched \/ ~alive)

ShowError == stackPage' = "text" /\ previewed' = FALSE

(* session_send_ready: an image within the limit is read on.  Otherwise    *)
(* nothing is shown but the reason, and url_previewer_on_notify_content_   *)
(* type takes a previewer that was started by itself out of its message.   *)
SendReady(type, tooLong) ==
  /\ CallbackOf("send")
  /\ ctype' = IF tooLong THEN ctype ELSE type
  /\ IF tooLong \/ type = "unsupported"
       THEN /\ ShowError /\ pending' = "none" /\ msg' = FALSE
            /\ alive' = (alive /\ ~(auto /\ ~tooLong))
            /\ cancelled' = (cancelled \/ ~alive')
            /\ UNCHANGED hidden
       ELSE /\ pending' = "fill" /\ hidden' = FALSE
            /\ UNCHANGED <<alive, stackPage, previewed, msg, cancelled>>
  /\ UNCHANGED auto

(* buffered_stream_fill_ready: asks for more, shows the image, or why it   *)
(* cannot; data without an image leave the page as it is.                  *)
FillReady(what) ==
  /\ CallbackOf("fill")
  /\ CASE what = "more"  -> UNCHANGED <<stackPage, previewed, msg, pending>>
       [] what = "image" -> stackPage' = "image" /\ previewed' = TRUE /\ pending' = "none" /\ msg' = FALSE
       [] what = "bad"   -> ShowError /\ pending' = "none" /\ msg' = FALSE
       [] what = "none"  -> pending' = "none" /\ msg' = FALSE /\ UNCHANGED <<stackPage, previewed>>
  /\ UNCHANGED <<auto, alive, hidden, ctype, cancelled>>

PreviewNext ==
  \/ StartPreview \/ CancelPreview \/ DropMessage
  \/ \E op \in {"send", "fill"} : Failed(op)
  \/ \E type \in {"image", "unsupported"}, tooLong \in BOOLEAN : SendReady(type, tooLong)
  \/ \E what \in {"more", "image", "bad", "none"} : FillReady(what)

PreviewSpec == PreviewInit /\ [][PreviewNext]_previewVars

-----------------------------------------------------------------------------
(* The answers that come after the user cancelled or after the message is  *)
(* gone do no harm: no callback uses a previewer that was finalized, an    *)
(* image never replaces the page the user went back to, and no second      *)
(* request is started while a callback of the first one is to come, though *)
(* both would share their GCancellable.                                    *)
LateAnswersHarmless ==
  /\ ~touched
  /\ stackPage = "image" => previewed /\ (alive => ~cancelled)
  /\ alive /\ pending # "none" => msg
=============================================================================
