---------------------------- MODULE ViewSession ----------------------------
(***************************************************************************)
(* A session of a generated view: the page's submit handler, its           *)
(* initialization and its transport, from the moment its script has run    *)
(* (rust/prod-codegen/src/text_view_shared.js, text_view_browser.js,       *)
(* text_view_hologram.js and the scripts of view.rs).                      *)
(*                                                                         *)
(* There are four pages: the text view and the calculator view, each over  *)
(* a wasm-bindgen binding or over the Hologram intent endpoint.  Events of *)
(* the user and completions of awaited promises interleave; what runs      *)
(* between two of them is one step.                                        *)
(***************************************************************************)
EXTENDS Naturals, Sequences

CONSTANTS
    MaxCalls,     \* bound on the submissions accepted in a session
    Maximum,      \* text page: the largest transport envelope read, in bytes
    ChunkSizes    \* sizes of the chunks a response stream delivers

ASSUME ConstantsAssumption ==
    MaxCalls \in Nat /\ Maximum \in Nat /\ ChunkSizes \subseteq Nat

Pages == {"text-browser", "text-hologram", "calculator-browser", "calculator-hologram"}

VARIABLES
    page,        \* which of the four pages runs
    field,       \* whether the input now in the form is acceptable
    ready,       \* the binding's promise: "loading", "ok" or "failed"
    busy,        \* the guard of the submit handler
    disabled,    \* submit.disabled
    invalid,     \* the aria-invalid mark of the text page's input
    displayed,   \* a message has been shown
    shown,       \* result.textContent
    calls,       \* for each accepted submission, where its await stands
    total        \* bytes of the response stream read so far

vars == <<page, field, ready, busy, disabled, invalid, displayed, shown, calls, total>>

Browser == page \in {"text-browser", "calculator-browser"}
Text == page \in {"text-browser", "text-hologram"}
Streams == page = "text-hologram"

\* The calculator's Hologram page is the one without a busy flag.
Guarded == page # "calculator-hologram"

Stages == {"waiting", "reading", "cancelling", "settled"}
Pending == {i \in DOMAIN calls : calls[i] # "settled"}

\* An answer is whatever the page shows for an accepted response, the
\* calculator's division and overflow messages included.
Answer(i) == <<"answer", i>>
Errors == {<<"input error", 0>>, <<"response error", 0>>}
InputError == <<"input error", 0>>
ResponseError == <<"response error", 0>>
InitialStatus == <<"status", 0>>     \* the message the HTML starts with
Empty == <<"", 0>>

\* What the catch of the page's handler and of its initialization shows.
Failure == IF Text THEN ResponseError ELSE InputError

show(message) == displayed' = TRUE /\ shown' = message

\* Defect: the status is cleared whatever it shows by now.
clearStatus == shown' = Empty /\ UNCHANGED displayed

clearInitialStatus ==
    /\ shown' = IF displayed THEN shown ELSE Empty
    /\ UNCHANGED displayed

\* The Hologram pages clear the status at the end of the script.
Init ==
    /\ page \in Pages
    /\ field \in BOOLEAN
    /\ ready = IF Browser THEN "loading" ELSE "ok"
    /\ busy = FALSE
    /\ disabled = FALSE
    /\ invalid = FALSE
    /\ displayed = FALSE
    /\ shown = IF Browser THEN InitialStatus ELSE Empty
    /\ calls = << >>
    /\ total = 0

-----------------------------------------------------------------------------
(* Initialization of the binding: import, export checks, binding.default(). *)

Initialized ==
    /\ ready = "loading"
    /\ ready' = "ok"
    /\ clearInitialStatus
    /\ UNCHANGED <<page, field, busy, disabled, invalid, calls, total>>

InitializationFails ==
    /\ ready = "loading"
    /\ ready' = "failed"
    /\ show(Failure)
    /\ UNCHANGED <<page, field, busy, disabled, invalid, calls, total>>

-----------------------------------------------------------------------------
(* The user. *)

Edit ==
    /\ field' = ~field
    /\ UNCHANGED <<page, ready, busy, disabled, invalid, displayed, shown, calls, total>>

\* A submit event while busy is only cancelled; the text page's shortcut key
\* requests the same event.
SubmitRejected ==
    /\ ~busy /\ ~field
    /\ invalid' = Text
    /\ show(InputError)
    /\ UNCHANGED <<page, field, ready, busy, disabled, calls, total>>

\* Defect: the handler does not return while busy.
SubmitAcceptedBusy ==
    /\ field
    /\ Len(calls) < MaxCalls
    /\ invalid' = FALSE
    /\ calls' = Append(calls, "waiting")
    /\ busy' = Guarded
    /\ disabled' = Guarded
    /\ UNCHANGED <<page, field, ready, displayed, shown, total>>

SubmitAccepted ==
    /\ ~busy /\ field
    /\ Len(calls) < MaxCalls
    /\ invalid' = FALSE
    /\ calls' = Append(calls, "waiting")
    /\ busy' = Guarded
    /\ disabled' = Guarded
    /\ UNCHANGED <<page, field, ready, displayed, shown, total>>

-----------------------------------------------------------------------------
(* The awaited promise settles: show the outcome, then the finally block. *)

\* Defect: the flags are reset only on success, not in a finally block.
SettleStaysBusy(i, message) ==
    /\ show(message)
    /\ calls' = [calls EXCEPT ![i] = "settled"]
    /\ busy' = (busy /\ message \in Errors)
    /\ disabled' = (disabled /\ message \in Errors)
    /\ UNCHANGED <<page, field, ready, invalid, total>>

Settle(i, message) ==
    /\ show(message)
    /\ calls' = [calls EXCEPT ![i] = "settled"]
    /\ busy' = FALSE
    /\ disabled' = FALSE
    /\ UNCHANGED <<page, field, ready, invalid, total>>

\* Browser pages: the binding is called once `ready` has resolved to it; it may
\* throw, and its answer may be refused.
BindingAnswers(i, message) ==
    /\ Browser /\ calls[i] = "waiting"
    /\ \/ ready = "ok" /\ message \in {Answer(i), Failure}
       \/ ready = "failed" /\ message = Failure
    /\ Settle(i, message)

\* Calculator over Hologram: responses arrive in any order.
IntentAnswers(i, message) ==
    /\ page = "calculator-hologram" /\ calls[i] = "waiting"
    /\ message \in {Answer(i), Failure}
    /\ Settle(i, message)

(* Text over Hologram: envelope() reads the response as a bounded stream. *)

Advance(i, stage) ==
    /\ calls' = [calls EXCEPT ![i] = stage]
    /\ UNCHANGED <<page, field, ready, busy, disabled, invalid, displayed, shown>>

\* A rejected fetch, an error status or a missing body.
ResponseRefused(i) ==
    /\ Streams /\ calls[i] = "waiting"
    /\ Settle(i, Failure)

\* A Content-Length that is malformed or above the maximum.
LengthRefused(i) ==
    /\ Streams /\ calls[i] = "waiting"
    /\ Advance(i, "cancelling")
    /\ UNCHANGED total

StartReading(i) ==
    /\ Streams /\ calls[i] = "waiting"
    /\ total' = 0
    /\ Advance(i, "reading")

\* Defect: only what was read before is compared with the maximum.
ChunkLate(i, size) ==
    /\ calls[i] = "reading"
    /\ IF total > Maximum
         THEN Advance(i, "cancelling") /\ UNCHANGED total
         ELSE total' = total + size /\ Advance(i, "reading")

Chunk(i, size) ==
    /\ calls[i] = "reading"
    /\ IF size > Maximum - total
         THEN Advance(i, "cancelling") /\ UNCHANGED total
         ELSE total' = total + size /\ Advance(i, "reading")

\* The stream fails, or what was read is not UTF-8 or not JSON.
ReadFails(i) ==
    /\ calls[i] = "reading"
    /\ Advance(i, "cancelling")
    /\ UNCHANGED total

\* The stream ends; the envelope is then accepted or refused.
StreamEnds(i, message) ==
    /\ calls[i] = "reading"
    /\ message \in {Answer(i), Failure}
    /\ Settle(i, message)

\* The awaited cancel() resolves or rejects; either way the call has failed.
Cancelled(i) ==
    /\ calls[i] = "cancelling"
    /\ Settle(i, Failure)

Next ==
    \/ Initialized \/ InitializationFails
    \/ Edit \/ SubmitRejected \/ SubmitAccepted
    \/ \E i \in DOMAIN calls :
          \/ \E message \in {Answer(i)} \cup Errors :
                BindingAnswers(i, message) \/ IntentAnswers(i, message) \/ StreamEnds(i, message)
          \/ ResponseRefused(i) \/ LengthRefused(i) \/ StartReading(i)
          \/ \E size \in ChunkSizes : Chunk(i, size)
          \/ ReadFails(i) \/ Cancelled(i)

Spec == Init /\ [][Next]_vars

-----------------------------------------------------------------------------
Messages == {Answer(i) : i \in DOMAIN calls} \cup Errors

TypeOK ==
    /\ page \in Pages
    /\ field \in BOOLEAN
    /\ ready \in {"loading", "ok", "failed"}
    /\ busy \in BOOLEAN /\ disabled \in BOOLEAN
    /\ invalid \in BOOLEAN /\ displayed \in BOOLEAN
    /\ shown \in Messages \cup {InitialStatus, Empty}
    /\ calls \in Seq(Stages) /\ Len(calls) <= MaxCalls
    /\ total \in Nat

\* A guarded page has at most one call outstanding, and its button is disabled
\* exactly as long: the form neither accepts a second request nor stays dead
\* after an outcome, on any path through errors, refusals and cancellation.
\* The input is never marked invalid while its call is under way.
OneCallAtATime ==
    Guarded => /\ busy = (Pending # {}) /\ disabled = busy /\ ~(busy /\ invalid)
               /\ \A i, j \in Pending : i = j

\* On a guarded page an answer on display is never older than another outcome:
\* no later submission has been settled, however the responses were delayed.
AnswerIsLatest ==
    Guarded => \A i \in DOMAIN calls :
                  shown = Answer(i) => \A j \in DOMAIN calls : j > i => j \in Pending

\* "A delayed initialization must not erase a validation error already shown":
\* once there is a message there is always one.
MessageKept == displayed <=> shown \in Messages

\* The binding is called only after its initialization succeeded.
InvokedWhenReady ==
    Browser => \A i \in DOMAIN calls : shown = Answer(i) => ready = "ok"

\* However the response is chunked, and without a Content-Length, at most
\* Maximum bytes are accumulated.
ReadIsBounded == total <= Maximum
=============================================================================
