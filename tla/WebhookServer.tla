---------------------------- MODULE WebhookServer ----------------------------
(***************************************************************************)
(* The webhook of the plugin (core/webhook/server and delivery): an        *)
(* aiohttp listener, its request handlers, which send the raw text of an   *)
(* alert to every target, the optional tasks they spawn (the history image *)
(* and the AI analysis), and the shutdown of all of it.  AnalysisChain     *)
(* shows the analysis task from within; here it runs until it ends.        *)
(*                                                                         *)
(* One action is the code a handler or task runs between two suspensions.  *)
(***************************************************************************)
EXTENDS WebhookPayload, Integers, FiniteSets

CONSTANTS
  Requests,   \* POST requests to the webhook
  Bodies,     \* the bodies they may have
  NoBody,     \* of a request that was not read
  MaxTargets  \* bound: len(config.target_umos)

ASSUME WebhookAssumption ==
  /\ MaxTargets \in Nat
  /\ NoBody \notin Bodies
  /\ Bodies \subseteq
       [size : {"empty", "within", "over"}, media : {"json", "text", "none"},
        utf8 : BOOLEAN, doc : {"object", "kuma", "none"}, parts : BOOLEAN,
        message : BOOLEAN, source : Sources \cup {"blank", "unknown"},
        history : {"true", "TRUE", "one", "yes", "absent"},
        analysis : {"true", "TRUE", "one", "yes", "absent"}]

Branches == {"history", "analysis"}
Tasks == Requests \X Branches

VARIABLES
  targets,    \* len(config.target_umos)
  runner,     \* "none", "binding", "listening" or "draining": _runner
  delivery,   \* "none", "open", "cancelling", "idling" or "closed"
  handler,    \* where each request's handler is suspended
  body,       \* the body of each request
  status,     \* the HTTP status answered, 0 before
  target,     \* the target whose raw text is being sent
  accepted,   \* text_successes
  cut,        \* handlers aiohttp has cancelled and that have not noticed yet
  abandoned,  \* handlers that were running when the runner gave them up
  task,       \* where each optional task is suspended
  shown,      \* the target whose history image is being sent
  cancelled,  \* tasks close() has cancelled and that have not noticed yet
  drawing     \* requests whose image is being rendered by a thread

serverVars == <<targets, runner, delivery>>
handlerVars == <<handler, body, status, target, accepted, cut, abandoned>>
taskVars == <<task, shown, cancelled, drawing>>
webhookVars == <<serverVars, handlerVars, taskVars>>

Handling == {r \in Requests : handler[r] \in {"reading", "sending"}}
Running == {t \in Tasks : task[t] \notin {"none", "ended"}}

(* _closed, as a handler sees it: an abandoned one has the old delivery.    *)
Closed(r) == r \in abandoned \/ delivery # "open"

WebhookInit ==
  /\ targets = 0
  /\ runner = "none"
  /\ delivery = "none"
  /\ handler = [r \in Requests |-> "idle"]
  /\ body = [r \in Requests |-> NoBody]
  /\ status = [r \in Requests |-> 0]
  /\ target = [r \in Requests |-> 0]
  /\ accepted = [r \in Requests |-> 0]
  /\ cut = {}
  /\ abandoned = {}
  /\ task = [t \in Tasks |-> "none"]
  /\ shown = [r \in Requests |-> 0]
  /\ cancelled = {}
  /\ drawing = {}

(* start(): the runner is stored before it is bound to its port.            *)
Start ==
  /\ runner = "none"
  /\ runner' = "binding"
  /\ delivery' = "open"
  /\ UNCHANGED targets

Bound ==
  /\ runner = "binding"
  /\ runner' = "listening"
  /\ UNCHANGED <<targets, delivery, handlerVars, taskVars>>

(* The port is taken: the runner is cleaned up and dropped.                 *)
PortTaken ==
  /\ runner = "binding"
  /\ runner' = "none"
  /\ UNCHANGED <<targets, delivery, handlerVars, taskVars>>

Answer(r, code) ==
  /\ handler' = [handler EXCEPT ![r] = "answered"]
  /\ status' = [status EXCEPT ![r] = code]

(* notify(): a request without the token is turned away unread.             *)
Arrives(r, authentic) ==
  /\ runner = "listening"
  /\ handler[r] = "idle"
  /\ \/ /\ authentic
        /\ handler' = [handler EXCEPT ![r] = "reading"]
        /\ \E b \in Bodies : body' = [body EXCEPT ![r] = b]
        /\ UNCHANGED status
     \/ /\ ~authentic
        /\ Answer(r, 401)
        /\ UNCHANGED body
  /\ UNCHANGED <<serverVars, target, accepted, cut, abandoned, taskVars>>

(* The body is refused. *)
BodyRefused(r) ==
  /\ handler[r] = "reading" /\ r \notin cut
  /\ Refusal(body[r]) # 0
  /\ Answer(r, Refusal(body[r]))
  /\ UNCHANGED <<serverVars, body, target, accepted, cut, abandoned, taskVars>>

Spawn(r) ==
  /\ handler[r] = "reading" /\ r \notin cut
  /\ Refusal(body[r]) = 0
  /\ handler' = [handler EXCEPT ![r] = "sending"]
  /\ target' = [target EXCEPT ![r] = 1]
  /\ task' = [t \in Tasks |->
       IF t[1] = r /\ t[2] \in Requested(Notification(body[r]))
         THEN IF t[2] = "history" THEN "resolving" ELSE "analysing"
         ELSE task[t]]
  /\ UNCHANGED <<serverVars, body, status, accepted, cut, abandoned,
                 shown, cancelled, drawing>>

(* Faulty variant: deliver() without its test of _closed. *)
DeliversUnchecked(r) == Spawn(r)

(* deliver(): the optional tasks are spawned, then the first text is sent.  *)
Delivers(r) == ~Closed(r) /\ Spawn(r)

(* A closed delivery has sent to nobody. *)
DeliveryClosed(r) ==
  /\ handler[r] = "reading" /\ r \notin cut
  /\ Refusal(body[r]) = 0
  /\ Closed(r)
  /\ Answer(r, 502)
  /\ UNCHANGED <<serverVars, body, target, accepted, cut, abandoned, taskVars>>

NextText(r, taken, last, delivered) ==
  /\ handler[r] = "sending"
  /\ cut' = cut \ {r}
  /\ accepted' = [accepted EXCEPT ![r] = IF taken THEN @ + 1 ELSE @]
  /\ IF target[r] < last
       THEN /\ target' = [target EXCEPT ![r] = @ + 1]
            /\ UNCHANGED <<handler, status>>
       ELSE /\ Answer(r, IF delivered THEN 200 ELSE 502)
            /\ UNCHANGED target
  /\ UNCHANGED <<serverVars, body, abandoned, taskVars>>

(* Faulty variant: only the last target counts. *)
TextSentToLast(r, taken) == NextText(r, taken, targets, taken)

(***************************************************************************)
(* send_message has accepted the raw text, or rejected it, or raised: the  *)
(* next target's turn comes either way.  The platform adapter may have     *)
(* swallowed a cancellation.                                               *)
(***************************************************************************)
TextSent(r, taken) ==
  NextText(r, taken, targets, taken \/ accepted[r] > 0)

(* CancelledError is no Exception: nothing in the handler catches it.       *)
HandlerDropped(r) ==
  /\ r \in cut
  /\ cut' = cut \ {r}
  /\ handler' = [handler EXCEPT ![r] = "dropped"]
  /\ UNCHANGED <<serverVars, body, status, target, accepted, abandoned, taskVars>>
-----------------------------------------------------------------------------
Goes(t, where) ==
  /\ task[t] # "none" /\ t \notin cancelled
  /\ task' = [task EXCEPT ![t] = where]
  /\ UNCHANGED <<serverVars, handlerVars, shown, cancelled>>

(* _deliver_history: no node is found, or its history cannot be read.       *)
NoHistory(r) ==
  /\ task[<<r, "history">>] \in {"resolving", "querying"}
  /\ Goes(<<r, "history">>, "ended")
  /\ UNCHANGED drawing

NodeFound(r) ==
  /\ task[<<r, "history">>] = "resolving"
  /\ Goes(<<r, "history">>, "querying")
  /\ UNCHANGED drawing

HistoryRead(r) ==
  /\ task[<<r, "history">>] = "querying"
  /\ Goes(<<r, "history">>, "drawing")
  /\ drawing' = drawing \cup {r}

(* The native render ends, whether or not its task still waits for it.      *)
RenderEnds(r) ==
  /\ r \in drawing
  /\ drawing' = drawing \ {r}
  /\ UNCHANGED <<serverVars, handlerVars, task, shown, cancelled>>

(* The render raised, or came back after close() had begun.                 *)
NoImage(r) ==
  /\ task[<<r, "history">>] = "drawing" /\ r \notin drawing
  /\ Goes(<<r, "history">>, "ended")
  /\ UNCHANGED drawing

ImageDrawn(r) ==
  /\ task[<<r, "history">>] = "drawing" /\ r \notin drawing
  /\ <<r, "history">> \notin cancelled
  /\ ~Closed(r)
  /\ task' = [task EXCEPT ![<<r, "history">>] = "sending"]
  /\ shown' = [shown EXCEPT ![r] = 1]
  /\ UNCHANGED <<serverVars, handlerVars, cancelled, drawing>>

NextImage(r, stopped) ==
  LET t == <<r, "history">>
  IN  /\ task[t] = "sending"
      /\ cancelled' = cancelled \ {t}
      /\ IF shown[r] < targets /\ ~stopped
           THEN /\ shown' = [shown EXCEPT ![r] = @ + 1]
                /\ UNCHANGED task
           ELSE /\ task' = [task EXCEPT ![t] = "ended"]
                /\ UNCHANGED shown
      /\ UNCHANGED <<serverVars, handlerVars, drawing>>

(* Faulty variant: no test of _closed between two targets. *)
ImageSentUnchecked(r) == NextImage(r, FALSE)

(* send_message has returned or raised, perhaps swallowing a cancellation.  *)
ImageSent(r) == NextImage(r, Closed(r))

(* _deliver_analysis returns or raises, see AnalysisChain.                  *)
AnalysisEnds(r) ==
  /\ task[<<r, "analysis">>] = "analysing"
  /\ task' = [task EXCEPT ![<<r, "analysis">>] = "ended"]
  /\ cancelled' = cancelled \ {<<r, "analysis">>}
  /\ UNCHANGED <<serverVars, handlerVars, shown, drawing>>

(* A cancelled task ends; a render it has started goes on.                  *)
TaskCancelled(t) ==
  /\ t \in cancelled
  /\ cancelled' = cancelled \ {t}
  /\ task' = [task EXCEPT ![t] = "ended"]
  /\ UNCHANGED <<serverVars, handlerVars, shown, drawing>>
-----------------------------------------------------------------------------
CloseCancelling(some) ==
  /\ runner' = "none"
  /\ delivery' = "cancelling"
  /\ cancelled' = some
  /\ UNCHANGED <<targets, task, shown, drawing>>

(* Faulty variant: the tasks are waited for without being cancelled. *)
CloseWaits == CloseCancelling({})

(* WebhookDelivery.close() begins: it cancels every task still running.     *)
CloseDelivery == CloseCancelling(Running)

CloseAtOnce == CloseDelivery /\ UNCHANGED handlerVars

Drain ==
  /\ runner' = "draining"
  /\ UNCHANGED <<targets, delivery, handlerVars, taskVars>>

(* Faulty variant: the delivery is closed without draining the handlers.    *)
StopClosesFirst == delivery = "open" /\ CloseAtOnce

(* stop(): the runner closes the listener and drains its handlers; a        *)
(* server that could not be bound has no runner.                           *)
Stop ==
  \/ runner = "listening" /\ Drain
  \/ runner = "none" /\ CloseAtOnce

Drained ==
  /\ runner = "draining"
  /\ Handling \subseteq abandoned
  /\ CloseAtOnce

(* aiohttp's shutdown timeout: it cancels the handlers and waits no longer. *)
DrainTimesOut ==
  /\ runner = "draining"
  /\ ~(Handling \subseteq abandoned)
  /\ cut' = cut \cup (Handling \ abandoned)
  /\ abandoned' = abandoned \cup Handling
  /\ CloseDelivery
  /\ UNCHANGED <<handler, body, status, target, accepted>>

(* cleanup() raises: the delivery is closed all the same.                   *)
CleanupRaises ==
  /\ runner = "draining"
  /\ abandoned' = abandoned \cup Handling
  /\ CloseDelivery
  /\ UNCHANGED <<handler, body, status, target, accepted, cut>>

(* gather() returns, and wait_idle() follows.                               *)
TasksEnded ==
  /\ delivery = "cancelling"
  /\ Running = {}
  /\ delivery' = "idling"
  /\ UNCHANGED <<targets, runner, handlerVars, taskVars>>

RendererIdle ==
  /\ delivery = "idling"
  /\ drawing = {}
  /\ delivery' = "closed"
  /\ UNCHANGED <<targets, runner, handlerVars, taskVars>>

HandlerStep(r) ==
  \/ BodyRefused(r)
  \/ Delivers(r)
  \/ DeliveryClosed(r)
  \/ \E taken \in BOOLEAN : TextSent(r, taken)
  \/ HandlerDropped(r)

TaskStep(r) ==
  \/ NoHistory(r)
  \/ NodeFound(r)
  \/ HistoryRead(r)
  \/ RenderEnds(r)
  \/ NoImage(r)
  \/ ImageDrawn(r)
  \/ ImageSent(r)
  \/ AnalysisEnds(r)
  \/ \E b \in Branches : TaskCancelled(<<r, b>>)

ShutdownStep ==
  \/ Drained
  \/ DrainTimesOut
  \/ CleanupRaises
  \/ TasksEnded
  \/ RendererIdle
==============================================================================
