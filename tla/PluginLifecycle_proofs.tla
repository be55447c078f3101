----------------------- MODULE PluginLifecycle_proofs -----------------------
(***************************************************************************)
(* Proofs about PluginLifecycle for any number of requests, bodies,        *)
(* settings and starts.  The webhook's parts of the invariant come first,  *)
(* then those of the plugin around it.                                     *)
(***************************************************************************)
EXTENDS PluginService, TLAPS

HandlerStates == {"idle", "reading", "sending", "answered", "dropped"}
TaskStates ==
  {"none", "resolving", "querying", "drawing", "sending", "analysing", "ended"}

ServerTypeOK ==
  /\ targets \in Nat
  /\ runner \in {"none", "binding", "listening", "draining"}
  /\ delivery \in {"none", "open", "cancelling", "idling", "closed"}
  /\ handler \in [Requests -> HandlerStates]
  /\ body \in [Requests -> Bodies \cup {NoBody}]
  /\ status \in [Requests -> {0, 200, 400, 401, 413, 415, 502}]
  /\ target \in [Requests -> Nat]
  /\ accepted \in [Requests -> Nat]
  /\ cut \subseteq Requests
  /\ abandoned \subseteq Requests
  /\ task \in [Tasks -> TaskStates]
  /\ shown \in [Requests -> Nat]
  /\ cancelled \subseteq Tasks
  /\ drawing \subseteq Requests

(* A runner has an open delivery; close() has cancelled whatever still      *)
(* runs; behind it no task and no render is left.                          *)
CloseInv ==
  /\ runner # "none" => delivery = "open"
  /\ delivery \in {"none", "idling", "closed"} => Running = {}
  /\ delivery \in {"none", "closed"} => drawing = {}
  /\ cancelled \subseteq Running
  /\ delivery = "cancelling" => Running \subseteq cancelled

(* Without a listening runner every handler at work has been abandoned; one *)
(* that aiohttp has cancelled is still at work, and nobody is given up who  *)
(* has not arrived.                                                        *)
DrainInv ==
  /\ runner \in {"none", "binding"} => Handling \subseteq abandoned
  /\ cut \subseteq Handling
  /\ \A r \in abandoned : handler[r] # "idle"

(* How far a handler has come.  *)
HandlerInv ==
  \A r \in Requests :
    /\ handler[r] \in {"idle", "reading"} =>
         accepted[r] = 0 /\ \A b \in Branches : task[<<r, b>>] = "none"
    /\ handler[r] \in {"idle", "reading", "sending"} => status[r] = 0
    /\ handler[r] \in {"reading", "sending"} => body[r] \in Bodies

ServerInv ==
  /\ ServerTypeOK
  /\ CloseInv
  /\ DrainInv
  /\ HandlerInv
  /\ StatusTellsTheText
  /\ TasksAreAsked
-----------------------------------------------------------------------------
(* Whatever a body is refused with is the status of an error. *)
LEMMA RefusalIsAnError ==
  ASSUME NEW bd, Refusal(bd) # 0
  PROVE  Refusal(bd) \in {400, 413, 415}
BY DEF Refusal

(* Only a body that can be read starts an optional task, and asks for it.   *)
LEMMA AskedFor ==
  ASSUME NEW bd \in Bodies, Refusal(bd) = 0, NEW b \in Requested(Notification(bd))
  PROVE  /\ b \in Branches
         /\ bd.media = "json" /\ bd.doc = "object" /\ bd.utf8
         /\ bd[b] \in {"true", "TRUE"}
         /\ bd.source \notin {"uptime_kuma", "watchtower"}
<1> DEFINE n == Notification(bd)
<1>1. /\ b \in {"history", "analysis"}
      /\ n.source \in HistorySources
      /\ n[IF b = "history" THEN "send_history" ELSE "send_analysis"]
  BY DEF Requested
<1>2. bd.utf8
  BY WebhookAssumption DEF Refusal, Readable
<1>3. bd.media = "json" /\ bd.doc = "object"
  BY <1>1 DEF Notification
<1>4. /\ n.source = Source(bd.source)
      /\ n.send_history = StrictTrue(bd.history)
      /\ n.send_analysis = StrictTrue(bd.analysis)
  BY <1>3 DEF Notification
<1>5. bd.source \notin {"uptime_kuma", "watchtower"}
  BY <1>1, <1>4 DEF Source, Sources, HistorySources
<1>6. CASE b = "history"
  <2>1. StrictTrue(bd.history)
    BY <1>1, <1>4, <1>6
  <2>2. QED
    BY <2>1, <1>1, <1>2, <1>3, <1>5, <1>6 DEF StrictTrue, Branches
<1>7. CASE b = "analysis"
  <2>1. StrictTrue(bd.analysis)
    BY <1>1, <1>4, <1>7
  <2>2. QED
    BY <2>1, <1>1, <1>2, <1>3, <1>5, <1>7 DEF StrictTrue, Branches
<1>8. QED
  BY <1>1, <1>6, <1>7
-----------------------------------------------------------------------------
(* A handler that has sent nothing yet answers with an error. *)
LEMMA ErrorStep ==
  ASSUME ServerInv, NEW r \in Requests, handler[r] \in {"idle", "reading"}, r \notin cut,
         NEW code \in {400, 401, 413, 415, 502}, Answer(r, code),
         UNCHANGED <<serverVars, body, target, accepted, cut, abandoned, taskVars>>
  PROVE  ServerInv'
<1> USE DEF ServerInv, ServerTypeOK, HandlerStates, serverVars, taskVars
<1>1. /\ handler' = [handler EXCEPT ![r] = "answered"]
      /\ status' = [status EXCEPT ![r] = code]
  BY DEF Answer
<1>2. ServerTypeOK'
  BY <1>1
<1>3. CloseInv'
  BY DEF CloseInv, Running
<1>4. DrainInv'
  BY <1>1 DEF DrainInv, Handling
<1>5. HandlerInv'
  BY <1>1 DEF HandlerInv
<1>6. StatusTellsTheText'
  BY <1>1 DEF StatusTellsTheText, HandlerInv
<1>7. TasksAreAsked'
  BY DEF TasksAreAsked
<1>8. QED
  BY <1>2, <1>3, <1>4, <1>5, <1>6, <1>7

LEMMA ArrivesStep ==
  ASSUME ServerInv, NEW r \in Requests, NEW authentic, Arrives(r, authentic)
  PROVE  ServerInv'
<1> USE DEF ServerInv, ServerTypeOK, HandlerStates, serverVars, taskVars
<1>1. /\ runner = "listening" /\ handler[r] = "idle"
      /\ UNCHANGED <<serverVars, target, accepted, cut, abandoned, taskVars>>
  BY DEF Arrives
<1>2. ASSUME NEW bd \in Bodies, handler' = [handler EXCEPT ![r] = "reading"],
             body' = [body EXCEPT ![r] = bd], UNCHANGED status
      PROVE  ServerInv'
  <2>1. ServerTypeOK'
    BY <1>1, <1>2
  <2>2. CloseInv'
    BY <1>1 DEF CloseInv, Running
  <2>3. DrainInv'
    BY <1>1, <1>2 DEF DrainInv, Handling
  <2>4. HandlerInv'
    BY <1>1, <1>2 DEF HandlerInv
  <2>5. StatusTellsTheText'
    BY <1>1, <1>2 DEF StatusTellsTheText
  <2>6. TasksAreAsked'
    BY <1>1, <1>2 DEF TasksAreAsked, HandlerInv
  <2>7. QED
    BY <2>1, <2>2, <2>3, <2>4, <2>5, <2>6
<1>3. CASE Answer(r, 401) /\ UNCHANGED body
  <2>1. r \notin cut
    BY <1>1 DEF DrainInv, Handling
  <2>2. QED
    BY <1>1, <1>3, <2>1, ErrorStep
<1>4. QED
  BY <1>2, <1>3 DEF Arrives

LEMMA DeliversStep ==
  ASSUME ServerInv, NEW r \in Requests, Delivers(r)
  PROVE  ServerInv'
<1> USE DEF ServerInv, ServerTypeOK, HandlerStates, TaskStates, serverVars
<1> DEFINE asked == Requested(Notification(body[r]))
<1>1. /\ handler[r] = "reading" /\ Refusal(body[r]) = 0 /\ delivery = "open"
      /\ handler' = [handler EXCEPT ![r] = "sending"]
      /\ target' = [target EXCEPT ![r] = 1]
      /\ task' = [t \in Tasks |->
           IF t[1] = r /\ t[2] \in asked
             THEN IF t[2] = "history" THEN "resolving" ELSE "analysing"
             ELSE task[t]]
      /\ UNCHANGED <<serverVars, body, status, accepted, cut, abandoned,
                     shown, cancelled, drawing>>
  BY DEF Delivers, Closed, Spawn
<1>2. \A q \in Requests, b \in Branches :
        task'[<<q, b>>] # task[<<q, b>>] => q = r /\ b \in asked
  BY <1>1 DEF Tasks
<1>3. ServerTypeOK'
  BY <1>1
<1>4. CloseInv'
  BY <1>1 DEF CloseInv, Running
<1>5. DrainInv'
  BY <1>1 DEF DrainInv, Handling
<1>6. HandlerInv'
  BY <1>1, <1>2 DEF HandlerInv
<1>7. StatusTellsTheText'
  BY <1>1 DEF StatusTellsTheText
<1>8. TasksAreAsked'
  <2> SUFFICES ASSUME NEW q \in Requests, NEW b \in Branches, task'[<<q, b>>] # "none"
               PROVE  /\ body[q].media = "json" /\ body[q].doc = "object" /\ body[q].utf8
                      /\ body[q][b] \in {"true", "TRUE"}
                      /\ body[q].source \notin {"uptime_kuma", "watchtower"}
    BY <1>1 DEF TasksAreAsked
  <2>1. CASE task[<<q, b>>] # "none"
    BY <2>1 DEF TasksAreAsked
  <2>2. CASE task[<<q, b>>] = "none"
    BY <2>2, <1>1, <1>2, AskedFor DEF HandlerInv
  <2>3. QED
    BY <2>1, <2>2
<1>9. QED
  BY <1>3, <1>4, <1>5, <1>6, <1>7, <1>8

LEMMA TextStep ==
  ASSUME ServerInv, NEW r \in Requests, NEW taken \in BOOLEAN, TextSent(r, taken)
  PROVE  ServerInv'
<1> USE DEF ServerInv, ServerTypeOK, HandlerStates, serverVars, taskVars
<1> DEFINE now == IF taken THEN accepted[r] + 1 ELSE accepted[r]
<1>1. /\ handler[r] = "sending" /\ cut' = cut \ {r}
      /\ accepted' = [accepted EXCEPT ![r] = now]
      /\ UNCHANGED <<serverVars, body, abandoned, taskVars>>
  BY DEF TextSent, NextText
<1>2. \/ target' = [target EXCEPT ![r] = target[r] + 1] /\ UNCHANGED <<handler, status>>
      \/ /\ UNCHANGED target
         /\ handler' = [handler EXCEPT ![r] = "answered"]
         /\ status' = [status EXCEPT ![r] = IF now > 0 THEN 200 ELSE 502]
  BY DEF TextSent, NextText, Answer
<1>3. now \in Nat
  OBVIOUS
<1>4. ServerTypeOK'
  BY <1>1, <1>2, <1>3
<1>5. CloseInv'
  BY <1>1 DEF CloseInv, Running
<1>6. DrainInv'
  BY <1>1, <1>2 DEF DrainInv, Handling
<1>7. HandlerInv'
  BY <1>1, <1>2 DEF HandlerInv
<1>8. StatusTellsTheText'
  BY <1>1, <1>2, <1>3 DEF StatusTellsTheText, HandlerInv
<1>9. TasksAreAsked'
  BY <1>1 DEF TasksAreAsked
<1>10. QED
  BY <1>4, <1>5, <1>6, <1>7, <1>8, <1>9

LEMMA DroppedStep ==
  ASSUME ServerInv, NEW r \in Requests, HandlerDropped(r)
  PROVE  ServerInv'
<1> USE DEF ServerInv, ServerTypeOK, HandlerStates, HandlerDropped, serverVars, taskVars
<1>1. ServerTypeOK'
  OBVIOUS
<1>2. CloseInv'
  BY DEF CloseInv, Running
<1>3. DrainInv'
  BY DEF DrainInv, Handling
<1>4. HandlerInv'
  BY DEF HandlerInv
<1>5. StatusTellsTheText'
  BY DEF StatusTellsTheText
<1>6. TasksAreAsked'
  BY DEF TasksAreAsked
<1>7. QED
  BY <1>1, <1>2, <1>3, <1>4, <1>5, <1>6

LEMMA HandlersKeepServerInv ==
  ASSUME ServerInv, NEW r \in Requests, HandlerStep(r)
  PROVE  ServerInv'
<1>1. CASE BodyRefused(r)
  BY <1>1, RefusalIsAnError, ErrorStep DEF BodyRefused
<1>2. CASE Delivers(r)
  BY <1>2, DeliversStep
<1>3. CASE DeliveryClosed(r)
  BY <1>3, ErrorStep DEF DeliveryClosed
<1>4. CASE \E taken \in BOOLEAN : TextSent(r, taken)
  BY <1>4, TextStep
<1>5. CASE HandlerDropped(r)
  BY <1>5, DroppedStep
<1>6. QED
  BY <1>1, <1>2, <1>3, <1>4, <1>5 DEF HandlerStep

-----------------------------------------------------------------------------
(* A task at work goes on or ends; a cancelled one that ends has noticed.   *)
LEMMA TaskMoves ==
  ASSUME ServerInv, NEW t \in Tasks, task[t] \notin {"none", "ended"},
         NEW where \in TaskStates \ {"none"}, task' = [task EXCEPT ![t] = where],
         cancelled' \in {cancelled, cancelled \ {t}},
         where = "ended" => t \notin cancelled',
         delivery = "cancelling" => where = "ended" \/ t \in cancelled',
         shown' \in [Requests -> Nat], drawing' \subseteq Requests,
         UNCHANGED <<serverVars, handlerVars>>
  PROVE  ServerInv'
<1> USE DEF ServerInv, ServerTypeOK, TaskStates, serverVars, handlerVars
<1>1. ServerTypeOK'
  OBVIOUS
<1>2. t \in Running /\ Running' \subseteq Running
  BY DEF Running
<1>3. CloseInv'
  BY <1>2 DEF CloseInv, Running
<1>4. DrainInv'
  BY DEF DrainInv, Handling
<1>5. \A u \in Tasks : task'[u] = "none" <=> task[u] = "none"
  OBVIOUS
<1>6. \A q \in Requests, b \in Branches : <<q, b>> \in Tasks
  BY DEF Tasks
<1>7. HandlerInv'
  BY <1>5, <1>6 DEF HandlerInv
<1>8. StatusTellsTheText'
  BY DEF StatusTellsTheText
<1>9. TasksAreAsked'
  BY <1>5, <1>6 DEF TasksAreAsked
<1>10. QED
  BY <1>1, <1>3, <1>4, <1>7, <1>8, <1>9

(* The thread that draws an image ends. *)
LEMMA RenderStep ==
  ASSUME ServerInv, NEW r \in Requests, RenderEnds(r)
  PROVE  ServerInv'
<1> USE DEF ServerInv, ServerTypeOK, RenderEnds, serverVars, handlerVars
<1>1. ServerTypeOK'
  OBVIOUS
<1>2. CloseInv'
  BY DEF CloseInv, Running
<1>3. DrainInv' /\ HandlerInv' /\ StatusTellsTheText' /\ TasksAreAsked'
  BY DEF DrainInv, Handling, HandlerInv, StatusTellsTheText, TasksAreAsked
<1>4. QED
  BY <1>1, <1>2, <1>3

LEMMA TasksKeepServerInv ==
  ASSUME ServerInv, NEW r \in Requests, TaskStep(r)
  PROVE  ServerInv'
<1> USE DEF ServerInv, ServerTypeOK, TaskStates
<1> DEFINE t == <<r, "history">>
<1>1. t \in Tasks /\ <<r, "analysis">> \in Tasks
  BY DEF Tasks, Branches
<1>a. task[t] \notin {"none", "ended"} /\ t \notin cancelled => delivery # "cancelling"
  BY <1>1 DEF CloseInv, Running
<1>2. CASE NoHistory(r)
  BY <1>1, <1>2, TaskMoves DEF NoHistory, Goes
<1>3. CASE NodeFound(r)
  BY <1>1, <1>a, <1>3, TaskMoves, ZenonT(40) DEF NodeFound, Goes
<1>4. CASE HistoryRead(r)
  <2>1. /\ task[t] = "querying" /\ task' = [task EXCEPT ![t] = "drawing"]
        /\ t \notin cancelled /\ drawing' = drawing \cup {r}
        /\ UNCHANGED <<serverVars, handlerVars, shown, cancelled>>
    BY <1>4 DEF HistoryRead, Goes
  <2>2. drawing' \subseteq Requests
    BY <2>1
  <2>3. QED
    BY <1>1, <1>a, <2>1, <2>2, TaskMoves
<1>5. CASE RenderEnds(r)
  BY <1>5, RenderStep
<1>6. CASE NoImage(r)
  BY <1>1, <1>6, TaskMoves DEF NoImage, Goes
<1>7. CASE ImageDrawn(r)
  BY <1>1, <1>a, <1>7, TaskMoves DEF ImageDrawn
<1>8. CASE ImageSent(r)
  <2>1. /\ task[t] = "sending" /\ cancelled' = cancelled \ {t}
        /\ UNCHANGED <<serverVars, handlerVars, drawing>>
    BY <1>8 DEF ImageSent, NextImage
  <2>2. CASE shown' = [shown EXCEPT ![r] = @ + 1] /\ UNCHANGED task /\ ~Closed(r)
    <3>1. delivery = "open"
      BY <2>2 DEF Closed
    <3>2. task' = [task EXCEPT ![t] = "sending"]
      BY <1>1, <2>1, <2>2
    <3>3. shown' \in [Requests -> Nat] /\ drawing' \subseteq Requests
      BY <2>1, <2>2
    <3>4. QED
      BY <1>1, <2>1, <3>1, <3>2, <3>3, TaskMoves
  <2>3. CASE task' = [task EXCEPT ![t] = "ended"] /\ UNCHANGED shown
    BY <1>1, <2>1, <2>3, TaskMoves
  <2>4. QED
    BY <1>8, <2>2, <2>3 DEF ImageSent, NextImage
<1>9. CASE AnalysisEnds(r)
  BY <1>1, <1>9, TaskMoves DEF AnalysisEnds
<1>10. CASE \E b \in Branches : TaskCancelled(<<r, b>>)
  <2>1. PICK u \in Tasks : TaskCancelled(u)
    BY <1>10 DEF Tasks
  <2>2. task[u] \notin {"none", "ended"}
    BY <2>1 DEF TaskCancelled, CloseInv, Running
  <2>3. QED
    BY <2>1, <2>2, TaskMoves DEF TaskCancelled
<1>11. QED
  BY <1>2, <1>3, <1>4, <1>5, <1>6, <1>7, <1>8, <1>9, <1>10 DEF TaskStep
-----------------------------------------------------------------------------
(* The listener comes and goes while the delivery is open. *)
LEMMA ListenerMoves ==
  ASSUME ServerInv, runner' \in {"none", "binding", "listening", "draining"},
         delivery' = "open",
         runner' \in {"none", "binding"} => runner \in {"none", "binding"},
         UNCHANGED <<targets, handlerVars, taskVars>>
  PROVE  ServerInv'
<1> USE DEF ServerInv, ServerTypeOK, serverVars, handlerVars, taskVars
<1>1. ServerTypeOK'
  OBVIOUS
<1>2. CloseInv'
  BY DEF CloseInv, Running
<1>3. DrainInv' /\ HandlerInv' /\ StatusTellsTheText' /\ TasksAreAsked'
  BY DEF DrainInv, Handling, HandlerInv, StatusTellsTheText, TasksAreAsked
<1>4. QED
  BY <1>1, <1>2, <1>3

(* close() begins when every handler at work has been given up. *)
LEMMA CloseStep ==
  ASSUME ServerInv, CloseDelivery, cut' \subseteq Handling,
         abandoned' \in {abandoned, abandoned \cup Handling},
         Handling \subseteq abandoned',
         UNCHANGED <<handler, body, status, target, accepted>>
  PROVE  ServerInv'
<1> USE DEF ServerInv, ServerTypeOK, CloseDelivery, CloseCancelling
<1>1. ServerTypeOK'
  <2>1. Handling \subseteq Requests /\ Running \subseteq Tasks
    BY DEF Handling, Running
  <2>2. cut' \subseteq Requests /\ abandoned' \subseteq Requests /\ cancelled' \subseteq Tasks
    BY <2>1
  <2>3. QED
    BY <2>2
<1>2. CloseInv'
  BY DEF CloseInv, Running
<1>3. DrainInv' /\ HandlerInv' /\ StatusTellsTheText' /\ TasksAreAsked'
  BY DEF DrainInv, Handling, HandlerInv, StatusTellsTheText, TasksAreAsked
<1>4. QED
  BY <1>1, <1>2, <1>3

(* close() goes on once its tasks, and then the renders, have ended. *)
LEMMA DeliveryRests ==
  ASSUME ServerInv, delivery' \in {"idling", "closed"}, runner = "none",
         Running = {}, delivery' = "closed" => drawing = {},
         UNCHANGED <<targets, runner, handlerVars, taskVars>>
  PROVE  ServerInv'
<1> USE DEF ServerInv, ServerTypeOK, handlerVars, taskVars
<1>1. ServerTypeOK'
  OBVIOUS
<1>2. CloseInv'
  BY DEF CloseInv, Running
<1>3. DrainInv' /\ HandlerInv' /\ StatusTellsTheText' /\ TasksAreAsked'
  BY DEF DrainInv, Handling, HandlerInv, StatusTellsTheText, TasksAreAsked
<1>4. QED
  BY <1>1, <1>2, <1>3

LEMMA StopKeepsServerInv ==
  ASSUME ServerInv, Stop
  PROVE  ServerInv'
<1>1. CASE runner = "listening" /\ Drain
  BY <1>1, ListenerMoves DEF Drain, ServerInv, CloseInv
<1>2. CASE runner = "none" /\ CloseAtOnce
  BY <1>2, CloseStep DEF CloseAtOnce, handlerVars, ServerInv, ServerTypeOK, DrainInv
<1>3. QED
  BY <1>1, <1>2 DEF Stop

LEMMA ShutdownKeepsServerInv ==
  ASSUME ServerInv, Bound \/ PortTaken \/ ShutdownStep
  PROVE  ServerInv'
<1> USE DEF ServerInv, ServerTypeOK
<1>1. CASE Bound \/ PortTaken
  BY <1>1, ListenerMoves DEF Bound, PortTaken, CloseInv
<1>2. CASE Drained
  BY <1>2, CloseStep DEF Drained, CloseAtOnce, handlerVars, DrainInv
<1>3. CASE DrainTimesOut
  <2>1. cut' \subseteq Handling
    BY <1>3 DEF DrainTimesOut, DrainInv
  <2>2. QED
    BY <1>3, <2>1, CloseStep DEF DrainTimesOut, Handling
<1>4. CASE CleanupRaises
  <2>1. cut' \subseteq Handling
    BY <1>4 DEF CleanupRaises, DrainInv
  <2>2. QED
    BY <1>4, <2>1, CloseStep DEF CleanupRaises, Handling
<1>5. CASE TasksEnded
  BY <1>5, DeliveryRests DEF TasksEnded, CloseInv
<1>6. CASE RendererIdle
  BY <1>6, DeliveryRests DEF RendererIdle, CloseInv
<1>7. QED
  BY <1>1, <1>2, <1>3, <1>4, <1>5, <1>6 DEF ShutdownStep

(* The process dies with all its handlers, tasks and threads. *)
LEMMA DiesKeepsServerInv ==
  ASSUME ServerInv, Dies
  PROVE  ServerInv'
<1> USE DEF ServerInv, ServerTypeOK, HandlerStates, TaskStates, Dies
<1>1. ServerTypeOK'
  OBVIOUS
<1>2. Running' = {} /\ Handling' = {}
  BY DEF Running, Handling
<1>3. CloseInv'
  BY <1>2 DEF CloseInv
<1>4. DrainInv'
  BY <1>2 DEF DrainInv
<1>5. \A t \in Tasks : task'[t] = "none" <=> task[t] = "none"
  BY DEF Running
<1>6. \A r \in Requests, b \in Branches : <<r, b>> \in Tasks
  BY DEF Tasks
<1>7. HandlerInv'
  BY <1>5, <1>6 DEF HandlerInv, Handling
<1>8. StatusTellsTheText'
  BY DEF StatusTellsTheText
<1>9. TasksAreAsked'
  BY <1>5, <1>6 DEF TasksAreAsked
<1>10. QED
  BY <1>1, <1>3, <1>4, <1>7, <1>8, <1>9

-----------------------------------------------------------------------------
Tokens == [kind : {"blank", "ascii", "non_ascii"}, id : Nat]

LifeTypeOK ==
  /\ file \in Files
  /\ disk \in Tokens
  /\ plugin \in {"down", "failed", "loaded", "up", "stopping", "releasing"}
  /\ starts \in Nat
  /\ promised \in Tokens
  /\ released \subseteq Parts

(* Only a plugin that is up, or stopping, with a webhook switched on has a  *)
(* listener or a delivery that is not closed, and nothing has been stopped *)
(* while it is up.                                                         *)
StageInv ==
  /\ plugin \in {"down", "failed", "loaded", "releasing"} =>
       runner = "none" /\ delivery \in {"none", "closed"}
  /\ plugin \in {"up", "stopping"} /\ ~settings.enabled =>
       runner = "none" /\ delivery = "none"
  /\ plugin = "up" => runner # "draining" /\ delivery \in {"none", "open"}
  /\ plugin = "down" => released = Parts

(* Settings a plugin can run with, whatever has been written. *)
Usable(s) ==
  /\ s.path # "/healthz"
  /\ \A f \in NumberFields : s.number[f] \in Limits[f].min .. Limits[f].max
  /\ s.enabled => s.token.kind = "ascii" /\ s.targets > 0

SettingsInv ==
  /\ \A f \in NumberFields : settings.number[f] \in Limits[f].min .. Limits[f].max
  /\ plugin \in {"loaded", "up", "stopping"} =>
       Usable(settings) /\ targets = settings.targets

PluginInv ==
  /\ ServerInv
  /\ LifeTypeOK
  /\ StageInv
  /\ SettingsInv
  /\ SavedTokenWorks
  /\ promised # Blank => promised.kind = "ascii"

(* Only the token in the file differs from what the operator has written.   *)
LEMMA RawReads ==
  ASSUME LifeTypeOK
  PROVE  Raw.token = disk /\ Raw.targets \in Nat
<1>1. /\ {"token", "targets"} \subseteq DOMAIN file
      /\ file.targets \in 0 .. MaxTargets
  BY LifecycleAssumption DEF LifeTypeOK
<1>2. Raw = [f \in DOMAIN file |-> IF f = "token" THEN disk ELSE file[f]]
  BY DEF Raw
<1>3. QED
  BY <1>1, <1>2, WebhookAssumption

(* Every default lies in the range of its number, so every number does.     *)
LEMMA NumbersInRange ==
  ASSUME NEW raw, NEW f \in NumberFields
  PROVE  Number(raw, f) \in Limits[f].min .. Limits[f].max
<1>1. Limits[f].default \in Limits[f].min .. Limits[f].max
  BY DEF NumberFields, Limits, Between
<1>2. QED
  BY <1>1 DEF Number, InRange

(* from_mapping makes usable settings of all that it does not refuse. *)
LEMMA SettingsAreUsable ==
  ASSUME NEW raw, NEW fresh, fresh.kind = "ascii",
         raw.token.kind \in {"blank", "ascii", "non_ascii"}
  PROVE  /\ Usable(Settings(raw, fresh))
         /\ Settings(raw, fresh).targets = raw.targets
         /\ Settings(raw, fresh).token =
              IF TokenGenerated(raw) THEN fresh ELSE raw.token
<1> DEFINE s == Settings(raw, fresh)
<1>1. /\ s.number = [f \in NumberFields |-> Number(raw, f)]
      /\ s.path = Path(raw)
      /\ s.targets = raw.targets
      /\ s.token = IF TokenGenerated(raw) THEN fresh ELSE raw.token
  BY DEF Settings
<1>2. \A f \in NumberFields : s.number[f] \in Limits[f].min .. Limits[f].max
  BY <1>1, NumbersInRange
<1>3. Path(raw) # "/healthz"
  BY DEF Path, PathTaken, Slashed
<1>4. ASSUME s.enabled
      PROVE  s.token.kind = "ascii" /\ s.targets > 0
  <2>1. Enabled(raw)
    BY <1>4 DEF Settings
  <2>2. QED
    BY <1>1, <2>1 DEF Enabled, TokenGenerated
<1>5. QED
  BY <1>1, <1>2, <1>3, <1>4 DEF Usable

LEMMA InitKeepsPluginInv ==
  ASSUME PluginInit
  PROVE  PluginInv
<1> USE DEF PluginInit, WebhookInit
<1>1. Running = {} /\ Handling = {}
  BY DEF Running, Handling
<1>2. ServerTypeOK
  BY DEF ServerTypeOK, HandlerStates, TaskStates
<1>3. CloseInv /\ DrainInv
  BY <1>1 DEF CloseInv, DrainInv
<1>4. \A r \in Requests, b \in Branches : <<r, b>> \in Tasks
  BY DEF Tasks
<1>5. HandlerInv /\ StatusTellsTheText /\ TasksAreAsked
  BY <1>4 DEF HandlerInv, StatusTellsTheText, TasksAreAsked
<1>6. LifeTypeOK
  BY LifecycleAssumption DEF LifeTypeOK, Tokens, Blank, Token
<1>7. StageInv /\ SavedTokenWorks
  BY DEF StageInv, SavedTokenWorks
<1>8. SettingsInv
  BY NumbersInRange DEF SettingsInv, Settings
<1>9. QED
  BY <1>2, <1>3, <1>5, <1>6, <1>7, <1>8 DEF PluginInv, ServerInv

-----------------------------------------------------------------------------
(* A step of the webhook leaves the plugin around it as it was. *)
LEMMA WebhookKeepsPluginInv ==
  ASSUME PluginInv, ServerInv', UNCHANGED <<targets, lifeVars>>,
         \/ UNCHANGED <<runner, delivery>>
         \/ /\ plugin \in {"up", "stopping"} /\ settings.enabled
            /\ plugin = "up" => runner' # "draining" /\ delivery' \in {"none", "open"}
  PROVE  PluginInv'
<1> USE DEF PluginInv, lifeVars
<1>1. LifeTypeOK' /\ SettingsInv' /\ SavedTokenWorks'
  BY DEF LifeTypeOK, SettingsInv, SavedTokenWorks
<1>2. StageInv'
  BY DEF StageInv
<1>3. QED
  BY <1>1, <1>2

(* Only a webhook that is on, of a plugin that is up, can start or stop.    *)
LEMMA WebhookIsOn ==
  ASSUME PluginInv, Bound \/ PortTaken \/ ShutdownStep
  PROVE  /\ plugin \in {"up", "stopping"} /\ settings.enabled
         /\ plugin = "up" => runner' # "draining" /\ delivery' \in {"none", "open"}
<1>1. runner # "none" \/ delivery \in {"cancelling", "idling"}
  BY DEF Bound, PortTaken, ShutdownStep, Drained, DrainTimesOut, CleanupRaises,
         TasksEnded, RendererIdle
<1>2. plugin \in {"up", "stopping"} /\ settings.enabled
  BY <1>1 DEF PluginInv, LifeTypeOK, StageInv
<1>3. plugin = "up" => Bound \/ PortTaken
  BY DEF PluginInv, StageInv, ShutdownStep, Drained, DrainTimesOut, CleanupRaises,
         TasksEnded, RendererIdle
<1>4. QED
  BY <1>2, <1>3 DEF PluginInv, StageInv, Bound, PortTaken

LEMMA ConstructStep ==
  ASSUME PluginInv, NEW saved \in BOOLEAN, Construct(saved)
  PROVE  PluginInv'
<1> USE DEF PluginInv, LifeTypeOK
<1> DEFINE fresh == Minted(starts + 1)
<1>1. /\ plugin \in {"down", "failed"} /\ plugin' = "loaded"
      /\ starts' = starts + 1
      /\ settings' = Settings(Raw, fresh)
      /\ targets' = settings'.targets
      /\ released' = {}
      /\ UNCHANGED <<file, runner, delivery, handlerVars, taskVars>>
  BY DEF Construct, ConstructWith
<1>2. \/ /\ TokenGenerated(Raw)
         /\ disk' = fresh /\ promised' = settings'.token
      \/ UNCHANGED <<disk, promised>>
  BY DEF Construct, ConstructWith
<1>3. fresh \in Tokens /\ fresh.kind = "ascii" /\ fresh # Blank
  BY DEF Minted, Token, Tokens, Blank
<1>4. Raw.token = disk /\ Raw.targets \in Nat
  BY RawReads
<1>5. /\ Usable(settings')
      /\ settings'.targets = Raw.targets
      /\ settings'.token = IF TokenGenerated(Raw) THEN fresh ELSE disk
  BY <1>1, <1>3, <1>4, SettingsAreUsable DEF Tokens
<1>6. ServerInv'
  <2> USE DEF ServerInv
  <2>1. ServerTypeOK'
    BY <1>1, <1>4, <1>5 DEF ServerTypeOK, handlerVars, taskVars
  <2>2. CloseInv' /\ DrainInv' /\ HandlerInv' /\ StatusTellsTheText' /\ TasksAreAsked'
    BY <1>1 DEF CloseInv, Running, DrainInv, Handling, HandlerInv,
         StatusTellsTheText, TasksAreAsked, handlerVars, taskVars
  <2>3. QED
    BY <2>1, <2>2
<1>7. LifeTypeOK'
  BY <1>1, <1>2, <1>3, <1>5
<1>8. StageInv'
  BY <1>1 DEF StageInv
<1>9. SettingsInv'
  BY <1>1, <1>5 DEF SettingsInv, Usable
<1>10. SavedTokenWorks' /\ (promised' # Blank => promised'.kind = "ascii")
  <2>1. CASE TokenGenerated(Raw) /\ disk' = fresh /\ promised' = settings'.token
    BY <2>1, <1>3, <1>5 DEF SavedTokenWorks
  <2>2. CASE UNCHANGED <<disk, promised>>
    BY <2>2, <1>4, <1>5 DEF SavedTokenWorks, TokenGenerated
  <2>3. QED
    BY <1>2, <2>1, <2>2
<1>11. QED
  BY <1>6, <1>7, <1>8, <1>9, <1>10

(* The plugin goes to another stage; the webhook may have been touched.     *)
LEMMA StageStep ==
  ASSUME PluginInv, ServerInv', LifeTypeOK', StageInv', targets' = targets,
         plugin' \in {"loaded", "up", "stopping"} =>
           plugin \in {"loaded", "up", "stopping"},
         UNCHANGED <<file, disk, settings, promised>>
  PROVE  PluginInv'
BY DEF PluginInv, SettingsInv, SavedTokenWorks
(* A stage at which the webhook is left alone. *)
LEMMA StageAlone ==
  ASSUME PluginInv, LifeTypeOK', StageInv', UNCHANGED webhookVars,
         plugin' \in {"loaded", "up", "stopping"} =>
           plugin \in {"loaded", "up", "stopping"},
         UNCHANGED <<file, disk, settings, promised>>
  PROVE  PluginInv'
<1>1. ServerInv' /\ targets' = targets
  BY DEF PluginInv, ServerInv, ServerTypeOK, CloseInv, Running, DrainInv, Handling,
     HandlerInv, StatusTellsTheText, TasksAreAsked, webhookVars, serverVars,
     handlerVars, taskVars
<1>2. QED
  BY <1>1, StageStep

LEMMA InitializeStep ==
  ASSUME PluginInv, Initialize
  PROVE  PluginInv'
<1> USE DEF PluginInv, LifeTypeOK
<1>1. /\ plugin = "loaded" /\ plugin' = "up"
      /\ UNCHANGED <<targets, handlerVars, taskVars, file, disk, settings,
                     starts, promised, released>>
  BY DEF Initialize, Start
<1>2. runner = "none" /\ delivery \in {"none", "closed"}
  BY <1>1 DEF StageInv
<1>3. CASE settings.enabled /\ Start
  <2>1. ServerInv'
    BY <1>1, <1>3, ListenerMoves DEF Start
  <2>2. StageInv'
    BY <1>1, <1>3 DEF StageInv, Start
  <2>3. QED
    BY <1>1, <2>1, <2>2, StageStep
<1>4. CASE ~settings.enabled /\ runner' = "none" /\ delivery' = "none"
  <2> USE DEF ServerInv
  <2>1. Running' = {} /\ drawing' = {}
    BY <1>1, <1>2 DEF CloseInv, Running, taskVars
  <2>2. ServerTypeOK' /\ CloseInv'
    BY <1>1, <1>2, <1>4, <2>1 DEF ServerTypeOK, CloseInv, Running, handlerVars, taskVars
  <2>3. DrainInv' /\ HandlerInv' /\ StatusTellsTheText' /\ TasksAreAsked'
    BY <1>1, <1>2 DEF DrainInv, Handling, HandlerInv, StatusTellsTheText,
       TasksAreAsked, handlerVars, taskVars
  <2>4. StageInv'
    BY <1>1, <1>4 DEF StageInv
  <2>5. QED
    BY <1>1, <2>2, <2>3, <2>4, StageStep
<1>5. QED
  BY <1>3, <1>4 DEF Initialize

LEMMA TerminateStep ==
  ASSUME PluginInv, Terminate
  PROVE  PluginInv'
<1> USE DEF PluginInv, LifeTypeOK
<1>1. /\ plugin = "up" /\ plugin' = "stopping"
      /\ UNCHANGED <<file, disk, settings, starts, promised, released>>
  BY DEF Terminate
<1>2. CASE settings.enabled /\ Stop
  <2>1. ServerInv'
    BY <1>2, StopKeepsServerInv
  <2>2. targets' = targets
    BY <1>2 DEF Stop, Drain, CloseAtOnce, CloseDelivery, CloseCancelling
  <2>3. StageInv'
    BY <1>1, <1>2 DEF StageInv
  <2>4. QED
    BY <1>1, <2>1, <2>2, <2>3, StageStep
<1>3. CASE ~settings.enabled /\ UNCHANGED webhookVars
  <2>1. StageInv'
    BY <1>1, <1>3 DEF StageInv, webhookVars, serverVars
  <2>2. QED
    BY <1>1, <1>3, <2>1, StageAlone
<1>4. QED
  BY <1>2, <1>3 DEF Terminate

(* Every step of the plugin and its webhook keeps the invariant. *)
LEMMA PluginStep ==
  ASSUME PluginInv, [PluginNext]_pluginVars
  PROVE  PluginInv'
<1> USE DEF LifeTypeOK
<1>1. CASE \E saved \in BOOLEAN : Construct(saved)
  BY <1>1, ConstructStep
<1>2. CASE ConstructRefused
  <2>1. LifeTypeOK' /\ StageInv'
    BY <1>2, LifecycleAssumption
    DEF ConstructRefused, PluginInv, StageInv, webhookVars, serverVars
  <2>2. QED
    BY <1>2, <2>1, StageAlone DEF ConstructRefused
<1>3. CASE Initialize
  BY <1>3, InitializeStep
<1>4. CASE InitializeFails
  <2>1. LifeTypeOK' /\ StageInv'
    BY <1>4 DEF InitializeFails, PluginInv, StageInv, webhookVars, serverVars
  <2>2. QED
    BY <1>4, <2>1, StageAlone DEF InitializeFails
<1>5. ASSUME NEW r \in Requests, NEW token \in {disk, settings.token, Blank},
             Request(r, token)
      PROVE  PluginInv'
  <2>1. ServerInv'
    BY <1>5, ArrivesStep DEF Request, PluginInv
  <2>2. QED
    BY <1>5, <2>1, WebhookKeepsPluginInv DEF Request, Arrives, serverVars
<1>6. CASE (Bound \/ PortTaken \/ ShutdownStep) /\ UNCHANGED lifeVars
  <2>1. ServerInv'
    BY <1>6, ShutdownKeepsServerInv DEF PluginInv
  <2>2. targets' = targets
    BY <1>6 DEF Bound, PortTaken, ShutdownStep, Drained, CloseAtOnce, DrainTimesOut,
       CleanupRaises, CloseDelivery, CloseCancelling, TasksEnded, RendererIdle
  <2>3. QED
    BY <1>6, <2>1, <2>2, WebhookIsOn, WebhookKeepsPluginInv
<1>7. ASSUME NEW r \in Requests, HandlerStep(r) \/ TaskStep(r), UNCHANGED lifeVars
      PROVE  PluginInv'
  <2>1. ServerInv'
    BY <1>7, HandlersKeepServerInv, TasksKeepServerInv DEF PluginInv
  <2>2. UNCHANGED serverVars
    <3>1. CASE HandlerStep(r)
      BY <3>1 DEF HandlerStep, BodyRefused, Delivers, Spawn, DeliveryClosed,
         TextSent, NextText, HandlerDropped
    <3>2. CASE TaskStep(r)
      BY <3>2 DEF TaskStep, NoHistory, NodeFound, HistoryRead, Goes, RenderEnds,
         NoImage, ImageDrawn, ImageSent, NextImage, AnalysisEnds, TaskCancelled
    <3>3. QED
      BY <1>7, <3>1, <3>2
  <2>3. QED
    BY <1>7, <2>1, <2>2, WebhookKeepsPluginInv DEF serverVars
<1>8. CASE Terminate
  BY <1>8, TerminateStep
<1>9. CASE RendererClosed
  <2>1. runner = "none" /\ delivery \in {"none", "closed"}
    BY <1>9 DEF RendererClosed, WebhookStopped, PluginInv, StageInv, ServerInv, CloseInv
  <2>2. LifeTypeOK' /\ StageInv'
    BY <1>9, <2>1 DEF RendererClosed, PluginInv, StageInv, webhookVars, serverVars, Parts
  <2>3. QED
    BY <1>9, <2>2, StageAlone DEF RendererClosed
<1>10. CASE ClientClosed
  <2>1. LifeTypeOK' /\ StageInv'
    BY <1>10 DEF ClientClosed, PluginInv, StageInv, webhookVars, serverVars
  <2>2. QED
    BY <1>10, <2>1, StageAlone DEF ClientClosed
<1>11. CASE Dies
  <2>1. LifeTypeOK' /\ StageInv'
    BY <1>11 DEF Dies, PluginInv, StageInv
  <2>2. ServerInv'
    BY <1>11, DiesKeepsServerInv DEF PluginInv
  <2>3. QED
    BY <1>11, <2>1, <2>2, StageStep DEF Dies
<1>12. CASE NoMoreStarts \/ UNCHANGED pluginVars
  <2>1. UNCHANGED <<webhookVars, lifeVars>>
    BY <1>12 DEF NoMoreStarts, pluginVars
  <2>2. LifeTypeOK' /\ StageInv'
    BY <2>1 DEF PluginInv, StageInv, webhookVars, serverVars, lifeVars
  <2>3. QED
    BY <2>1, <2>2, StageAlone DEF lifeVars
<1>13. QED
  BY <1>1, <1>2, <1>3, <1>4, <1>5, <1>6, <1>7, <1>8, <1>9, <1>10, <1>11, <1>12
  DEF PluginNext
-----------------------------------------------------------------------------
(***************************************************************************)
(* The inductive invariant of the plugin and its webhook: what stage each  *)
(* is in, how far each handler has come, which settings and which token it *)
(* runs with.                                                              *)
(***************************************************************************)
THEOREM PluginInvariant == PluginSpec => []PluginInv
<1>1. PluginInit => PluginInv
  BY InitKeepsPluginInv
<1>2. PluginInv /\ [PluginNext]_pluginVars => PluginInv'
  BY PluginStep
<1>3. QED
  BY <1>1, <1>2, PTL DEF PluginSpec

(* Every variable of the plugin and its webhook keeps its type. *)
THEOREM PluginTypeCorrect == PluginSpec => [](ServerTypeOK /\ LifeTypeOK)
<1>1. PluginInv => ServerTypeOK /\ LifeTypeOK
  BY DEF PluginInv, ServerInv
<1>2. QED
  BY <1>1, PluginInvariant, PTL

(* terminate() leaves no listener, no webhook task and no webhook render.   *)
THEOREM TerminateLeavesNothing == PluginSpec => []DownMeansDown
<1>1. PluginInv => DownMeansDown
  BY DEF PluginInv, ServerInv, CloseInv, StageInv, DownMeansDown
<1>2. QED
  BY <1>1, PluginInvariant, PTL

(* No task is cancelled before the handlers have been drained. *)
THEOREM HandlersDrainFirst == PluginSpec => []DrainsFirst
<1>1. PluginInv => DrainsFirst
  BY DEF PluginInv, ServerInv, ServerTypeOK, CloseInv, DrainInv, DrainsFirst
<1>2. QED
  BY <1>1, PluginInvariant, PTL

(* The HTTP status of a notification tells what became of its raw text. *)
THEOREM StatusIsHonest == PluginSpec => []StatusTellsTheText
<1>1. PluginInv => StatusTellsTheText
  BY DEF PluginInv, ServerInv
<1>2. QED
  BY <1>1, PluginInvariant, PTL

(* Only a notification that asks for it starts an optional task. *)
THEOREM TasksAreRequested == PluginSpec => []TasksAreAsked
<1>1. PluginInv => TasksAreAsked
  BY DEF PluginInv, ServerInv
<1>2. QED
  BY <1>1, PluginInvariant, PTL

(* A generated token that was saved is the one every later start uses. *)
THEOREM TokenIsKept == PluginSpec => []SavedTokenWorks
<1>1. PluginInv => SavedTokenWorks
  BY DEF PluginInv
<1>2. QED
  BY <1>1, PluginInvariant, PTL

LEMMA NumbersWork ==
  ASSUME NEW number,
         \A f \in NumberFields : number[f] \in Limits[f].min .. Limits[f].max
  PROVE  /\ 0 < number.port /\ number.port < 65536
         /\ 0 < number.timeout_seconds
         /\ number.timeout_seconds <= TokenRenewalMargin
         /\ number.page_size > 0
         /\ number.analysis_context_max_records > 0
         /\ number.analysis_timeout_seconds > 0
         /\ \A f \in {"cache_ttl_seconds", "analysis_context_hours",
                     "analysis_context_recent_hours"} : number[f] >= 0
<1>1. 0 < number.port /\ number.port < 65536
  <2>1. "port" \in NumberFields /\ Limits.port.min = 1 /\ Limits.port.max = 65535
    BY DEF NumberFields, Limits, Between
  <2>2. QED
    BY <2>1
<1>2. number.timeout_seconds \in 2 .. 60
  <2>1. /\ "timeout_seconds" \in NumberFields
        /\ Limits.timeout_seconds.min = 2
        /\ Limits.timeout_seconds.max = 60
    BY DEF NumberFields, Limits, Between
  <2>2. QED
    BY <2>1
<1>3. number.analysis_context_max_records \in 1 .. 20
  <2>1. /\ "analysis_context_max_records" \in NumberFields
        /\ Limits.analysis_context_max_records.min = 1
        /\ Limits.analysis_context_max_records.max = 20
    BY DEF NumberFields, Limits, Between
  <2>2. QED
    BY <2>1
<1>4. number.analysis_timeout_seconds \in 1 .. 300
  <2>1. /\ "analysis_timeout_seconds" \in NumberFields
        /\ Limits.analysis_timeout_seconds.min = 1
        /\ Limits.analysis_timeout_seconds.max = 300
    BY DEF NumberFields, Limits, Between
  <2>2. QED
    BY <2>1
<1>5. number.cache_ttl_seconds \in 0 .. 300
  <2>1. /\ "cache_ttl_seconds" \in NumberFields
        /\ Limits.cache_ttl_seconds.min = 0
        /\ Limits.cache_ttl_seconds.max = 300
    BY DEF NumberFields, Limits, Between
  <2>2. QED
    BY <2>1
<1>6. number.analysis_context_hours \in 0 .. 168
  <2>1. /\ "analysis_context_hours" \in NumberFields
        /\ Limits.analysis_context_hours.min = 0
        /\ Limits.analysis_context_hours.max = 168
    BY DEF NumberFields, Limits, Between
  <2>2. QED
    BY <2>1
<1>7. number.analysis_context_recent_hours \in 0 .. 168
  <2>1. /\ "analysis_context_recent_hours" \in NumberFields
        /\ Limits.analysis_context_recent_hours.min = 0
        /\ Limits.analysis_context_recent_hours.max = 168
    BY DEF NumberFields, Limits, Between
  <2>2. QED
    BY <2>1
<1>8. number.page_size \in 10 .. 40
  <2>1. /\ "page_size" \in NumberFields
        /\ Limits.page_size.min = 10
        /\ Limits.page_size.max = 40
    BY DEF NumberFields, Limits, Between
  <2>2. QED
    BY <2>1
<1>9. 0 < number.timeout_seconds /\ number.timeout_seconds <= TokenRenewalMargin
  BY ONLY <1>2 DEF TokenRenewalMargin
<1>10. number.page_size > 0
  BY ONLY <1>8
<1>11. number.analysis_context_max_records > 0 /\ number.analysis_timeout_seconds > 0
  BY ONLY <1>3, <1>4
<1>12. /\ number.cache_ttl_seconds >= 0
       /\ number.analysis_context_hours >= 0
       /\ number.analysis_context_recent_hours >= 0
  BY ONLY <1>5, <1>6, <1>7
<1>13. \A f \in {"cache_ttl_seconds", "analysis_context_hours",
                "analysis_context_recent_hours"} : number[f] >= 0
  BY ONLY <1>12
<1>14. QED
  BY ONLY <1>1, <1>9, <1>10, <1>11, <1>13

(* A webhook that listens and a plugin that runs have settings they can     *)
(* work with, whatever the operator has written.                           *)
THEOREM SettingsAlwaysWork == PluginSpec => []SettingsWork
<1>1. ASSUME PluginInv, runner = "listening"
      PROVE  settings.token.kind = "ascii" /\ targets > 0 /\ settings.path # "/healthz"
  <2>1. plugin \in {"up", "stopping"} /\ settings.enabled
    BY <1>1 DEF PluginInv, LifeTypeOK, StageInv
  <2>2. QED
    BY <1>1, <2>1 DEF PluginInv, SettingsInv, Usable
<1>2. ASSUME PluginInv
      PROVE  \A f \in NumberFields : settings.number[f] \in Limits[f].min .. Limits[f].max
  BY <1>2 DEF PluginInv, SettingsInv
<1>3. PluginInv => SettingsWork
  BY <1>1, <1>2, NumbersWork DEF SettingsWork
<1>4. QED
  BY <1>3, PluginInvariant, PTL

(* Once close() has begun no task goes on to another target's image. *)
THEOREM ClosedShowsNothing == PluginSpec => NoImageAfterClose
<1>1. [PluginNext]_pluginVars => [delivery # "open" => shown' = shown]_pluginVars
  <2> SUFFICES ASSUME PluginNext, delivery # "open"
               PROVE  shown' = shown
    OBVIOUS
  <2> USE DEF webhookVars, serverVars, handlerVars, taskVars
  <2>1. CASE \E saved \in BOOLEAN : Construct(saved)
    BY <2>1 DEF Construct, ConstructWith
  <2>2. CASE ConstructRefused \/ Initialize \/ InitializeFails
    BY <2>2 DEF ConstructRefused, Initialize, InitializeFails
  <2>3. CASE \E r \in Requests, token \in {disk, settings.token, Blank} : Request(r, token)
    BY <2>3 DEF Request, Arrives
  <2>4. CASE (Bound \/ PortTaken \/ ShutdownStep) /\ UNCHANGED lifeVars
    BY <2>4 DEF Bound, PortTaken, ShutdownStep, Drained, CloseAtOnce, DrainTimesOut,
       CleanupRaises, CloseDelivery, CloseCancelling, TasksEnded, RendererIdle
  <2>5. ASSUME NEW r \in Requests, HandlerStep(r)
        PROVE  shown' = shown
    BY <2>5 DEF HandlerStep, BodyRefused, Delivers, Spawn, DeliveryClosed, TextSent,
       NextText, HandlerDropped
  <2>6. ASSUME NEW r \in Requests, TaskStep(r)
        PROVE  shown' = shown
    BY <2>6 DEF TaskStep, NoHistory, NodeFound, HistoryRead, Goes, RenderEnds,
       NoImage, ImageDrawn, ImageSent, NextImage, AnalysisEnds, TaskCancelled, Closed
  <2>7. CASE Terminate
    BY <2>7 DEF Terminate, Stop, Drain, CloseAtOnce, CloseDelivery, CloseCancelling
  <2>8. CASE RendererClosed \/ ClientClosed \/ Dies \/ NoMoreStarts
    BY <2>8 DEF RendererClosed, ClientClosed, Dies, NoMoreStarts, pluginVars
  <2>9. QED
    BY <2>1, <2>2, <2>3, <2>4, <2>5, <2>6, <2>7, <2>8 DEF PluginNext
<1>2. QED
  BY <1>1, PTL DEF PluginSpec, NoImageAfterClose
-----------------------------------------------------------------------------
(***************************************************************************)
(* The plugin as a service that comes down in order.  What the steps of a  *)
(* handler and a task have in common comes first.                          *)
(***************************************************************************)
ServiceStutters == UNCHANGED Service!serviceVars

LEMMA SameService ==
  ASSUME UNCHANGED <<runner, delivery, plugin, Seen, Handling \ abandoned,
                     Handling \cap abandoned, Running, drawing>>
  PROVE  ServiceStutters
BY DEF ServiceStutters, Service!serviceVars, ServiceStage, RendererThere

(* A handler that answers, or is dropped, finishes. *)
LEMMA HandlerFinishes ==
  ASSUME ServerInv, NEW r \in Handling, NEW s \in {"answered", "dropped"},
         handler' = [handler EXCEPT ![r] = s],
         UNCHANGED <<runner, delivery, plugin, abandoned, taskVars>>
  PROVE  Service!Next
<1> USE DEF ServerInv, ServerTypeOK, HandlerStates
<1>1. r \in Requests /\ handler[r] # "idle"
  BY DEF Handling
<1>2. Handling' = Handling \ {r} /\ Seen' = Seen
  BY <1>1 DEF Handling, Seen
<1>3. Running' = Running /\ drawing' = drawing
  BY DEF Running, taskVars
<1>4. Service!Finish(r)
  BY <1>2, <1>3 DEF Service!Finish, ServiceStage, RendererThere
<1> QED
  BY <1>1, <1>4 DEF Service!Next

(* The optional tasks of a request are its handler's work.                  *)
LEMMA DeliveryIsWork ==
  ASSUME ServerInv, NEW r \in Requests, Delivers(r), UNCHANGED plugin
  PROVE  Service!Next
<1> USE DEF ServerInv, ServerTypeOK
<1>1. /\ handler[r] = "reading" /\ handler' = [handler EXCEPT ![r] = "sending"]
      /\ UNCHANGED <<serverVars, abandoned, drawing>>
      /\ r \notin abandoned /\ delivery = "open"
  BY DEF Delivers, Spawn, Closed
<1>2. r \in Handling \ abandoned /\ runner \in {"listening", "draining"}
  BY <1>1 DEF DrainInv, Handling
<1>3. Handling' = Handling /\ Seen' = Seen
  BY <1>1 DEF Handling, Seen, HandlerStates
<1> DEFINE asked == Requested(Notification(body[r]))
           new == {t \in Tasks : t[1] = r /\ t[2] \in asked}
<1>4. task' = [t \in Tasks |->
                 IF t[1] = r /\ t[2] \in asked
                   THEN IF t[2] = "history" THEN "resolving" ELSE "analysing"
                   ELSE task[t]]
  BY DEF Delivers, Spawn
<1> HIDE DEF asked
<1>5. Running' = Running \cup new
  BY <1>4 DEF Running
<1>6. new \in SUBSET ({r} \X Branches)
  BY DEF Tasks
<1>7. ServiceStage' = ServiceStage /\ ServiceStage \in {"open", "draining"}
  BY <1>1, <1>2 DEF ServiceStage, serverVars
<1> HIDE DEF new
<1>8. Service!Work(r, new)
  BY <1>1, <1>2, <1>3, <1>5, <1>6, <1>7 DEF Service!Work, RendererThere
<1> QED
  BY <1>6, <1>8 DEF Service!Next

LEMMA HandlersServe ==
  ASSUME ServerInv, NEW r \in Requests, HandlerStep(r), UNCHANGED plugin
  PROVE  Service!Next \/ ServiceStutters
<1> USE DEF serverVars
<1>1. CASE BodyRefused(r) \/ DeliveryClosed(r)
  BY <1>1, HandlerFinishes DEF BodyRefused, DeliveryClosed, Answer, Handling
<1>2. CASE Delivers(r)
  BY <1>2, DeliveryIsWork
<1>3. CASE \E taken \in BOOLEAN : TextSent(r, taken)
  <2>1. /\ handler[r] = "sending"
        /\ handler' = handler \/ handler' = [handler EXCEPT ![r] = "answered"]
        /\ UNCHANGED <<serverVars, abandoned, taskVars>>
    BY <1>3 DEF TextSent, NextText, Answer
  <2>2. CASE handler' = handler
    BY <2>1, <2>2, SameService DEF Seen, Handling, Running, taskVars
  <2>3. CASE handler' = [handler EXCEPT ![r] = "answered"]
    BY <2>1, <2>3, HandlerFinishes DEF Handling
  <2> QED
    BY <2>1, <2>2, <2>3
<1>4. CASE HandlerDropped(r)
  <2>1. r \in Handling
    BY <1>4 DEF HandlerDropped, ServerInv, DrainInv
  <2> QED
    BY <1>4, <2>1, HandlerFinishes DEF HandlerDropped
<1> QED
  BY <1>1, <1>2, <1>3, <1>4 DEF HandlerStep

(* A task that ends is a job that ends; one that goes on is none of the     *)
(* service's business.                                                     *)
LEMMA TaskIsJob ==
  ASSUME ServerInv, NEW t \in Running, NEW where \in TaskStates \ {"none"},
         task' = [task EXCEPT ![t] = where],
         UNCHANGED <<runner, delivery, plugin, handler, abandoned, drawing>>
  PROVE  Service!Next \/ ServiceStutters
<1> USE DEF ServerInv, ServerTypeOK
<1>1. t \in Tasks /\ Seen' = Seen /\ Handling' = Handling
  BY DEF Running, Seen, Handling
<1>2. CASE where = "ended"
  <2>1. Running' = Running \ {t}
    BY <1>1, <1>2 DEF Running
  <2>2. PICK c \in Requests, k \in Branches : t = <<c, k>>
    BY <1>1 DEF Tasks
  <2>3. Service!EndJob(<<c, k>>)
    BY <1>1, <2>1, <2>2 DEF Service!EndJob, ServiceStage, RendererThere
  <2> QED
    BY <2>3 DEF Service!Next
<1>3. CASE where # "ended"
  <2>1. Running' = Running
    BY <1>1, <1>3 DEF Running
  <2> QED
    BY <1>1, <2>1, SameService
<1> QED
  BY <1>2, <1>3

LEMMA TasksServe ==
  ASSUME ServerInv, NEW r \in Requests, TaskStep(r), UNCHANGED plugin
  PROVE  Service!Next \/ ServiceStutters
<1> USE DEF ServerInv, ServerTypeOK, TaskStates, serverVars, handlerVars
<1> DEFINE t == <<r, "history">>
<1>1. t \in Tasks /\ <<r, "analysis">> \in Tasks
  BY DEF Tasks, Branches
<1>2. CASE NoHistory(r)
  BY <1>1, <1>2, TaskIsJob DEF NoHistory, Goes, Running
<1>3. CASE NodeFound(r)
  BY <1>1, <1>3, TaskIsJob DEF NodeFound, Goes, Running
<1>4. CASE HistoryRead(r)
  <2>1. /\ task[t] = "querying" /\ task' = [task EXCEPT ![t] = "drawing"]
        /\ t \notin cancelled /\ drawing' = drawing \cup {r}
        /\ UNCHANGED <<serverVars, handlerVars>>
    BY <1>4 DEF HistoryRead, Goes
  <2>2. t \in Running /\ Running' = Running
    BY <1>1, <2>1 DEF Running
  <2>3. delivery \notin {"cancelling", "idling"}
    BY <2>1, <2>2 DEF CloseInv
  <2>4. ServiceStage # "closing" /\ ServiceStage' = ServiceStage
    BY <2>1, <2>3 DEF ServiceStage
  <2>5. Service!Borrow(r)
    BY <2>1, <2>2, <2>4
    DEF Service!Borrow, RendererThere, Seen, Handling, Branches
  <2> QED
    BY <2>5 DEF Service!Next
<1>5. CASE RenderEnds(r)
  <2>1. Service!GiveBack(r)
    BY <1>5 DEF RenderEnds, Service!GiveBack, ServiceStage, RendererThere, Seen,
                Handling, Running
  <2> QED
    BY <2>1 DEF Service!Next
<1>6. CASE NoImage(r)
  BY <1>1, <1>6, TaskIsJob DEF NoImage, Goes, Running
<1>7. CASE ImageDrawn(r)
  BY <1>1, <1>7, TaskIsJob DEF ImageDrawn, Running
<1>8. CASE ImageSent(r)
  <2>1. /\ task[t] = "sending"
        /\ task' = task \/ task' = [task EXCEPT ![t] = "ended"]
        /\ UNCHANGED <<serverVars, handlerVars, drawing>>
    BY <1>8 DEF ImageSent, NextImage
  <2>2. CASE task' = task
    BY <2>1, <2>2, SameService DEF Seen, Handling, Running
  <2>3. CASE task' = [task EXCEPT ![t] = "ended"]
    BY <1>1, <2>1, <2>3, TaskIsJob DEF Running
  <2> QED
    BY <2>1, <2>2, <2>3
<1>9. CASE AnalysisEnds(r)
  BY <1>1, <1>9, TaskIsJob DEF AnalysisEnds, Running
<1>10. CASE \E b \in Branches : TaskCancelled(<<r, b>>)
  <2>1. PICK u \in Tasks : TaskCancelled(u)
    BY <1>10 DEF Tasks
  <2>2. u \in Running
    BY <2>1 DEF TaskCancelled, CloseInv
  <2> QED
    BY <2>1, <2>2, TaskIsJob DEF TaskCancelled
<1> QED
  BY <1>2, <1>3, <1>4, <1>5, <1>6, <1>7, <1>8, <1>9, <1>10 DEF TaskStep
-----------------------------------------------------------------------------
(* close() gives up on whoever is still being served. *)
LEMMA ClosingIsClose ==
  ASSUME ServerInv, ServiceStage \in {"down", "draining"}, CloseDelivery,
         plugin \in {"up", "stopping"}, plugin' \in {"up", "stopping"},
         handler' = handler, abandoned' \in {abandoned, abandoned \cup Handling},
         Handling \subseteq abandoned'
  PROVE  Service!Next
<1>1. /\ runner' = "none" /\ delivery' = "cancelling"
      /\ UNCHANGED <<task, drawing>>
  BY DEF CloseDelivery, CloseCancelling
<1>2. ServiceStage' = "closing" /\ RendererThere /\ RendererThere'
  BY <1>1 DEF ServiceStage, RendererThere
<1>3. Handling' = Handling /\ Seen' = Seen /\ Running' = Running
  BY <1>1 DEF Handling, Seen, Running
<1>4. /\ (Handling \ abandoned)' = {}
      /\ (Handling \cap abandoned)' = (Handling \cap abandoned) \cup (Handling \ abandoned)
  BY <1>3
<1>5. Service!Close
  BY <1>1, <1>2, <1>3, <1>4 DEF Service!Close
<1> QED
  BY <1>5 DEF Service!Next

LEMMA ServerServes ==
  ASSUME PluginInv, Bound \/ PortTaken \/ ShutdownStep, UNCHANGED lifeVars
  PROVE  Service!Next \/ ServiceStutters
<1> USE DEF PluginInv, ServerInv, ServerTypeOK
<1>1. plugin \in {"up", "stopping"} /\ plugin' = plugin
  BY WebhookIsOn DEF lifeVars
<1>2. ASSUME UNCHANGED <<handlerVars, taskVars>>
      PROVE  UNCHANGED <<Seen, Handling \ abandoned, Handling \cap abandoned,
                         Running, drawing, handler, abandoned>>
  BY <1>2 DEF handlerVars, taskVars, Seen, Handling, Running
<1>3. CASE Bound
  <2>1. ServiceStage = "down" /\ ServiceStage' = "open" /\ RendererThere /\ RendererThere'
    BY <1>1, <1>3 DEF Bound, CloseInv, ServiceStage, RendererThere
  <2>2. Service!Open
    BY <1>2, <1>3, <2>1 DEF Bound, Service!Open
  <2> QED
    BY <2>2 DEF Service!Next
<1>4. CASE PortTaken
  <2>1. ServiceStage' = ServiceStage /\ RendererThere' = RendererThere
    BY <1>1, <1>4 DEF PortTaken, ServiceStage, RendererThere
  <2> QED
    BY <1>2, <1>4, <2>1 DEF PortTaken, ServiceStutters, Service!serviceVars
<1>5. CASE Drained \/ DrainTimesOut \/ CleanupRaises
  <2>1. ServiceStage = "draining"
    BY <1>5 DEF Drained, DrainTimesOut, CleanupRaises, ServiceStage
  <2>2. /\ CloseDelivery /\ handler' = handler
        /\ abandoned' \in {abandoned, abandoned \cup Handling}
        /\ Handling \subseteq abandoned'
    BY <1>5 DEF Drained, DrainTimesOut, CleanupRaises, CloseAtOnce, handlerVars
  <2> QED
    BY <1>1, <2>1, <2>2, ClosingIsClose
<1>6. CASE TasksEnded
  <2>1. ServiceStage' = ServiceStage /\ RendererThere' = RendererThere
    BY <1>1, <1>6 DEF TasksEnded, CloseInv, ServiceStage, RendererThere
  <2> QED
    BY <1>2, <1>6, <2>1 DEF TasksEnded, ServiceStutters, Service!serviceVars
<1>7. CASE RendererIdle
  <2>1. runner = "none" /\ Running = {} /\ drawing = {}
    BY <1>7 DEF RendererIdle, CloseInv
  <2>2. ServiceStage = "closing" /\ ServiceStage' = "down" /\ RendererThere' = RendererThere
    BY <1>1, <1>7, <2>1 DEF RendererIdle, ServiceStage, RendererThere
  <2>3. Service!GoDown
    BY <1>2, <1>7, <2>1, <2>2 DEF RendererIdle, Service!GoDown
  <2> QED
    BY <2>3 DEF Service!Next
<1> QED
  BY <1>3, <1>4, <1>5, <1>6, <1>7 DEF ShutdownStep

(* A plugin that is not up, or has stopped its webhook, is down and idle.   *)
LEMMA DownIsIdle ==
  ASSUME PluginInv, runner = "none", delivery \in {"none", "closed"}
  PROVE  /\ ServiceStage = "down"
         /\ Handling \ abandoned = {} /\ Running = {} /\ drawing = {}
BY DEF PluginInv, ServerInv, CloseInv, DrainInv, ServiceStage

LEMMA TerminateServes ==
  ASSUME PluginInv, Terminate
  PROVE  Service!Next \/ ServiceStutters
<1> USE DEF PluginInv, ServerInv, ServerTypeOK
<1>1. plugin = "up" /\ plugin' = "stopping" /\ RendererThere /\ RendererThere'
  BY DEF Terminate, RendererThere
<1>2. CASE settings.enabled /\ runner = "listening" /\ Drain
  <2>1. ServiceStage = "open" /\ ServiceStage' = "draining"
    BY <1>2 DEF Drain, ServiceStage
  <2>2. Service!StopAdmitting
    BY <1>1, <1>2, <2>1 DEF Drain, Service!StopAdmitting, handlerVars, taskVars, Seen,
                            Handling, Running
  <2> QED
    BY <2>2 DEF Service!Next
<1>3. CASE settings.enabled /\ runner = "none" /\ CloseAtOnce
  <2>1. ServiceStage = "down"
    BY <1>1, <1>3 DEF StageInv, ServiceStage
  <2>2. Handling \subseteq abandoned
    BY <1>3 DEF DrainInv
  <2> QED
    BY <1>1, <1>3, <2>1, <2>2, ClosingIsClose DEF CloseAtOnce, handlerVars
<1>4. CASE UNCHANGED webhookVars
  <2>1. ServiceStage' = ServiceStage
    BY <1>4 DEF webhookVars, serverVars, ServiceStage
  <2> QED
    BY <1>1, <1>4, <2>1 DEF webhookVars, handlerVars, taskVars, ServiceStutters,
       Service!serviceVars, Seen, Handling, Running
<1> QED
  BY <1>2, <1>3, <1>4 DEF Terminate, Stop

(* The steps of the plugin around its webhook. *)
LEMMA PluginServes ==
  ASSUME PluginInv, PluginInv',
         \/ \E saved \in BOOLEAN : Construct(saved)
         \/ Initialize \/ InitializeFails \/ RendererClosed \/ Dies
  PROVE  Service!Next \/ ServiceStutters
<1> USE DEF webhookVars, handlerVars, taskVars, serverVars
<1>1. ASSUME UNCHANGED <<handlerVars, taskVars>>
      PROVE  UNCHANGED <<Seen, Handling \ abandoned, Handling \cap abandoned,
                         Running, drawing>>
  BY <1>1 DEF Seen, Handling, Running
<1>2. ASSUME UNCHANGED webhookVars, runner = "none", delivery \in {"none", "closed"},
             RendererThere, ~RendererThere'
      PROVE  Service!Next
  <2>1. ServiceStage' = ServiceStage
    BY <1>2 DEF ServiceStage
  <2>2. Service!TakeAway
    BY <1>1, <1>2, <2>1, DownIsIdle DEF Service!TakeAway
  <2> QED
    BY <2>2 DEF Service!Next
<1>3. ASSUME NEW saved \in BOOLEAN, Construct(saved)
      PROVE  Service!Next
  <2>1. /\ ~RendererThere /\ RendererThere' /\ ServiceStage' = ServiceStage
        /\ UNCHANGED <<handlerVars, taskVars>>
    BY <1>3 DEF Construct, ConstructWith, RendererThere, ServiceStage
  <2>2. Service!GetReady
    BY <1>1, <2>1 DEF Service!GetReady
  <2> QED
    BY <2>2 DEF Service!Next
<1>4. CASE Initialize
  <2>1. runner = "none" /\ delivery \in {"none", "closed"}
    BY <1>4 DEF Initialize, PluginInv, StageInv
  <2>2. /\ runner' \in {"none", "binding"} /\ delivery' \in {"none", "open"}
        /\ UNCHANGED <<handlerVars, taskVars>>
    BY <1>4 DEF Initialize, Start
  <2>3. ServiceStage = "down" /\ ServiceStage' = "down"
    BY <2>1, <2>2 DEF ServiceStage
  <2>4. RendererThere' = RendererThere
    BY <1>4 DEF Initialize, RendererThere
  <2> QED
    BY <1>1, <2>2, <2>3, <2>4 DEF ServiceStutters, Service!serviceVars
<1>5. CASE InitializeFails
  <2>1. runner = "none" /\ delivery \in {"none", "closed"}
    BY <1>5 DEF InitializeFails, PluginInv, StageInv
  <2>2. RendererThere /\ ~RendererThere'
    BY <1>5 DEF InitializeFails, RendererThere
  <2> QED
    BY <1>2, <1>5, <2>1, <2>2 DEF InitializeFails
<1>6. CASE RendererClosed
  <2>1. runner = "none" /\ delivery \in {"none", "closed"}
    BY <1>6 DEF RendererClosed, WebhookStopped, PluginInv, StageInv, ServerInv, CloseInv
  <2>2. RendererThere /\ ~RendererThere'
    BY <1>6 DEF RendererClosed, RendererThere
  <2> QED
    BY <1>2, <1>6, <2>1, <2>2 DEF RendererClosed
<1>7. CASE Dies
  <2>1. ServiceStage' = "down" /\ ~RendererThere'
    BY <1>7 DEF Dies, ServiceStage, RendererThere
  <2>2. Running' = {} /\ Handling' = {} /\ drawing' = {}
    BY <1>7 DEF Dies, Running, Handling
  <2>3. Seen' = Seen
    BY <1>7 DEF Dies, Seen, Handling
  <2>4. Service!Crash
    BY <2>1, <2>2, <2>3 DEF Service!Crash
  <2> QED
    BY <2>4 DEF Service!Next
<1> QED
  BY <1>3, <1>4, <1>5, <1>6, <1>7

(* A request is a client that arrives at an open service. *)
LEMMA RequestArrives ==
  ASSUME PluginInv, NEW r \in Requests, NEW token, Request(r, token)
  PROVE  Service!Next
<1> USE DEF PluginInv, ServerInv, ServerTypeOK, HandlerStates
<1>1. PICK s \in {"reading", "answered"} : handler' = [handler EXCEPT ![r] = s]
  BY DEF Request, Arrives, Answer
<1>2. /\ runner = "listening" /\ handler[r] = "idle"
      /\ UNCHANGED <<runner, delivery, abandoned, task, drawing, plugin>>
  BY DEF Request, Arrives, serverVars, taskVars, lifeVars
<1>3. /\ r \notin Seen /\ Seen' = Seen \cup {r}
      /\ Handling' = IF s = "reading" THEN Handling \cup {r} ELSE Handling
  BY <1>1, <1>2 DEF Seen, Handling
<1>4. r \notin abandoned
  BY <1>2 DEF DrainInv
<1>5. /\ (Handling \ abandoned)' \in
            {Handling \ abandoned, (Handling \ abandoned) \cup {r}}
      /\ (Handling \cap abandoned)' = Handling \cap abandoned
  BY <1>2, <1>3, <1>4
<1>6. /\ ServiceStage = "open" /\ ServiceStage' = ServiceStage
      /\ RendererThere' = RendererThere /\ Running' = Running /\ drawing' = drawing
  BY <1>2 DEF ServiceStage, RendererThere, Running
<1>7. Service!Arrive(r)
  BY <1>3, <1>5, <1>6 DEF Service!Arrive
<1> QED
  BY <1>7 DEF Service!Next

(***************************************************************************)
(* The plugin with its webhook implements GracefulService: terminate()     *)
(* (BeszelPlugin, WebhookServer.stop, WebhookDelivery.close) takes it down *)
(* in order, whichever step fails, and nothing begins on the way.          *)
(***************************************************************************)
THEOREM ComesDownInOrder == PluginSpec => StopsInOrder
<1>1. PluginInit => Service!Init
  <2> SUFFICES ASSUME PluginInit
               PROVE  Service!Init
    OBVIOUS
  <2>1. /\ runner = "none" /\ delivery = "none" /\ plugin = "down" /\ drawing = {}
        /\ \A r \in Requests : handler[r] = "idle"
        /\ \A t \in Tasks : task[t] = "none"
    BY DEF PluginInit, WebhookInit
  <2>2. ServiceStage = "down" /\ RendererThere = FALSE
    BY <2>1 DEF ServiceStage, RendererThere
  <2>3. Handling = {} /\ Running = {} /\ Seen = {}
    BY <2>1 DEF Handling, Running, Seen
  <2> QED
    BY <2>1, <2>2, <2>3 DEF Service!Init
<1>2. PluginInv /\ PluginInv' /\ [PluginNext]_pluginVars
        => [Service!Next]_(Service!serviceVars)
  <2> SUFFICES ASSUME PluginInv, PluginInv', [PluginNext]_pluginVars
               PROVE  Service!Next \/ ServiceStutters
    BY DEF ServiceStutters
  <2>1. CASE \/ \E saved \in BOOLEAN : Construct(saved)
             \/ Initialize \/ InitializeFails \/ RendererClosed \/ Dies
    BY <2>1, PluginServes
  <2>2. CASE ConstructRefused \/ ClientClosed
    <3>1. RendererThere' = RendererThere /\ UNCHANGED webhookVars
      BY <2>2 DEF ConstructRefused, ClientClosed, RendererThere
    <3> QED
      BY <3>1 DEF webhookVars, serverVars, handlerVars, taskVars, ServiceStutters,
         Service!serviceVars, ServiceStage, Seen, Handling, Running
  <2>3. ASSUME NEW r \in Requests, NEW token \in {disk, settings.token, Blank},
               Request(r, token)
        PROVE  Service!Next
    BY <2>3, RequestArrives
  <2>4. CASE (Bound \/ PortTaken \/ ShutdownStep) /\ UNCHANGED lifeVars
    BY <2>4, ServerServes
  <2>5. ASSUME NEW r \in Requests, HandlerStep(r) \/ TaskStep(r), UNCHANGED lifeVars
        PROVE  Service!Next \/ ServiceStutters
    BY <2>5, HandlersServe, TasksServe DEF PluginInv, lifeVars
  <2>6. CASE Terminate
    BY <2>6, TerminateServes
  <2>7. CASE NoMoreStarts \/ UNCHANGED pluginVars
    BY <2>7, SameService DEF NoMoreStarts, pluginVars, webhookVars, serverVars, handlerVars,
       taskVars, lifeVars, Seen, Handling, Running
  <2> QED
    BY <2>1, <2>2, <2>3, <2>4, <2>5, <2>6, <2>7 DEF PluginNext
<1> QED
  BY <1>1, <1>2, PluginInvariant, PTL DEF PluginSpec, StopsInOrder, Service!Spec
=============================================================================
