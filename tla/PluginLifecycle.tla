--------------------------- MODULE PluginLifecycle ---------------------------
(***************************************************************************)
(* BeszelPlugin (core/plugin) from one start to the next: the settings are *)
(* normalised, a generated webhook token is written back to them, the      *)
(* webhook is started; terminate() takes everything down again, whatever   *)
(* fails on the way, or the process dies.                                  *)
(***************************************************************************)
EXTENDS WebhookServer, PluginConfig

CONSTANTS
  Files,      \* settings an operator may have written
  MaxStarts   \* bound: starts of the plugin

ASSUME LifecycleAssumption ==
  /\ MaxStarts \in Nat
  /\ \A f \in Files :
       /\ {"token", "targets"} \subseteq DOMAIN f
       /\ f.token \in [kind : {"blank", "ascii", "non_ascii"}, id : Nat]
       /\ f.targets \in 0 .. MaxTargets

Token(kind, id) == [kind |-> kind, id |-> id]
Blank == Token("blank", 0)
Minted(k) == Token("ascii", k)     \* the k-th token_urlsafe(32)

VARIABLES
  file,      \* the settings on disk, as the operator wrote them
  disk,      \* the token there now
  plugin,    \* "down", "failed", "loaded", "up", "stopping", "releasing"
  settings,  \* self.config
  starts,    \* starts so far
  promised,  \* the generated token the log says is saved; Blank if none
  released   \* the parts whose shutdown has run since the last start

lifeVars == <<file, disk, plugin, settings, starts, promised, released>>
pluginVars == <<webhookVars, lifeVars>>

Parts == {"webhook", "renderer", "client"}

Raw == [file EXCEPT !.token = disk]

PluginInit ==
  /\ WebhookInit
  /\ file \in Files
  /\ disk = file.token
  /\ plugin = "down"
  /\ settings = Settings(Raw, Blank)
  /\ starts = 0
  /\ promised = Blank
  /\ released = Parts

(***************************************************************************)
(* The settings are unusable: __init__ raises before it has changed        *)
(* anything, and would raise again.                                        *)
(***************************************************************************)
ConstructRefused ==
  /\ plugin = "down"
  /\ Refused(Raw)
  /\ plugin' = "failed"
  /\ starts' = MaxStarts
  /\ UNCHANGED <<webhookVars, file, disk, settings, promised, released>>

ConstructWith(token, saved) ==
  /\ plugin \in {"down", "failed"} /\ starts < MaxStarts
  /\ ~Refused(Raw)
  /\ plugin' = "loaded"
  /\ starts' = starts + 1
  /\ settings' = Settings(Raw, Minted(starts'))
  /\ targets' = settings'.targets
  /\ IF TokenGenerated(Raw) /\ saved
       THEN disk' = token /\ promised' = settings'.token
       ELSE UNCHANGED <<disk, promised>>
  /\ released' = {}
  /\ UNCHANGED <<file, runner, delivery, handlerVars, taskVars>>

(* Faulty variant: the settings are saved before the token is put in. *)
ConstructSavesFirst(saved) == ConstructWith(disk, saved)

(***************************************************************************)
(* __init__: from_mapping, then _persist_generated_webhook_token, which    *)
(* may fail to save.                                                       *)
(***************************************************************************)
Construct(saved) == ConstructWith(Minted(starts + 1), saved)

(* initialize(): the renderer's engine first, then the webhook.             *)
Initialize ==
  /\ plugin = "loaded"
  /\ plugin' = "up"
  /\ IF settings.enabled
       THEN Start
       ELSE runner' = "none" /\ delivery' = "none" /\ UNCHANGED targets
  /\ UNCHANGED <<handlerVars, taskVars, file, disk, settings, starts, promised,
                 released>>

(* The engine cannot start: AstrBot drops the plugin. *)
InitializeFails ==
  /\ plugin = "loaded"
  /\ plugin' = "failed"
  /\ UNCHANGED <<webhookVars, file, disk, settings, starts, promised, released>>

(* A notifier presents a token; only an equal ASCII token lets it in.       *)
Request(r, token) ==
  /\ plugin \in {"up", "stopping"}
  /\ Arrives(r, token = settings.token)
  /\ UNCHANGED lifeVars

(* terminate() stops the webhook first, if there is one.                    *)
Terminate ==
  /\ plugin = "up"
  /\ runner # "binding"
  /\ plugin' = "stopping"
  /\ IF settings.enabled THEN Stop ELSE UNCHANGED webhookVars
  /\ UNCHANGED <<file, disk, settings, starts, promised, released>>

WebhookStopped == ~settings.enabled \/ delivery = "closed"

(***************************************************************************)
(* The renderer is closed whether or not stop() raised, and the client     *)
(* whether or not the renderer did.                                        *)
(***************************************************************************)
RendererClosed ==
  /\ plugin = "stopping"
  /\ WebhookStopped
  /\ plugin' = "releasing"
  /\ released' = {"webhook", "renderer"}
  /\ UNCHANGED <<webhookVars, file, disk, settings, starts, promised>>

ClientClosed ==
  /\ plugin = "releasing"
  /\ plugin' = "down"
  /\ released' = Parts
  /\ UNCHANGED <<webhookVars, file, disk, settings, starts, promised>>

(* The process dies: all that is left is what has been saved.               *)
Dies ==
  /\ plugin \in {"loaded", "up", "stopping", "releasing"}
  /\ plugin' = "down"
  /\ runner' = "none" /\ delivery' = "none"
  /\ handler' = [r \in Requests |-> IF r \in Handling THEN "dropped" ELSE handler[r]]
  /\ task' = [t \in Tasks |-> IF t \in Running THEN "ended" ELSE task[t]]
  /\ cut' = {} /\ cancelled' = {} /\ drawing' = {}
  /\ released' = Parts
  /\ UNCHANGED <<targets, body, status, target, accepted, abandoned, shown,
                 file, disk, settings, starts, promised>>

NoMoreStarts ==
  /\ plugin \in {"down", "failed"}
  /\ starts = MaxStarts
  /\ UNCHANGED pluginVars

PluginNext ==
  \/ \E saved \in BOOLEAN : Construct(saved)
  \/ ConstructRefused
  \/ Initialize
  \/ InitializeFails
  \/ \E r \in Requests, token \in {disk, settings.token, Blank} : Request(r, token)
  \/ (Bound \/ PortTaken \/ ShutdownStep) /\ UNCHANGED lifeVars
  \/ \E r \in Requests : (HandlerStep(r) \/ TaskStep(r)) /\ UNCHANGED lifeVars
  \/ Terminate
  \/ RendererClosed
  \/ ClientClosed
  \/ Dies
  \/ NoMoreStarts

(***************************************************************************)
(* The event loop resumes what can go on: cancelled tasks, renders, which  *)
(* end of themselves, and the steps of a shutdown, whose drain has a       *)
(* timeout.  send_message has none: nothing is assumed of it.              *)
(***************************************************************************)
StopStep ==
  \/ ShutdownStep /\ UNCHANGED lifeVars
  \/ \E r \in Requests : RenderEnds(r) /\ UNCHANGED lifeVars
  \/ \E t \in Tasks : TaskCancelled(t) /\ UNCHANGED lifeVars
  \/ RendererClosed
  \/ ClientClosed

PluginFairness == WF_pluginVars(StopStep)

PluginSpec == PluginInit /\ [][PluginNext]_pluginVars /\ PluginFairness
-----------------------------------------------------------------------------
(***************************************************************************)
(* terminate() leaves nothing behind: no listener, no webhook task, no     *)
(* render of the webhook's, and every part has been shut down, whichever   *)
(* of them failed.  In particular a handler that outlives the drain cannot *)
(* start a task in the closed delivery, and the renderer is closed only    *)
(* when no webhook image is being drawn.                                   *)
(***************************************************************************)
DownMeansDown ==
  /\ plugin \in {"releasing", "down"} => runner = "none" /\ Running = {} /\ drawing = {}
  /\ plugin = "down" => released = Parts

(***************************************************************************)
(* "The runner stops the listener and drains in-flight handlers first, so  *)
(* their raw-text delivery completes before optional tasks are cancelled": *)
(* no task is cancelled while a handler the runner still waits for is at   *)
(* work.                                                                   *)
(***************************************************************************)
DrainsFirst ==
  delivery \in {"cancelling", "idling", "closed"} => Handling \subseteq abandoned

(***************************************************************************)
(* The HTTP status tells what became of the raw text and nothing else: a   *)
(* notifier that retries on 502 never sends an alert a second time to a    *)
(* target that has accepted it, and one that got 200 reached somebody.     *)
(***************************************************************************)
StatusTellsTheText ==
  \A r \in Requests :
    /\ status[r] = 200 => accepted[r] > 0
    /\ status[r] \in {400, 401, 413, 415, 502} => accepted[r] = 0

(***************************************************************************)
(* Only a notification that asks for it in so many words, from a source    *)
(* that can name a node, starts an optional task.                          *)
(***************************************************************************)
TasksAreAsked ==
  \A r \in Requests, b \in Branches :
    task[<<r, b>>] # "none" =>
      /\ body[r].media = "json" /\ body[r].doc = "object" /\ body[r].utf8
      /\ body[r][b] \in {"true", "TRUE"}
      /\ body[r].source \notin {"uptime_kuma", "watchtower"}

(* No image goes to another target once close() has begun. *)
NoImageAfterClose ==
  [][delivery # "open" => shown' = shown]_pluginVars

(***************************************************************************)
(* A generated token that the log says was saved is the one on disk and    *)
(* the one every later start uses: notifiers never get 401 with it.        *)
(***************************************************************************)
SavedTokenWorks ==
  promised # Blank =>
    /\ disk = promised
    /\ plugin \in {"loaded", "up", "stopping"} => settings.token = promised

(***************************************************************************)
(* Whatever the operator wrote: a webhook that listens asks for an ASCII   *)
(* token, has somebody to send to and leaves the health check its path;    *)
(* and a plugin that runs has numbers its parts can work with.  A request  *)
(* that may wait for timeout_seconds is sent with a token that is good for *)
(* as long: the renewal margin covers every timeout that is accepted, the  *)
(* assumption Timeout + Skew <= Margin of BeszelSession for clocks that    *)
(* agree (the longest timeout leaves nothing for clocks that do not).      *)
(* An overview image has room for a system (Rows of SystemQueries), the    *)
(* memory of a node for a diagnosis (AnalysisHistory); the provider is     *)
(* given time; and no time reaches into the future.                        *)
(***************************************************************************)
SettingsWork ==
  LET number == settings.number
  IN  /\ runner = "listening" =>
           /\ settings.token.kind = "ascii"
           /\ targets > 0
           /\ settings.path # "/healthz"
           /\ 0 < number.port /\ number.port < 65536
      /\ starts > 0 /\ plugin # "failed" =>
           /\ 0 < number.timeout_seconds
           /\ number.timeout_seconds <= TokenRenewalMargin
           /\ number.page_size > 0
           /\ number.analysis_context_max_records > 0
           /\ number.analysis_timeout_seconds > 0
           /\ \A f \in {"cache_ttl_seconds", "analysis_context_hours",
                       "analysis_context_recent_hours"} : number[f] >= 0

(* terminate() returns, even if a message is for ever being sent. *)
TerminateReturns == (plugin = "stopping") ~> (plugin = "down")
==============================================================================
