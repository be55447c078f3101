---------------------------- MODULE PluginConfig ----------------------------
(***************************************************************************)
(* PluginConfig.from_mapping (core/config): what becomes of the settings   *)
(* an operator has written.  A field of the mapping `raw' is a number or a *)
(* class of texts: "absent" is a missing or null value, "blank" one that   *)
(* is empty once stripped, "junk" one that is not understood.              *)
(***************************************************************************)
EXTENDS Integers

(* The range of each number, and its default. *)
Between(min, max, default) == [min |-> min, max |-> max, default |-> default]

Limits ==
  [timeout_seconds               |-> Between(2, 60, 10),
   cache_ttl_seconds             |-> Between(0, 300, 60),
   page_size                     |-> Between(10, 40, 20),
   container_history_threshold   |-> Between(0, 50, 10),
   render_scale                  |-> Between(50, 300, 100),
   port                          |-> Between(1, 65535, 8899),
   analysis_timeout_seconds      |-> Between(1, 300, 60),
   analysis_context_hours        |-> Between(0, 168, 24),
   analysis_context_recent_hours |-> Between(0, 168, 6),
   analysis_context_max_records  |-> Between(1, 20, 8)]

NumberFields == DOMAIN Limits

(* A token with no more than this left is renewed before a request. *)
TokenRenewalMargin == 60

(* A number out of its range makes the whole configuration unusable, the   *)
(* webhook unusable, or nothing worse than the default.                    *)
StrictFields == {"timeout_seconds", "cache_ttl_seconds", "page_size",
                 "container_history_threshold", "render_scale"}

Absent == [kind |-> "absent", n |-> 0]
Integer(n) == [kind |-> "int", n |-> n]
(* A boolean, which Python takes for an integer, or a value of another type. *)
Boolean(n) == [kind |-> "bool", n |-> n]
Other == [kind |-> "other", n |-> 0]

InRange(raw, f) ==
  /\ raw[f].kind = "int"
  /\ raw[f].n \in Limits[f].min .. Limits[f].max

OutOfRange(raw, f) == raw[f].kind # "absent" /\ ~InRange(raw, f)

(* Faulty variant: a number out of its range is used as it is. *)
NumberUnchecked(raw, f) ==
  IF raw[f].kind = "int" THEN raw[f].n ELSE Limits[f].default

Number(raw, f) == IF InRange(raw, f) THEN raw[f].n ELSE Limits[f].default

(* from_mapping raises ConfigurationError.  A blank display.timezone gives  *)
(* way to AstrBot's; a blank range or mode to its default; a blank URL to   *)
(* nothing.                                                                *)
Refused(raw) ==
  \/ raw.base_url \in {"blank", "junk"}
  \/ raw.history_default_range = "junk"
  \/ raw.mode = "junk"
  \/ raw.timezone = "junk"
  \/ raw.timezone \in {"absent", "blank"} /\ raw.astrbot_timezone = "junk"
  \/ \E f \in StrictFields : OutOfRange(raw, f)

(* The path gets its slash before it is compared with the health check's. *)
Slashed(raw) ==
  CASE raw.path \in {"absent", "blank"} -> "/"
    [] raw.path = "hook"                -> "/hook"
    [] raw.path = "healthz"             -> "/healthz"
    [] OTHER                            -> raw.path

PathTaken(raw) == Slashed(raw) \in {"/healthz", "/{pattern}"}

Path(raw) == IF PathTaken(raw) THEN "/" ELSE Slashed(raw)

(* The webhook is switched on and nothing is wrong with its address. *)
Addressable(raw) == raw.enabled /\ ~OutOfRange(raw, "port") /\ ~PathTaken(raw)

TokenGenerated(raw) == Addressable(raw) /\ raw.token.kind = "blank"

Enabled(raw) ==
  /\ Addressable(raw)
  /\ raw.token.kind # "non_ascii"
  /\ raw.targets > 0

(* The configuration the plugin runs with; fresh is token_urlsafe(32). *)
Settings(raw, fresh) ==
  [number  |-> [f \in NumberFields |-> Number(raw, f)],
   enabled |-> Enabled(raw),
   path    |-> Path(raw),
   token   |-> IF TokenGenerated(raw) THEN fresh ELSE raw.token,
   targets |-> raw.targets]
=============================================================================
