------------------------------- MODULE Alerts -------------------------------
(***************************************************************************)
(* The alerts the panel raises from what one server reports: CPU and RAM,  *)
(* disks, containers, the proxy, certificates, plugin metrics, and the     *)
(* alerts plugins raise themselves (backend/alerts.go, the alert rows of   *)
(* backend/store.go, shared/thresholds.go).  Reachability alerts are in    *)
(* module Reachability, what happens to a fired alert in module Delivery.  *)
(*                                                                         *)
(* An item is one thing that is watched.  Its reading is its value seen    *)
(* through its thresholds: "mid" is under the firing and over the clearing *)
(* one, "gone" is not in the frame at all.  A container's "bounced" and    *)
(* "restarting" stand for a restart count above the last frame's, with and *)
(* without the container running again.                                    *)
(***************************************************************************)
EXTENDS Naturals, Sequences, FiniteSets

CONSTANTS NumItems,   \* how many things are watched
          Watched,    \* the kinds they may be, in the order they are evaluated
          Window,     \* SustainedSeconds, in ticks
          MaxAlerts,  \* maxAlerts
          MaxUser,    \* bound: rows resolved by hand
          MaxRestarts \* bound: restarts of the panel

VARIABLES kind,      \* what each item is
          reading,   \* what the server would report of it now
          since,     \* AlertEngine.since, as an age; NotOver when absent
          prev,      \* prevContainers, and certHosts: the last frame's reading
          active,    \* AlertEngine.active
          rows,      \* Store.state.Alerts
          told,      \* history: keys fired whose condition was not over since
          again,     \* history: a key was fired while it was in told
          users, restarts

vars == <<kind, reading, since, prev, active, rows, told, again, users, restarts>>

Items == 1..NumItems
Listed == {rows[n] : n \in DOMAIN rows}

Readings ==
    [load |-> {"low", "mid", "high"},
     disk |-> {"low", "mid", "high", "gone"},
     container |-> {"running", "bounced", "restarting", "crashed", "stopped", "gone"},
     proxy |-> {"ok", "error", "gone"},
     cert |-> {"ok", "warn", "crit", "expired", "gone"},
     metric |-> {"low", "mid", "warn", "crit", "gone"},
     plugin |-> {"ok", "raised"}]

NotOver == Window + 1
Ages == 0..NotOver
Unknown == "unknown"

\* "vpsid|type|key": the level is the part of the key that tells two alerts
\* about the same item apart.
Levels == {"high", "crash", "restart", "error", "warn", "crit", "expired", "raised"}
Key(i, l) == [item |-> i, level |-> l]
Keys == [item: Items, level: Levels]

TypeOK ==
    /\ kind \in [Items -> DOMAIN Readings]
    /\ \A i \in Items : /\ reading[i] \in Readings[kind[i]]
                        /\ prev[i] \in Readings[kind[i]] \cup {Unknown}
    /\ since \in [Items -> Ages]
    /\ active \subseteq Keys /\ told \subseteq Keys /\ again \in BOOLEAN
    /\ \A n \in DOMAIN rows : rows[n] \in Keys
    /\ Len(rows) <= MaxAlerts
    /\ users \in 0..MaxUser /\ restarts \in 0..MaxRestarts

Init ==
    /\ kind \in Watched
    /\ reading \in {r \in [Items -> UNION {Readings[k] : k \in DOMAIN Readings}] :
                      \A i \in Items : r[i] \in Readings[kind[i]]}
    /\ since = [i \in Items |-> NotOver]
    /\ prev = [i \in Items |-> Unknown]
    /\ active = {} /\ rows = <<>> /\ told = {} /\ again = FALSE
    /\ users = 0 /\ restarts = 0

-----------------------------------------------------------------------------
(* Raising and clearing.  An evaluation is a sequence of steps that fire   *)
(* one key or clear several, done under e.mu.                              *)

Fires(k) == <<[op |-> "fire", keys |-> {k}]>>
Clears(K) == <<[op |-> "clear", keys |-> K]>>
None == <<>>

\* Mutant: the cap is checked before the new row is added.
AddAlertLate(rs, k) == IF Len(rs) <= MaxAlerts THEN Append(rs, k) ELSE Append(Tail(rs), k)

\* Store.AddAlert: the oldest rows go when there are too many.
AddAlert(rs, k) == IF Len(rs) < MaxAlerts THEN Append(rs, k) ELSE Append(Tail(rs), k)

\* Store.ResolveAlertsFor: the rows of other conditions are kept, in order.
ResolveAlertsFor(rs, K) ==
    LET kept[n \in 0..Len(rs)] ==
          IF n = 0 THEN <<>>
          ELSE IF rs[n] \in K THEN kept[n - 1] ELSE Append(kept[n - 1], rs[n])
    IN  kept[Len(rs)]

State == [active |-> active, rows |-> rows, fired |-> {}]

\* AlertEngine.fire and clear: one alert when the condition starts.  Clearing
\* what is not active leaves the rows alone.
Do(s, step) ==
    IF step.op = "fire"
    THEN IF step.keys \subseteq s.active THEN s
         ELSE [active |-> s.active \cup step.keys,
               rows |-> AddAlert(s.rows, CHOOSE k \in step.keys : TRUE),
               fired |-> s.fired \cup step.keys]
    ELSE [s EXCEPT !.active = @ \ step.keys,
                   !.rows = ResolveAlertsFor(@, step.keys \cap s.active)]

Run(steps) ==
    LET after[n \in 0..Len(steps)] == IF n = 0 THEN State ELSE Do(after[n - 1], steps[n])
    IN  after[Len(steps)]

-----------------------------------------------------------------------------
(* What a frame says of each kind of item.                                 *)

Over(i) == reading[i] \in (IF kind[i] = "load" THEN {"high"} ELSE {"warn", "crit"})
Timed(i) == kind[i] \in {"load", "metric"} /\ reading[i] # "gone"

\* Mutant: every sample over the threshold starts the clock again.
RestartsClock(i) == IF Timed(i) THEN (IF Over(i) THEN 0 ELSE NotOver) ELSE since[i]

\* sustained: the first sample over the threshold only starts the clock.
Sustained(i) == Over(i) /\ since[i] = Window
SinceAfter(i) ==
    IF Timed(i) THEN (IF ~Over(i) THEN NotOver ELSE IF since[i] = NotOver THEN 0 ELSE since[i])
    ELSE since[i]

\* Mutant: the clearing threshold is the firing one.
LoadFlaps(i) ==
    IF Sustained(i) THEN Fires(Key(i, "high"))
    ELSE IF reading[i] # "high" THEN Clears({Key(i, "high")}) ELSE None

\* EffectiveThresholds: the clearing threshold is under the firing one, for a
\* server's own thresholds too.
EvaluateLoad(i) ==
    IF Sustained(i) THEN Fires(Key(i, "high"))
    ELSE IF reading[i] = "low" THEN Clears({Key(i, "high")}) ELSE None

EvaluateDisk(i) ==
    CASE reading[i] = "high" -> Fires(Key(i, "high"))
      [] reading[i] = "low"  -> Clears({Key(i, "high")})
      [] OTHER -> None

\* prevContainers: a container the last frame did not have is only noted.
EvaluateContainer(i) ==
    IF prev[i] \in {Unknown, "gone"} \/ reading[i] = "gone" THEN None
    ELSE (IF prev[i] \in {"running", "bounced"} /\ reading[i] = "crashed"
          THEN Fires(Key(i, "crash")) ELSE None)
         \o (IF reading[i] \in {"bounced", "restarting"} /\ prev[i] # reading[i]
             THEN Fires(Key(i, "restart")) ELSE None)
         \o (IF reading[i] \in {"running", "bounced"}
             THEN Clears({Key(i, "crash"), Key(i, "restart")}) ELSE None)

EvaluateProxy(i) ==
    CASE reading[i] = "error" -> Fires(Key(i, "error"))
      [] reading[i] = "ok"    -> Clears({Key(i, "error")})
      [] OTHER -> None

\* Every level but the present one is cleared.
ClearOthers(i, levels) == Clears({Key(i, l) : l \in levels \ {reading[i]}})
certLevels == {"warn", "crit", "expired"}

\* evaluateCerts: a domain that is gone is known from certHosts only.
EvaluateCert(i) ==
    IF reading[i] = "gone" /\ prev[i] \in {Unknown, "gone"} THEN None
    ELSE ClearOthers(i, certLevels)
         \o (IF reading[i] \in certLevels THEN Fires(Key(i, reading[i])) ELSE None)

\* Mutant: nothing clears the alerts of a metric that is no longer reported.
MetricGone(i) ==
    CASE Sustained(i) -> ClearOthers(i, {"warn", "crit"}) \o Fires(Key(i, reading[i]))
      [] reading[i] = "low" -> ClearOthers(i, {"warn", "crit"})
      [] OTHER -> None

\* evaluatePlugins: a metric that is gone resolves its alerts.
EvaluateMetric(i) ==
    CASE Sustained(i) -> ClearOthers(i, {"warn", "crit"}) \o Fires(Key(i, reading[i]))
      [] reading[i] \in {"low", "gone"} -> ClearOthers(i, {"warn", "crit"})
      [] OTHER -> None

Evaluate(i) ==
    CASE kind[i] = "load"      -> EvaluateLoad(i)
      [] kind[i] = "disk"      -> EvaluateDisk(i)
      [] kind[i] = "container" -> EvaluateContainer(i)
      [] kind[i] = "proxy"     -> EvaluateProxy(i)
      [] kind[i] = "cert"      -> EvaluateCert(i)
      [] kind[i] = "metric"    -> EvaluateMetric(i)
      [] OTHER -> None

\* The readings after which an alert of that level is over, whatever the
\* engine does.
Relieves(k, r) ==
    \/ r \in {"low", "ok", "running", "bounced"}
    \/ r = "gone" /\ kind[k.item] \in {"cert", "metric"}
    \/ kind[k.item] \in {"cert", "metric"} /\ r \in Levels \ {k.level}

Apply(steps) ==
    LET s == Run(steps)
        old == {k \in told : ~Relieves(k, reading[k.item])}
    IN  /\ active' = s.active /\ rows' = s.rows
        /\ told' = old \cup {k \in s.fired : ~Relieves(k, reading[k.item])}
        /\ again' = (again \/ s.fired \cap old # {})

\* EvaluateSnapshot, under e.mu.
Frame ==
    /\ LET upTo[n \in 0..NumItems] == IF n = 0 THEN None ELSE upTo[n - 1] \o Evaluate(n)
       IN  Apply(upTo[NumItems])
    /\ since' = [i \in Items |-> SinceAfter(i)]
    /\ prev' = [i \in Items |-> IF kind[i] \in {"container", "cert"} THEN reading[i] ELSE prev[i]]
    /\ UNCHANGED <<kind, reading, users, restarts>>

-----------------------------------------------------------------------------
(* The rest of the world.                                                  *)

\* What is watched changes.
Changes(i) ==
    /\ kind[i] # "plugin"
    /\ \E r \in Readings[kind[i]] \ {reading[i]} : reading' = [reading EXCEPT ![i] = r]
    /\ UNCHANGED <<kind, since, prev, active, rows, told, again, users, restarts>>

Tick ==
    /\ \E i \in Items : since[i] < Window
    /\ since' = [i \in Items |-> IF since[i] < Window THEN since[i] + 1 ELSE since[i]]
    /\ UNCHANGED <<kind, reading, prev, active, rows, told, again, users, restarts>>

\* beacle.alert and beacle.resolve of a plugin.
RaisePlugin(i) ==
    /\ kind[i] = "plugin"
    /\ reading' = [reading EXCEPT ![i] = "raised"]
    /\ LET s == Do(State, Fires(Key(i, "raised"))[1])
       IN  /\ active' = s.active /\ rows' = s.rows /\ told' = told \cup s.fired
           /\ again' = (again \/ s.fired \cap told # {})
    /\ UNCHANGED <<kind, since, prev, users, restarts>>

ResolvePlugin(i) ==
    /\ kind[i] = "plugin"
    /\ reading' = [reading EXCEPT ![i] = "ok"]
    /\ LET s == Do(State, Clears({Key(i, "raised")})[1])
       IN  active' = s.active /\ rows' = s.rows
    /\ told' = told \ {Key(i, "raised")}
    /\ UNCHANGED <<kind, since, prev, again, users, restarts>>

\* ResolvePluginAll: the plugin of every plugin item is turned off or removed,
\* its metrics with it.
ResolvePluginAll ==
    /\ \E i \in Items : kind[i] \in {"plugin", "metric"}
    /\ LET own == {k \in Keys : kind[k.item] \in {"plugin", "metric"}}
           s == Do(State, Clears(own)[1])
       IN  /\ active' = s.active /\ rows' = s.rows /\ told' = told \ own
    /\ reading' = [i \in Items |-> IF kind[i] = "plugin" THEN "ok"
                                   ELSE IF kind[i] = "metric" THEN "gone" ELSE reading[i]]
    /\ UNCHANGED <<kind, since, prev, again, users, restarts>>

\* Store.ResolveAlert, asked for by the user: the row only.
ResolveAlert(n) ==
    /\ users < MaxUser /\ users' = users + 1
    /\ n \in DOMAIN rows
    /\ rows' = SubSeq(rows, 1, n - 1) \o SubSeq(rows, n + 1, Len(rows))
    /\ UNCHANGED <<kind, reading, since, prev, active, told, again, restarts>>

\* Mutant: a restarted panel does not adopt the open alerts.
AdoptsNothing == {}

\* NewAlertEngine: the open rows are adopted.
Adopted == Listed

Restart ==
    /\ restarts < MaxRestarts /\ restarts' = restarts + 1
    /\ active' = Adopted
    /\ told' = told \cap Listed
    /\ since' = [i \in Items |-> NotOver] /\ prev' = [i \in Items |-> Unknown]
    /\ UNCHANGED <<kind, reading, rows, again, users>>

Next ==
    \/ Frame \/ Tick \/ ResolvePluginAll \/ Restart
    \/ \E i \in Items : Changes(i) \/ RaisePlugin(i) \/ ResolvePlugin(i)
    \/ \E n \in 1..MaxAlerts : ResolveAlert(n)

\* Frames keep coming, and time passes.
Fairness == WF_vars(Frame) /\ WF_vars(Tick)

-----------------------------------------------------------------------------
(* Properties.                                                             *)

\* One open row per condition, and the engine knows of each: an alert nobody
\* resolves is never listed twice, not even by a panel that was restarted or
\* that ran out of rows ("would raise a second alert beside the first").
OneRow ==
    /\ Cardinality(Listed) = Len(rows)
    /\ Listed \subseteq active

\* A condition that hovers around its threshold, or outlives the panel's
\* process with its row, is reported once and not again until it was over.
NoRepeat == ~again

\* What every kind of item reads when nothing is wrong with it.  A
\* certificate whose site is gone is left out: certHosts forgets it on a
\* restart.  So are a disk, a container and a proxy that are gone: the frame
\* says nothing of them.
Calm(i) == reading[i] \in {"low", "ok", "running"}
              \/ (kind[i] = "metric" /\ reading[i] = "gone")

\* What is watched stops changing.
Settles == <>[][reading' = reading]_vars

\* An alert does not outlive its cause: once things settle, no item that is
\* calm has a row.
AlertEnds == Settles => <>[](\A k \in Listed : ~Calm(k.item))

\* The level each kind of item has to be reported at while it lasts.
Lasting(i) ==
    CASE kind[i] \in {"load", "disk"} -> {"high"}
      [] kind[i] = "proxy" -> {"error"}
      [] kind[i] = "cert" -> {"warn", "crit", "expired"}
      [] kind[i] = "metric" -> {"warn", "crit"}
      [] OTHER -> {}

\* A condition that lasts is reported, and stays so, at the level it has.
AlertStarts == Settles => <>[](\A i \in Items : reading[i] \in Lasting(i) => Key(i, reading[i]) \in active)

\* Refuted, after a restart of the panel: certHosts is lost, and nothing
\* resolves the alert of a site that was removed.
GoneCertEnds == Settles => <>[](\A k \in Listed : kind[k.item] # "cert" \/ reading[k.item] # "gone")
=============================================================================
