----------------------------- MODULE Terminals -----------------------------
(***************************************************************************)
(* Shells on a server for the panel's terminal tab: the bridge between the *)
(* app's WebSocket and the agent's (backend/terminal.go) and the agent's   *)
(* TerminalManager with its PTYs (agent/terminal.go, terminal_linux.go),   *)
(* over one agent socket.                                                  *)
(*                                                                         *)
(* What a frame carries is left out; that the app falls behind, that the   *)
(* socket goes away between any two steps, and the agent's read loop still *)
(* working on a frame when its session is torn down are not.               *)
(***************************************************************************)
EXTENDS Naturals, Sequences, FiniteSets

CONSTANTS Terms,        \* terminal tabs
          MaxSessions,  \* termMaxSessions
          OutBuffer,    \* termOutBuffer
          WireCap,      \* bound: frames on the way in either direction
          MaxPrints     \* bound: frames the shells write

ASSUME TermsAssumption == {MaxSessions, OutBuffer, WireCap, MaxPrints} \subseteq Nat

VARIABLES app,      \* each tab: not opened, open, told that it is over, or gone
          terms,    \* AgentHub.terms
          tout,     \* termSub.out
          heard,    \* the tab has had a frame
          down, up, \* frames to the agent and to the panel
          link,     \* the agent socket
          manager,  \* the agent's side of it: live, ending, or after CloseAll
          hand,     \* a frame the agent's readLoop still works on then
          shell,    \* each PTY: none, run, hung up, reaped, ended
          listed,   \* TerminalManager.sessions
          prints,
          behind,   \* history: tabs whose buffer was full
          orphans   \* history: shells opened after CloseAll

panelSide == <<app, terms, tout, heard, behind>>
agentSide == <<shell, listed, prints, orphans>>
wire == <<down, up, link, manager, hand>>
termVars == <<panelSide, agentSide, wire>>

Ops == {"open", "data", "close", "exit", "error"}
Frame(t, op) == [term |-> t, op |-> op]
Frames == [term: Terms, op: Ops]
IsFinal(f) == f.op \in {"exit", "error"}

TermTypeOK ==
    /\ app \in [Terms -> {"none", "open", "told", "gone"}]
    /\ shell \in [Terms -> {"none", "run", "hup", "reaped", "ended"}]
    /\ terms \subseteq Terms /\ heard \subseteq Terms
    /\ behind \subseteq Terms /\ orphans \subseteq Terms
    /\ listed \subseteq Terms /\ Cardinality(listed) <= MaxSessions
    /\ \A t \in Terms : Len(tout[t]) <= OutBuffer
    /\ link \in {"up", "lost"} /\ manager \in {"live", "ending", "closed"}
    /\ Len(down) <= WireCap /\ Len(up) <= WireCap /\ Len(hand) <= 1
    /\ prints \in 0..MaxPrints

TermInit ==
    /\ app = [t \in Terms |-> "none"] /\ terms = {} /\ tout = [t \in Terms |-> <<>>]
    /\ heard = {} /\ behind = {}
    /\ down = <<>> /\ up = <<>> /\ link = "up" /\ manager = "live" /\ hand = <<>>
    /\ shell = [t \in Terms |-> "none"] /\ listed = {}
    /\ prints = 0 /\ orphans = {}

-----------------------------------------------------------------------------
(* The panel.                                                              *)

\* h.send: nothing on a socket that is gone.  A full buffer ends the session,
\* which is LinkLost.
SendDown(f) ==
    IF link = "lost" THEN UNCHANGED down
    ELSE Len(down) < WireCap /\ down' = Append(down, f)

\* handleTerminalWS, OpenTerminal.
OpenTerminal(t) ==
    /\ app[t] = "none"
    /\ IF link = "up"
       THEN app' = [app EXCEPT ![t] = "open"] /\ terms' = terms \cup {t} /\ SendDown(Frame(t, "open"))
       ELSE app' = [app EXCEPT ![t] = "told"] /\ UNCHANGED <<terms, down>>
    /\ UNCHANGED <<tout, heard, behind, agentSide, up, link, manager, hand>>

\* TerminalInput: keystrokes and resizes, as long as the tab is open.
TerminalInput(t) ==
    /\ app[t] = "open" /\ link = "up"
    /\ \A n \in DOMAIN down : down[n] # Frame(t, "data")
    /\ SendDown(Frame(t, "data"))
    /\ UNCHANGED <<panelSide, agentSide, up, link, manager, hand>>

\* CloseTerminal, when handleTerminalWS returns: the agent is told only while
\* the panel still has the session.
CloseTerminal(t, verdict) ==
    /\ app' = [app EXCEPT ![t] = verdict]
    /\ terms' = terms \ {t}
    /\ IF t \in terms THEN SendDown(Frame(t, "close")) ELSE UNCHANGED down

\* deliverTerminal: a final frame takes the session out of the table, and so
\* does a full buffer, in which the frame that says so finds no room either.
Deliver(t, f) ==
    CASE app[t] # "open" -> UNCHANGED <<terms, tout, behind>>
      [] app[t] = "open" /\ Len(tout[t]) < OutBuffer ->
            /\ tout' = [tout EXCEPT ![t] = Append(@, f)]
            /\ terms' = IF IsFinal(f) THEN terms \ {t} ELSE terms
            /\ UNCHANGED behind
      [] OTHER -> terms' = terms \ {t} /\ behind' = behind \cup {t} /\ UNCHANGED tout

\* handleTerminalFrame
FromAgent ==
    /\ link = "up" /\ up # <<>>
    /\ up' = Tail(up)
    /\ LET f == Head(up) IN
       IF f.term \in terms THEN Deliver(f.term, f) ELSE UNCHANGED <<terms, tout, behind>>
    /\ UNCHANGED <<app, heard, agentSide, down, link, manager, hand>>

\* Mutant: nobody waits for the agent's socket to go.
NobodyWaits(t) == FALSE

\* The goroutine of OpenTerminal that waits for sess.done.
Waits(t) == link = "lost" /\ t \in terms
AgentGone(t) ==
    /\ Waits(t)
    /\ Deliver(t, Frame(t, "error"))
    /\ UNCHANGED <<app, heard, agentSide, wire>>

\* handleTerminalWS: one frame to the app.
ToApp(t) ==
    /\ app[t] = "open" /\ tout[t] # <<>>
    /\ tout' = [tout EXCEPT ![t] = Tail(@)]
    /\ heard' = heard \cup {t}
    /\ IF IsFinal(Head(tout[t])) THEN CloseTerminal(t, "told") ELSE UNCHANGED <<app, terms, down>>
    /\ UNCHANGED <<behind, agentSide, up, link, manager, hand>>

\* termNoAnswer
NoAnswer(t) ==
    /\ app[t] = "open" /\ t \notin heard /\ tout[t] = <<>>
    /\ CloseTerminal(t, "told")
    /\ UNCHANGED <<tout, heard, behind, agentSide, up, link, manager, hand>>

\* The app closes the tab or goes away.
AppCloses(t) ==
    /\ app[t] = "open"
    /\ CloseTerminal(t, "gone")
    /\ UNCHANGED <<tout, heard, behind, agentSide, up, link, manager, hand>>

-----------------------------------------------------------------------------
(* The agent.                                                              *)

\* TerminalManager.send: it waits while the queue is full, and gives up once
\* the session's context is done.
SendUp(f) ==
    IF link = "lost" THEN UNCHANGED up
    ELSE Len(up) < WireCap /\ up' = Append(up, f)

\* termSession.hangup, once.
Hangup(S) == [t \in Terms |-> IF t \in S /\ shell[t] = "run" THEN "hup" ELSE shell[t]]

\* Mutant: the limit is one too high.
FullLate == Cardinality(listed) > MaxSessions
Full == Cardinality(listed) >= MaxSessions

\* startPTY: a shell of the account asked for.
StartPTY(t) ==
    /\ shell' = [shell EXCEPT ![t] = "run"] /\ listed' = listed \cup {t}
    /\ orphans' = IF manager = "closed" THEN orphans \cup {t} ELSE orphans

\* TerminalManager.open: too many, no such account or no PTY, or a shell.
Opens(t) ==
    \/ SendUp(Frame(t, "error")) /\ UNCHANGED <<shell, listed, orphans>>
    \/ ~Full /\ StartPTY(t) /\ UNCHANGED up

\* TerminalManager.Handle: keystrokes and resizes go to the shell, which is
\* not modelled; they put its idle timer off.
Handle(f) ==
    CASE f.op = "open" -> Opens(f.term)
      [] f.op = "close" -> shell' = Hangup({f.term} \cap listed) /\ UNCHANGED <<listed, orphans, up>>
      [] OTHER -> UNCHANGED <<shell, listed, orphans, up>>

\* readLoop
Reads ==
    /\ link = "up" /\ down # <<>>
    /\ down' = Tail(down)
    /\ Handle(Head(down))
    /\ UNCHANGED <<panelSide, prints, link, manager, hand>>

\* readLoop, with the frame it had when its session ended.
ReadsLast ==
    /\ hand # <<>>
    /\ hand' = <<>>
    /\ Handle(Head(hand))
    /\ UNCHANGED <<panelSide, prints, down, link, manager>>

\* pump: output goes up; on a session that is over the shell is hung up, or
\* the frame lands in a queue nobody drains.
Prints(t) ==
    /\ shell[t] = "run" /\ prints < MaxPrints
    /\ prints' = prints + 1
    /\ SendUp(Frame(t, "data"))
    /\ \/ UNCHANGED shell
       \/ link = "lost" /\ shell' = Hangup({t})
    /\ UNCHANGED <<panelSide, listed, orphans, down, link, manager, hand>>

\* The user's exit, or the shell dying.
Exits(t) ==
    /\ shell[t] = "run"
    /\ shell' = Hangup({t})
    /\ UNCHANGED <<panelSide, listed, prints, orphans, wire>>

\* pump after the PTY is gone: hang up, wait, forget, report.
Reap(t) ==
    /\ shell[t] = "hup"
    /\ shell' = [shell EXCEPT ![t] = "reaped"] /\ listed' = listed \ {t}
    /\ UNCHANGED <<panelSide, prints, orphans, wire>>
Report(t) ==
    /\ shell[t] = "reaped"
    /\ shell' = [shell EXCEPT ![t] = "ended"]
    /\ SendUp(Frame(t, "exit"))
    /\ UNCHANGED <<panelSide, listed, prints, orphans, down, link, manager, hand>>

\* Mutant: the idle timer looks only at tabs that are still open.
IdleOfOpen(t) == shell[t] = "run" /\ link = "up" /\ app[t] = "open"

\* watchIdle: termIdle without input.  It ends with the session's context.
IdleFires(t) == shell[t] = "run" /\ link = "up"
WatchIdle(t) ==
    /\ IdleFires(t)
    /\ SendUp(Frame(t, "data"))
    /\ shell' = Hangup({t})
    /\ UNCHANGED <<panelSide, listed, prints, orphans, down, link, manager, hand>>

-----------------------------------------------------------------------------
(* The socket.                                                             *)

\* It is lost with what is on it; the agent's readLoop may have a frame in
\* hand when its writePump finds out.
LinkLost ==
    /\ link = "up"
    /\ link' = "lost" /\ manager' = "ending"
    /\ hand' \in {<<>>, IF down = <<>> THEN <<>> ELSE <<Head(down)>>}
    /\ down' = <<>> /\ up' = <<>>
    /\ UNCHANGED <<panelSide, agentSide>>

\* Mutant of CloseAll: the sessions are forgotten and not hung up.
ForgetsAll ==
    /\ manager = "ending"
    /\ manager' = "closed"
    /\ listed' = {}
    /\ UNCHANGED <<panelSide, shell, prints, orphans, down, up, link, hand>>

\* runSession's deferred CloseAll.
CloseAll ==
    /\ manager = "ending"
    /\ manager' = "closed"
    /\ shell' = Hangup(listed)
    /\ UNCHANGED <<panelSide, listed, prints, orphans, down, up, link, hand>>

Panel(t) == AgentGone(t) \/ ToApp(t) \/ NoAnswer(t)
Agent(t) == Reap(t) \/ Report(t)

TermNext ==
    \/ FromAgent \/ Reads \/ ReadsLast \/ LinkLost \/ CloseAll
    \/ \E t \in Terms : \/ OpenTerminal(t) \/ TerminalInput(t) \/ AppCloses(t) \/ Panel(t)
                        \/ Prints(t) \/ Exits(t) \/ WatchIdle(t) \/ Agent(t)

\* Without a tab there is no input, and the idle timer is bound to fire.
IdleAlone(t) == app[t] # "open" /\ WatchIdle(t)

\* Every loop goes on; tabs, shells, keystrokes and the network do as they like.
Fairness ==
    /\ WF_termVars(FromAgent) /\ WF_termVars(Reads) /\ WF_termVars(ReadsLast) /\ WF_termVars(CloseAll)
    /\ \A t \in Terms : WF_termVars(Panel(t)) /\ WF_termVars(Agent(t)) /\ WF_termVars(IdleAlone(t))

-----------------------------------------------------------------------------
(* Properties.                                                             *)

\* A shell does not stay behind when its tab is gone: it ends with the tab,
\* the socket or, when the panel has lost track of it, by its idle timer.
\* Only one opened by a frame in hand while the session ends is not covered.
ShellEnds ==
    \A t \in Terms : (app[t] \in {"told", "gone"} \/ link = "lost")
                        ~> (shell[t] # "run" \/ t \in orphans)

\* The panel keeps a session only for a tab that is open (AgentHub.terms).
TabsTracked == \A t \in terms : app[t] = "open"

\* CloseAll leaves nothing behind: the manager lists exactly the PTYs that are
\* not reaped, so that it hangs up every one of them, and after it only a
\* shell of the one frame readLoop had in hand can run.
TornDown ==
    /\ listed = {t \in Terms : shell[t] \in {"run", "hup"}}
    /\ manager = "closed" => \A t \in Terms : shell[t] = "run" => t \in orphans
    /\ \A t, u \in orphans : t = u

\* A tab whose shell is over, or was never opened, is told so, unless it fell
\* behind.
AppTold ==
    \A t \in Terms : (app[t] = "open" /\ (shell[t] = "ended" \/ link = "lost"))
                        ~> (app[t] # "open" \/ t \in behind)

\* Refuted: the tab that fell behind is not cut, as termOutBuffer says; the
\* error finds the same full buffer, and no frame comes after it.
BehindIsCut == \A t \in Terms : t \in behind ~> app[t] # "open"

\* Refuted: a frame in hand opens a shell after CloseAll, which ends by itself
\* or not at all ("Shells live exactly as long as this connection").
DiesWithLink == \A t \in Terms : link = "lost" ~> shell[t] # "run"
=============================================================================
