------------------------------ MODULE MCShells ------------------------------
(***************************************************************************)
(* The ways to a shell on a server: the panel's terminals and temporary    *)
(* logins.  They share no state, so each is looked at on its own: focus is *)
(* chosen at the start, and only that part moves.                          *)
(***************************************************************************)
EXTENDS Terminals

CONSTANTS Names, MaxCreates, MaxFails, MaxDies

VARIABLES focus, passwd, sudo, recs, old, dropin, job, sane, count, reloaded

loginVars == <<passwd, sudo, recs, old, dropin, job, sane, count, reloaded>>
Login == INSTANCE TempLogins

ShellsInit == focus \in {"terminals", "logins"} /\ TermInit /\ Login!Init
ShellsNext ==
    \/ focus = "terminals" /\ TermNext /\ UNCHANGED <<focus, loginVars>>
    \/ focus = "logins" /\ Login!Next /\ UNCHANGED <<focus, termVars>>

\* The Fairness of either part, while it is the focus.
ShellsFairness ==
    /\ \A t \in Terms : /\ WF_termVars(focus = "terminals" /\ Panel(t))
                        /\ WF_termVars(focus = "terminals" /\ Agent(t))
                        /\ WF_termVars(focus = "terminals" /\ IdleAlone(t))
    /\ WF_termVars(focus = "terminals" /\ FromAgent)
    /\ WF_termVars(focus = "terminals" /\ Reads)
    /\ WF_termVars(focus = "terminals" /\ ReadsLast)
    /\ WF_termVars(focus = "terminals" /\ CloseAll)
    /\ WF_loginVars(focus = "logins" /\ Login!Work)
    /\ SF_loginVars(focus = "logins" /\ Login!Reap)
ShellsSpec == ShellsInit /\ [][ShellsNext]_<<focus, termVars, loginVars>> /\ ShellsFairness

-----------------------------------------------------------------------------
(* What is checked of either part; its module says what it means.          *)

\* No shell stays behind unseen (TerminalManager), and no tab waits for one
\* that is over (the bridge of backend/terminal.go).
TerminalsEnd == ShellEnds /\ AppTold

\* No more shells than termMaxSessions, none left by CloseAll, no session without
\* its tab; the right to sudo never outlives its account, and an account the
\* agent did not create is never deleted (removeTempAccount).
ShellsSound ==
    /\ [](TermTypeOK /\ TabsTracked /\ TornDown /\ Login!TypeOK /\ Login!NoSudoLeft)
    /\ Login!ForeignStays

\* An account whose login ran out or is not on record does not stay, and the
\* sshd rule goes with the last login (reapTempLogins, configureSshd).
LoginsEnd == Login!AccountsGo /\ Login!RuleGoes
=============================================================================
