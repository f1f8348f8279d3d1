----------------------------- MODULE TempLogins -----------------------------
(***************************************************************************)
(* Temporary SSH logins (agent/templogin_linux.go): accounts the agent     *)
(* creates for a while, their records, their sudoers files and the sshd    *)
(* rule that lets them in with a password.                                 *)
(*                                                                         *)
(* Creating, deleting and reaping run under tempLoginMu, one at a time;    *)
(* every command they run may fail, and the agent may die between any two  *)
(* of them.  Accounts of the same name that the agent did not create, and  *)
(* an administrator's edits of the sshd configuration, happen any time.    *)
(***************************************************************************)
EXTENDS Naturals

CONSTANTS Names,                        \* account names that match tempLoginNameRe
          MaxCreates, MaxFails, MaxDies \* bounds: logins made, userdel failing, agent dying

VARIABLES passwd,   \* each name: nobody's, the agent's (by its GECOS), somebody's
          sudo,     \* files in /etc/sudoers.d
          recs,     \* temp-logins.json
          old,      \* records that have run out
          dropin,   \* the accounts sshd's drop-in names; {}: no such file
          job,      \* what holds tempLoginMu
          sane,     \* the rest of sshd's configuration is valid
          count,
          reloaded  \* history: sshd was reloaded with a configuration it refuses

loginVars == <<passwd, sudo, recs, old, dropin, job, sane, count, reloaded>>

Idle == [at |-> "idle", user |-> "none", todo |-> {}, keep |-> {}, changed |-> FALSE]
Ours == {u \in Names : passwd[u] = "ours"}

TypeOK ==
    /\ passwd \in [Names -> {"none", "ours", "foreign"}]
    /\ sudo \subseteq Names /\ recs \subseteq Names /\ old \subseteq recs /\ dropin \subseteq Names
    /\ job.at \in {"idle", "pass", "save", "sshd", "remove", "forget", "rule", "expired", "orphans", "end"}
    /\ job.todo \subseteq Names /\ job.keep \subseteq Names
    /\ {sane, reloaded} \subseteq BOOLEAN

Init ==
    /\ passwd = [u \in Names |-> "none"] /\ sudo = {} /\ recs = {} /\ old = {} /\ dropin = {}
    /\ job = Idle /\ sane = TRUE /\ reloaded = FALSE
    /\ count = [creates |-> 0, fails |-> 0, dies |-> 0]

Counts(what) == count' = [count EXCEPT ![what] = @ + 1]
Step(at) == job' = [job EXCEPT !.at = at]

-----------------------------------------------------------------------------
(* What the operations share.                                              *)

Reload == reloaded' = (reloaded \/ ~sane)

\* configureSshd: without accounts the rule goes; otherwise it is written,
\* tried with sshd -t, and taken back when sshd refuses it.  "failed": there is
\* no sshd, or the file cannot be written.
Configured(users) ==
    \/ users = {} /\ dropin' = {} /\ IF dropin # {} THEN Reload ELSE UNCHANGED reloaded
    \/ users # {} /\ dropin = users /\ UNCHANGED <<dropin, reloaded>>
    \/ users # {} /\ dropin # users /\ sane /\ dropin' = users /\ Reload
Refused(users) ==
    /\ users # {} /\ UNCHANGED reloaded
    /\ \/ UNCHANGED dropin
       \/ dropin # users /\ ~sane /\ dropin' = {}
ConfigureSshd(users) == Configured(users) \/ Refused(users)

\* Mutant: any account of that name.
Named(u) == passwd[u] # "none"
\* tempAccountsIn: the name and the GECOS field.
Made(u) == passwd[u] = "ours"

\* Mutant: the sudoers file stays.
KeepsSudo(u) == sudo
SudoWithout(u) == sudo \ {u}

\* removeTempAccount: the sudoers file first; userdel may fail.
RemoveTempAccount(u) ==
    /\ sudo' = SudoWithout(u)
    /\ \/ passwd' = [passwd EXCEPT ![u] = IF Made(u) THEN "none" ELSE @] /\ UNCHANGED count
       \/ Made(u) /\ count.fails < MaxFails /\ Counts("fails") /\ UNCHANGED passwd

\* saveTempLogins renames a temporary file; callers that undo ignore its error.
Save(keep) ==
    \/ recs' = keep /\ old' = old \cap keep
    \/ count.fails < MaxFails /\ UNCHANGED <<recs, old>>

-----------------------------------------------------------------------------
(* createTempLogin.                                                        *)

\* A free name is picked and useradd works.
Create(u) ==
    /\ job.at = "idle" /\ passwd[u] = "none" /\ count.creates < MaxCreates
    /\ Counts("creates")
    /\ passwd' = [passwd EXCEPT ![u] = "ours"]
    /\ job' = [Idle EXCEPT !.at = "pass", !.user = u]
    /\ UNCHANGED <<sudo, recs, old, dropin, sane, reloaded>>

\* chpasswd, and the sudoers file when one was asked for and visudo accepts it.
SetPassword ==
    /\ job.at = "pass"
    /\ \/ Step("save") /\ sudo' \in {sudo, sudo \cup {job.user}}
       \/ Step("remove") /\ UNCHANGED sudo
    /\ UNCHANGED <<passwd, recs, old, dropin, sane, count, reloaded>>

SaveNew ==
    /\ job.at = "save"
    /\ \/ recs' = recs \cup {job.user} /\ old' = old \ {job.user} /\ Step("sshd")
       \/ Step("remove") /\ UNCHANGED <<recs, old>>
    /\ UNCHANGED <<passwd, sudo, dropin, sane, count, reloaded>>

LetIn ==
    /\ job.at = "sshd"
    /\ \/ Configured(recs) /\ job' = Idle
       \/ Refused(recs) /\ Step("remove")
    /\ UNCHANGED <<passwd, sudo, recs, old, sane, count>>

-----------------------------------------------------------------------------
(* deleteTempLogin, and what createTempLogin undoes.                       *)

Delete(u) ==
    /\ job.at = "idle" /\ (passwd[u] # "none" \/ u \in recs)
    /\ job' = [Idle EXCEPT !.at = "remove", !.user = u]
    /\ UNCHANGED <<passwd, sudo, recs, old, dropin, sane, count, reloaded>>
Remove ==
    /\ job.at = "remove"
    /\ RemoveTempAccount(job.user)
    /\ job' = [job EXCEPT !.at = "forget", !.keep = recs \ {job.user}]
    /\ UNCHANGED <<recs, old, dropin, sane, reloaded>>
Forget ==
    /\ job.at = "forget"
    /\ Save(job.keep)
    /\ Step("rule")
    /\ UNCHANGED <<passwd, sudo, dropin, sane, count, reloaded>>
Rule ==
    /\ job.at = "rule"
    /\ ConfigureSshd(job.keep)
    /\ job' = Idle
    /\ UNCHANGED <<passwd, sudo, recs, old, sane, count>>

-----------------------------------------------------------------------------
(* reapTempLogins, at the start of the agent and every 30 seconds.         *)

\* Mutant: accounts without a record are left alone.
NoOrphans(keep) == {}
Orphans(keep) == Ours \ keep

\* Mutant: a rule that serves nobody is left.
RuleStays(keep) == FALSE
RuleServesNobody(keep) == keep = {} /\ dropin # {}

\* Something to do: expired records, accounts without one, a rule for nobody.
ReapDue == recs \cap old # {} \/ Orphans(recs \ old) # {} \/ RuleServesNobody(recs)
Reap ==
    /\ job.at = "idle" /\ ReapDue
    /\ job' = [Idle EXCEPT !.at = "expired", !.todo = recs \cap old, !.keep = recs \ old, !.changed = old # {}]
    /\ UNCHANGED <<passwd, sudo, recs, old, dropin, sane, count, reloaded>>
ReapOne(u) ==
    /\ job.at \in {"expired", "orphans"} /\ u \in job.todo
    /\ RemoveTempAccount(u)
    /\ job' = [job EXCEPT !.todo = @ \ {u}]
    /\ UNCHANGED <<recs, old, dropin, sane, reloaded>>
ReapOrphans ==
    /\ job.at = "expired" /\ job.todo = {}
    /\ job' = [job EXCEPT !.at = "orphans", !.todo = Orphans(job.keep),
                          !.changed = @ \/ Orphans(job.keep) # {}]
    /\ UNCHANGED <<passwd, sudo, recs, old, dropin, sane, count, reloaded>>
ReapEnds ==
    /\ job.at = "orphans" /\ job.todo = {}
    /\ IF job.changed THEN Step("forget") /\ UNCHANGED <<dropin, reloaded>>
       ELSE /\ job' = Idle
            /\ IF RuleServesNobody(job.keep) THEN Configured({}) ELSE UNCHANGED <<dropin, reloaded>>
    /\ UNCHANGED <<passwd, sudo, recs, old, sane, count>>

-----------------------------------------------------------------------------
(* The world.                                                              *)

Expires(u) ==
    /\ u \in recs \ old
    /\ old' = old \cup {u}
    /\ UNCHANGED <<passwd, sudo, recs, dropin, job, sane, count, reloaded>>
AgentDies ==
    /\ count.dies < MaxDies /\ Counts("dies")
    /\ job' = Idle
    /\ UNCHANGED <<passwd, sudo, recs, old, dropin, sane, reloaded>>
SomebodyAdds(u) ==
    /\ passwd[u] = "none" /\ job.at = "idle" /\ u \notin recs
    /\ passwd' = [passwd EXCEPT ![u] = "foreign"]
    /\ sudo' \in {sudo, sudo \cup {u}}
    /\ UNCHANGED <<recs, old, dropin, job, sane, count, reloaded>>
AdminEdits ==
    /\ sane' = ~sane
    /\ UNCHANGED <<passwd, sudo, recs, old, dropin, job, count, reloaded>>

Work == SetPassword \/ SaveNew \/ LetIn \/ Remove \/ Forget \/ Rule
        \/ ReapOrphans \/ ReapEnds \/ \E u \in Names : ReapOne(u)
Next ==
    \/ Work \/ Reap \/ AgentDies \/ AdminEdits
    \/ \E u \in Names : Create(u) \/ Delete(u) \/ Expires(u) \/ SomebodyAdds(u)

\* An operation goes on to its end; the reaper's timer finds the mutex free
\* again and again, and comes first some time.
Fairness == WF_loginVars(Work) /\ SF_loginVars(Reap)

-----------------------------------------------------------------------------
(* Properties.                                                             *)

\* An account whose login ran out, or of which the agent has no record since it
\* died or a command failed, does not stay.
AccountsGo ==
    \A u \in Names : (u \in Ours /\ u \notin recs \ old) ~> (u \notin Ours \/ u \in recs \ old)

\* The sshd rule does not stay when there is no login left.
RuleGoes == recs = {} ~> (recs # {} \/ dropin = {})

\* The right to sudo never outlives the account: it would be the next one's
\* of that name.
NoSudoLeft == \A u \in Names : u \in sudo => passwd[u] # "none"

\* An account the agent did not create is never deleted.
ForeignStays == [][\A u \in Names : passwd[u] = "foreign" => passwd'[u] = "foreign"]_loginVars

\* Refuted: "An account the agent did not create is never touched": the sudoers
\* file of its name goes before the account is looked at.
ForeignUntouched ==
    [][\A u \in Names : passwd[u] = "foreign" /\ u \in sudo => u \in sudo']_loginVars

\* Refuted: "Never reload a config sshd would refuse".  Removing the rule
\* reloads sshd without trying the configuration.
NeverReloadsRefused == ~reloaded
=============================================================================
