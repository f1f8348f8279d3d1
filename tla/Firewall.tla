------------------------------ MODULE Firewall ------------------------------
(***************************************************************************)
(* Editing a server's firewall from the panel (agent/firewall_linux.go):   *)
(* allow, deny and delete over ufw, firewalld or iptables, with the guard  *)
(* that keeps the SSH port open.                                           *)
(*                                                                         *)
(* A rule is deleted by its number in a listing the panel made earlier;    *)
(* the listing is made again under fwMu.  Somebody at a shell may edit the *)
(* rules, and sshd may move to another port, between any two steps.        *)
(***************************************************************************)
EXTENDS Naturals, Sequences

CONSTANTS MaxRules, MaxReqs, MaxOutside   \* bounds

VARIABLES backend,  \* detectFirewall
          rules,    \* the rules in force, in order
          saved,    \* what a reboot brings back
          ssh,      \* the port sshd listens on and is configured for
          req,      \* the request that has passed its first checks
          dirty,    \* history: rules and saved may differ, see KeptOnReboot
          count

fwVars == <<backend, rules, saved, ssh, req, dirty, count>>

\* "range" covers every port, "" is a rule without a port.
Ports == {"22", "2222", "80"}
Specs == [port: Ports \cup {"range", ""}, act: {"allow", "deny"}, src: {"world", "one", "everyone"}]
Rule(spec, app) == [port |-> spec.port, act |-> spec.act, src |-> spec.src, app |-> app]
Allow(port) == [port |-> port, act |-> "allow", src |-> "world", app |-> FALSE]

None == [at |-> "idle", do |-> "none", spec |-> Allow("80"), id |-> 0, force |-> FALSE, raced |-> FALSE]

TypeOK ==
    /\ backend \in {"ufw", "firewalld", "iptables"} /\ ssh \in {"22", "2222"}
    /\ Len(rules) <= MaxRules /\ Len(saved) <= MaxRules
    /\ \A n \in DOMAIN rules : rules[n].act \in {"allow", "deny"}
    /\ req.at \in {"idle", "apply", "reload"} /\ req.id \in 0..MaxRules
    /\ {req.force, req.raced, dirty} \subseteq BOOLEAN

Init ==
    /\ backend \in {"ufw", "firewalld", "iptables"} /\ ssh = "22"
    /\ rules \in {<<Allow("22")>>, <<Allow("80"), Allow("22")>>, <<[Allow("22") EXCEPT !.app = TRUE]>>}
    /\ saved = rules /\ req = None /\ dirty = FALSE
    /\ count = [reqs |-> 0, outside |-> 0]

-----------------------------------------------------------------------------
(* What the kernel does with a packet for p from anywhere.                 *)

\* A rule for one address leaves it alone; everyone is the source 0.0.0.0/0.
Hits(r, p) == r.src # "one" /\ r.port \in {p, "range", ""}
Matching(rs, p) == {n \in DOMAIN rs : Hits(rs[n], p)}
First(S) == CHOOSE n \in S : \A m \in S : n <= m

\* ufw and iptables take the first rule that matches, firewalld's denying rules
\* come first; the default is to deny.
Open(rs, p) ==
    LET m == Matching(rs, p)
    IN IF backend = "firewalld" THEN m # {} /\ \A n \in m : rs[n].act = "allow"
       ELSE m # {} /\ rs[First(m)].act = "allow"

-----------------------------------------------------------------------------
(* The guard.                                                              *)

\* protectedPorts: 22, what sshd_config says, the ports of live sessions.
Protected == {"22", ssh}

\* Mutant: a range is compared as a port.
CoversExactly(port, p) == port \in {p, ""}
\* fwPortCovers
Covers(port, p) == port \in {p, "range", ""}

\* validateFWSpec
Valid(spec) == spec.port = "" => spec.act = "deny" /\ spec.src # "world"

\* guardDeny refuses the whole world, and only warns about a source.
DenyRefused(spec) == spec.port # "" /\ spec.src = "world" /\ \E p \in Protected : Covers(spec.port, p)

\* What a listing shows: ufw a profile's name for its port; firewalld gives a
\* service no number.
Listed(r) == IF r.app THEN "name" ELSE r.port
HasId(r) == ~(backend = "firewalld" /\ r.app)

\* markProtectedRules
Marked(r) == HasId(r) /\ r.act = "allow" /\ \E p \in Protected : Covers(Listed(r), p)

-----------------------------------------------------------------------------
(* Requests; fwMu lets one at a time through to the commands.              *)

Begins(r) ==
    /\ req.at = "idle" /\ count.reqs < MaxReqs
    /\ req' = r
    /\ count' = [count EXCEPT !.reqs = @ + 1]

\* FirewallAllow; FirewallDeny after its guard.
FirewallAllow(spec) ==
    /\ spec.act = "allow" /\ Valid(spec)
    /\ Begins([None EXCEPT !.at = "apply", !.do = "add", !.spec = Rule(spec, FALSE)])
    /\ UNCHANGED <<backend, rules, saved, ssh, dirty>>
FirewallDeny(spec) ==
    /\ spec.act = "deny" /\ Valid(spec) /\ ~DenyRefused(spec)
    /\ Begins([None EXCEPT !.at = "apply", !.do = "add", !.spec = Rule(spec, FALSE)])
    /\ UNCHANGED <<backend, rules, saved, ssh, dirty>>

\* FirewallDelete: fwDeleteCommand lists the rules again, finds the number and
\* asks for a confirmation when the rule is protected.
FirewallDelete(id, force) ==
    /\ id \in DOMAIN rules /\ HasId(rules[id])
    /\ Marked(rules[id]) => force
    /\ Begins([None EXCEPT !.at = "apply", !.do = "delete", !.id = id, !.force = force])
    /\ UNCHANGED <<backend, rules, saved, ssh, dirty>>

Dropped(rs, n) == SubSeq(rs, 1, n - 1) \o SubSeq(rs, n + 1, Len(rs))
\* firewalld's permanent rules are a set: there is one at most.
Without(rs, r) ==
    LET found == {n \in DOMAIN rs : rs[n] = r}
    IN IF found = {} THEN rs ELSE Dropped(rs, First(found))

\* ufwRun updates the rule for the same port and source in place; iptablesRun
\* appends (-A); firewalldRun adds to a set.
Same(x, r) == x.port = r.port /\ x.src = r.src /\ ~x.app
Added(rs, r) ==
    IF backend = "ufw" /\ \E n \in DOMAIN rs : Same(rs[n], r)
    THEN [n \in DOMAIN rs |-> IF Same(rs[n], r) THEN r ELSE rs[n]]
    ELSE IF backend = "firewalld" /\ \E n \in DOMAIN rs : rs[n] = r THEN rs ELSE Append(rs, r)

Result(rs) == IF req.do = "add" THEN Added(rs, req.spec) ELSE Dropped(rs, req.id)
CanApply == /\ req.do = "add" => Len(rules) < MaxRules /\ Len(saved) < MaxRules
            /\ req.do = "delete" => req.id \in DOMAIN rules

\* Mutant: iptables rules are not saved after a change.
KeepsSaved(rs) == saved
\* iptablesPersist, when netfilter-persistent is there and works; ufw saves.
Persisted(rs) == rs

\* ufw, or iptables and then netfilter-persistent, whose error is ignored.
Apply ==
    /\ req.at = "apply" /\ backend # "firewalld" /\ CanApply
    /\ rules' = Result(rules)
    /\ \/ saved' = Persisted(rules') /\ UNCHANGED dirty
       \/ backend = "iptables" /\ UNCHANGED saved /\ dirty' = TRUE
    /\ req' = None
    /\ UNCHANGED <<backend, ssh, count>>

\* firewalld: --permanent first, by what the rule says, then --reload, which
\* may fail.
ApplyPermanent ==
    /\ req.at = "apply" /\ backend = "firewalld" /\ CanApply
    /\ saved' = IF req.do = "add" THEN Added(saved, req.spec) ELSE Without(saved, rules[req.id])
    /\ req' = [req EXCEPT !.at = "reload"]
    /\ UNCHANGED <<backend, rules, ssh, dirty, count>>
ReloadRules ==
    /\ req.at = "reload"
    /\ \/ rules' = saved /\ UNCHANGED dirty
       \/ UNCHANGED rules /\ dirty' = TRUE
    /\ req' = None
    /\ UNCHANGED <<backend, saved, ssh, count>>

\* The command fails or the rule is gone.
Fails ==
    /\ req.at = "apply"
    /\ req' = None
    /\ UNCHANGED <<backend, rules, saved, ssh, dirty, count>>

-----------------------------------------------------------------------------
(* Outside the panel.                                                      *)

Raced == req' = IF req.at = "idle" THEN req ELSE [req EXCEPT !.raced = TRUE]

ShellEdits ==
    /\ count.outside < MaxOutside /\ count' = [count EXCEPT !.outside = @ + 1]
    /\ \/ Len(rules) < MaxRules /\ \E p \in Ports \cup {"range"} : rules' = <<Allow(p)>> \o rules
       \/ \E n \in DOMAIN rules : rules' = Dropped(rules, n)
    /\ saved' = IF backend = "ufw" THEN rules' ELSE saved
    /\ dirty' = (dirty \/ backend # "ufw")
    /\ Raced
    /\ UNCHANGED <<backend, ssh>>
SshMoves ==
    /\ count.outside < MaxOutside /\ count' = [count EXCEPT !.outside = @ + 1]
    /\ ssh' \in {"22", "2222"} \ {ssh}
    /\ Raced
    /\ UNCHANGED <<backend, rules, saved, dirty>>
Reboots ==
    /\ rules # saved \/ req # None
    /\ rules' = saved /\ req' = None /\ dirty' = FALSE
    /\ UNCHANGED <<backend, saved, ssh, count>>

Next ==
    \/ \E spec \in Specs : FirewallAllow(spec) \/ FirewallDeny(spec)
    \/ \E id \in 1..MaxRules, force \in BOOLEAN : FirewallDelete(id, force)
    \/ Apply \/ ApplyPermanent \/ ReloadRules \/ Fails \/ ShellEdits \/ SshMoves \/ Reboots

-----------------------------------------------------------------------------
(* Properties.                                                             *)

\* Somebody at the shell, or a reboot with what that left, is not the panel.
ByPanel == count' = count /\ req # None /\ ~req.raced /\ ~(dirty /\ rules' = saved)

\* What the panel does without a confirmation never closes the port sshd is on:
\* not a deny of a range, nor a number that has come to mean another rule.
\* A deny that names everyone as its source is warned about and let through;
\* a rule that ufw lists by a profile's name is not recognised (see ProfileToo);
\* an edit between the guard and the command is not caught.
SshStaysOpen ==
    [][ByPanel /\ ~req.force /\ req.spec.src # "everyone" /\ (\A n \in DOMAIN rules : ~rules[n].app)
       /\ Open(rules, ssh) => Open(rules', ssh)]_fwVars

\* A change the panel reported is still there after a reboot, unless saving or
\* reloading failed or somebody edited the rules in force.
KeptOnReboot == req = None /\ ~dirty => rules = saved

\* Refuted: ufw lists "OpenSSH", not 22, and the rule goes without a question.
ProfileToo ==
    [][ByPanel /\ ~req.force /\ req.spec.src # "everyone" /\ Open(rules, ssh) => Open(rules', ssh)]_fwVars
=============================================================================
