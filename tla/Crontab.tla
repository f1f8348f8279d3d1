------------------------------ MODULE Crontab ------------------------------
(***************************************************************************)
(* Editing root's crontab from the panel (agent/cron_linux.go).            *)
(*                                                                         *)
(* An entry is named by its number among the entries, as a listing the     *)
(* panel made earlier has it; the crontab is loaded again and saved as a   *)
(* whole, under cronMu, with somebody's crontab -e before or in between.   *)
(***************************************************************************)
EXTENDS Naturals, Sequences, FiniteSets

CONSTANTS MaxLines, MaxEdits, MaxOutside   \* bounds

VARIABLES tab,      \* its lines: comments, entries, @reboot entries
          seen,     \* the entries of the listing the panel shows
          cron,     \* the request that holds cronMu, with what it loaded
          count

cronVars == <<tab, seen, cron, count>>

\* Two entries are never the same, so an entry is a number.
Note == 0
Reboot == 1
Entries == 2..(MaxEdits + MaxOutside + 3)
Free == [do |-> "none", id |-> 0, meant |-> Note, lines |-> <<>>, raced |-> FALSE]

TypeOK ==
    /\ \A n \in DOMAIN tab : tab[n] \in Entries \cup {Note, Reboot}
    /\ \A n \in DOMAIN seen : seen[n] # Note
    /\ cron.do \in {"none", "create", "update", "delete"} /\ cron.raced \in BOOLEAN

\* Mutant: a comment is taken for an entry.
AnyLine(line) == TRUE
\* parseCronLine
IsEntry(line) == line # Note

\* crontabEntryLines: the lines parseCronLine takes for an entry.
EntryLines(lines) == {n \in DOMAIN lines : IsEntry(lines[n])}
\* The line of entry number id, counted from 1.
LineOf(lines, id) == CHOOSE n \in EntryLines(lines) : Cardinality({m \in EntryLines(lines) : m <= n}) = id
\* The entries in the order of their lines.
Listed(lines) == [id \in 1..Cardinality(EntryLines(lines)) |-> lines[LineOf(lines, id)]]

Init ==
    /\ tab \in {<<Note, 2, Reboot, 3>>, <<2, Note, 3>>, <<>>}
    /\ seen = Listed(tab) /\ cron = Free
    /\ count = [edits |-> 0, outside |-> 0, fresh |-> 3]

Counts(what) == count' = [count EXCEPT ![what] = @ + 1]

\* CronState
CronState ==
    /\ seen' = Listed(tab)
    /\ UNCHANGED <<tab, cron, count>>

\* Any of the three: validate, take cronMu, load.
CronBegins(do, id) ==
    /\ cron = Free /\ count.edits < MaxEdits
    /\ IF do = "create" THEN id = 0 ELSE id \in DOMAIN seen
    /\ cron' = [do |-> do, id |-> id, meant |-> IF id = 0 THEN Note ELSE seen[id], lines |-> tab, raced |-> FALSE]
    /\ Counts("edits")
    /\ UNCHANGED <<tab, seen>>

Found == cron.id \in 1..Cardinality(EntryLines(cron.lines))
\* Mutant: the rest begins a line too late.
DroppedTwo(lines, n) == SubSeq(lines, 1, n - 1) \o SubSeq(lines, n + 2, Len(lines))
Dropped(lines, n) == SubSeq(lines, 1, n - 1) \o SubSeq(lines, n + 1, Len(lines))

\* saveCrontab: crontab - replaces the whole of it.
Saves(lines) == tab' = lines /\ cron' = Free /\ UNCHANGED seen

CronCreate ==
    /\ cron.do = "create" /\ Len(cron.lines) < MaxLines
    /\ Saves(Append(cron.lines, count.fresh + 1)) /\ Counts("fresh")
\* An @reboot entry cannot be changed.
CronUpdate ==
    /\ cron.do = "update" /\ Found
    /\ LET n == LineOf(cron.lines, cron.id)
       IN cron.lines[n] # Reboot /\ Saves([cron.lines EXCEPT ![n] = count.fresh + 1])
    /\ Counts("fresh")
CronDelete ==
    /\ cron.do = "delete" /\ Found
    /\ Saves(Dropped(cron.lines, LineOf(cron.lines, cron.id)))
    /\ UNCHANGED count
\* The entry is no longer there or cannot be changed, or crontab fails.
CronFails ==
    /\ cron # Free
    /\ cron' = Free
    /\ UNCHANGED <<tab, seen, count>>

\* crontab -e: a line more, at the end or the top, or one less.
SomebodyEdits ==
    /\ count.outside < MaxOutside
    /\ count' = [count EXCEPT !.outside = @ + 1, !.fresh = @ + 1]
    /\ \/ Len(tab) < MaxLines /\ tab' \in {<<count.fresh + 1>> \o tab, Append(tab, Note)}
       \/ \E n \in DOMAIN tab : tab' = Dropped(tab, n)
    /\ cron' = IF cron = Free THEN Free ELSE [cron EXCEPT !.raced = TRUE]
    /\ UNCHANGED seen

Next ==
    \/ \E do \in {"create", "update", "delete"}, id \in 0..MaxLines : CronBegins(do, id)
    \/ CronState \/ CronCreate \/ CronUpdate \/ CronDelete \/ CronFails \/ SomebodyEdits

-----------------------------------------------------------------------------
(* Properties.                                                             *)

Lines(lines) == {lines[n] : n \in DOMAIN lines}
Notes(lines) == {n \in DOMAIN lines : lines[n] = Note}

\* "Edits keep comments, blank lines and env assignments untouched", and every
\* entry but one: whatever the number has come to mean since it was listed.
KeepsOthers ==
    [][cron # Free /\ cron' = Free /\ ~cron.raced =>
        /\ Cardinality(Notes(tab')) = Cardinality(Notes(tab))
        /\ Cardinality(Lines(tab) \ Lines(tab')) <= 1
        /\ Reboot \in Lines(tab) \ Lines(tab') => cron.do = "delete"]_cronVars

\* Refuted: the entry that changes is the one the panel showed under that
\* number.  After an entry was removed the number names the one after it.
SameEntry ==
    [][cron # Free /\ cron' = Free /\ cron.id # 0 => Lines(tab) \ Lines(tab') \subseteq {cron.meant}]_cronVars
=============================================================================
