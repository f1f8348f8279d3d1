----------------------------- MODULE HostProofs -----------------------------
(***************************************************************************)
(* What MCHost checks of the parts of a server, proved for every value of  *)
(* the constants: the agent's own binary, systemd units, the firewall,     *)
(* Caddy's sites, the background jobs, a plugin, a file and the crontab.   *)
(* Each part has its inductive invariant; a step of another part leaves it *)
(* alone.                                                                  *)
(***************************************************************************)
EXTENDS MCHost, FiniteSetTheorems, SequenceTheorems, WellFoundedInduction, TLAPS

\* SMT takes a Boolean variable as one of two values, not as a formula.
IsBool(x) == x = TRUE \/ x = FALSE

\* The two ways of saying that a variable is Boolean.
LEMMA Booleans == \A x : IsBool(x) => x \in BOOLEAN
  BY Zenon DEF IsBool

-----------------------------------------------------------------------------
(* The agent's binary (SelfUpdate).                                        *)

Binaries == Releases \cup {"installed", "cut", "none"}
UpdateAts == {"idle", "write", "backup", "copy", "swap"}

\* The three files, the two operations and the history variables.
UpdateTyped ==
    /\ exe \in [{"bin", "new", "prev"} -> Binaries]
    /\ op \in [{"update", "rollback"} -> [at: UpdateAts, want: Binaries, fd: {"new", "bin", "gone"}]]
    /\ IsBool(overlap) /\ IsBool(cutBackup)
    /\ exe["bin"] # "none"
    /\ op["update"].at \in {"write", "copy"} => op["update"].want # "none"
    /\ op["rollback"].at = "write" => exe["prev"] # "none"

\* Unless they overlapped, one of the two is idle.
UpdateAlone == ~overlap => op["update"] = Update!Idle \/ op["rollback"] = Update!Idle

\* What an update has done by the time it stands where it stands: a whole
\* binary is in <bin>.new before the backup begins, and the backup is the
\* binary in use before the swap.
UpdateStaged ==
    LET u == op["update"]
    IN ~overlap => /\ u.at = "write" => u.fd = "new"
                   /\ u.at \in {"backup", "copy", "swap"} => exe["new"] \notin {"cut", "none"}
                   /\ u.at = "copy" => u.want = exe["bin"] /\ before = "none"
                   /\ u.at = "swap" => exe["prev"] = exe["bin"] /\ before = "none"

\* A rollback swaps in what it found in the backup.
RollbackStaged ==
    LET r == op["rollback"]
    IN ~overlap => /\ r.at \notin {"backup", "copy"}
                   /\ r.at = "write" => r.fd = "new"
                   /\ r.at = "swap" /\ ~cutBackup => exe["new"] # "cut"

UpdateInv == /\ UpdateTyped /\ UpdateAlone /\ UpdateStaged /\ RollbackStaged
             /\ Update!BinWhole /\ Update!WayBack

\* A new agent has one whole binary and no request.
LEMMA UpdateInit == Update!Init => UpdateInv
  BY DEF Update!Init, UpdateInv, UpdateTyped, UpdateAlone, UpdateStaged, RollbackStaged, Binaries, UpdateAts, IsBool,
         Update!BinWhole, Update!WayBack, Update!Names, Update!Ops, Update!Idle, Update!Installed, Update!Cut, Update!None

\* Every step of Update, Rollback or a restart keeps the invariant.
LEMMA UpdateStep == UpdateInv /\ Update!Next => UpdateInv'
  <1> USE DEF UpdateInv, UpdateTyped, UpdateAlone, UpdateStaged, RollbackStaged, Binaries, UpdateAts, IsBool,
              Update!BinWhole, Update!WayBack, Update!Names, Update!Ops, Update!Idle, Update!Installed,
              Update!Cut, Update!None
  <1> SUFFICES ASSUME UpdateInv, Update!Next PROVE UpdateInv'
    OBVIOUS
  <1>1. ASSUME NEW r \in Releases \cup {"cut"}, Update!Download(r) PROVE UpdateInv'
    <2>1. IsBool(overlap') /\ (overlap' <=> overlap \/ op["update"] # Update!Idle \/ op["rollback"] # Update!Idle)
      BY <1>1, Zenon DEF Update!Download, Update!Begins
    <2> QED
      BY <1>1, <2>1, HostAssumption DEF Update!Download, Update!Begins
  <1>2. CASE Update!Downloaded
    <2>1. CASE /\ op["update"].want # "cut"
               /\ exe' \in Update!Written("update", op["update"].want)
               /\ op' = [op EXCEPT !["update"].at = "backup"]
      <3>1. ~overlap => exe' = [exe EXCEPT !["new"] = op["update"].want]
        BY <1>2, <2>1 DEF Update!Downloaded, Update!Written
      <3>2. exe' \in [{"bin", "new", "prev"} -> Binaries] /\ exe'["bin"] # "none"
        BY <1>2, <2>1 DEF Update!Downloaded, Update!Written
      <3>3. /\ op'["update"] = [op["update"] EXCEPT !.at = "backup"] /\ op'["rollback"] = op["rollback"]
            /\ op' \in [{"update", "rollback"} -> [at: UpdateAts, want: Binaries, fd: {"new", "bin", "gone"}]]
        BY <2>1
      <3>4. op'["rollback"].at = "write" => exe'["prev"] # "none"
        BY <1>2, <2>1, <3>3 DEF Update!Downloaded, Update!Written
      <3>5. UpdateTyped'
        BY <1>2, <2>1, <3>2, <3>3, <3>4 DEF Update!Downloaded
      <3>6. UpdateAlone' /\ UpdateStaged' /\ RollbackStaged' /\ Update!BinWhole' /\ Update!WayBack'
        BY <1>2, <2>1, <3>1, <3>3 DEF Update!Downloaded
      <3> QED
        BY <3>5, <3>6
    <2>2. CASE Update!Discards("update")
      BY <1>2, <2>2 DEF Update!Downloaded, Update!Discards
    <2> QED
      BY <1>2, <2>1, <2>2 DEF Update!Downloaded, Update!BigEnough, Update!BackupFirst
  <1>3. CASE Update!BackupBegins
    <2>1. /\ op'["update"] = [op["update"] EXCEPT !.at = "copy", !.want = exe["bin"]]
          /\ op'["rollback"] = op["rollback"]
          /\ op' \in [{"update", "rollback"} -> [at: UpdateAts, want: Binaries, fd: {"new", "bin", "gone"}]]
      BY <1>3 DEF Update!BackupBegins
    <2> QED
      BY <1>3, <2>1 DEF Update!BackupBegins
  <1>4. CASE Update!BackupEnds
    BY <1>4 DEF Update!BackupEnds, Update!GivesUp
  <1>5. CASE Update!UpdateSwaps
    BY <1>5 DEF Update!UpdateSwaps, Update!Swaps, Update!GivesUp
  <1>6. CASE Update!Rollback
    <2>1. IsBool(overlap') /\ (overlap' <=> overlap \/ op["update"] # Update!Idle \/ op["rollback"] # Update!Idle)
      BY <1>6, Zenon DEF Update!Rollback, Update!Begins
    <2> QED
      BY <1>6, <2>1 DEF Update!Rollback, Update!Begins
  <1>7. CASE Update!Copied
    <2>1. CASE /\ exe' \in Update!Written("rollback", exe["prev"])
               /\ op' = [op EXCEPT !["rollback"].at = "swap"]
               /\ cutBackup' = (cutBackup \/ exe["prev"] = "cut")
      <3>1. IsBool(cutBackup') /\ (cutBackup' <=> cutBackup \/ exe["prev"] = "cut")
        BY <2>1, Zenon
      <3>2. ~overlap => exe' = [exe EXCEPT !["new"] = exe["prev"]]
        BY <1>7, <2>1 DEF Update!Copied, Update!Written
      <3>3. exe' \in [{"bin", "new", "prev"} -> Binaries] /\ exe'["bin"] # "none"
        BY <1>7, <2>1 DEF Update!Copied, Update!Written
      <3> QED
        BY <1>7, <2>1, <3>1, <3>2, <3>3 DEF Update!Copied
    <2>2. CASE UNCHANGED <<exe, cutBackup>> /\ Update!GivesUp("rollback")
      BY <1>7, <2>2 DEF Update!Copied, Update!GivesUp
    <2> QED
      BY <1>7, <2>1, <2>2 DEF Update!Copied
  <1>8. CASE Update!RollbackSwaps
    BY <1>8 DEF Update!RollbackSwaps, Update!Swaps, Update!GivesUp
  <1>9. CASE Update!Restarts
    BY <1>9 DEF Update!Restarts
  <1> QED
    BY <1>1, <1>2, <1>3, <1>4, <1>5, <1>6, <1>7, <1>8, <1>9 DEF Update!Next

\* A step of another part leaves the binary alone.
LEMMA UpdateStutters == UpdateInv /\ UNCHANGED updateVars => UpdateInv'
  BY DEF UpdateInv, UpdateTyped, UpdateAlone, UpdateStaged, RollbackStaged, Update!BinWhole, Update!WayBack, updateVars, IsBool

-----------------------------------------------------------------------------
(* One systemd unit (SystemdUnits).                                        *)

UnitAts == {"idle", "write", "reload", "enable", "start", "undo", "stop", "remove"}

UnitTyped ==
    /\ unit \in 0..MaxUnits /\ known \in 0..MaxUnits /\ runs \in 0..MaxUnits /\ told \in 0..MaxUnits
    /\ made \in 0..MaxUnits /\ dies \in 0..MaxUnitDies /\ IsBool(enabled) /\ IsBool(half)
    /\ make = [at |-> make.at, prev |-> make.prev, enable |-> make.enable, start |-> make.start]
    /\ make.at \in UnitAts /\ make.prev \in 0..MaxUnits
    /\ make.at = "idle" => make = Unit!Off
    /\ make.at = "write" => made # 0

NothingLeft == runs = 0 /\ ~enabled

\* What is installed at each step of a request that nothing has gone wrong in.
UnitStaged ==
    /\ make.at \in {"idle", "write", "stop", "remove"} => unit = told /\ known = told
    /\ make.at \in {"write", "reload", "enable", "undo"} => make.prev = told
    /\ make.at = "reload" => known = told
    /\ make.at \in {"reload", "enable", "start", "stop", "remove"} => unit # 0
    /\ make.at \in {"enable", "start"} => known = unit
    /\ make.at \in {"idle", "write", "reload", "enable", "undo"} /\ told = 0 => NothingLeft
    /\ make.at = "remove" => NothingLeft

UnitInv == UnitTyped /\ (~half => UnitStaged)

\* There is no unit at first.
LEMMA UnitInit == Unit!Init => UnitInv
  BY HostAssumption DEF HostAssumption, Unit!Init, UnitInv, UnitTyped, UnitStaged, UnitAts, NothingLeft, Unit!Off, IsBool

\* Every step of a request, of the unit or of a dying agent keeps the invariant.
LEMMA UnitStep == UnitInv /\ Unit!Next => UnitInv'
  <1> USE HostAssumption DEF UnitInv, UnitTyped, UnitStaged, UnitAts, NothingLeft, Unit!Off, Unit!At, IsBool
  <1> SUFFICES ASSUME UnitInv, Unit!Next PROVE UnitInv'
    OBVIOUS
  <1>1. ASSUME NEW o \in BOOLEAN, NEW e \in BOOLEAN, NEW s \in BOOLEAN, Unit!CreateSystemdUnit(o, e, s)
        PROVE UnitInv'
    BY <1>1 DEF Unit!CreateSystemdUnit
  <1>2. CASE Unit!UnitWritten
    BY <1>2 DEF Unit!UnitWritten
  <1>3. CASE Unit!UnitReloaded
    BY <1>3 DEF Unit!UnitReloaded
  <1>4. CASE Unit!UnitEnabled
    BY <1>4 DEF Unit!UnitEnabled
  <1>5. CASE Unit!UnitStarted
    BY <1>5 DEF Unit!UnitStarted
  <1>6. CASE Unit!UnitUndone
    BY <1>6 DEF Unit!UnitUndone, Unit!PutBack
  <1>7. CASE Unit!DeleteSystemdUnit
    BY <1>7 DEF Unit!DeleteSystemdUnit
  <1>8. CASE Unit!UnitStopped
    <2>1. /\ IsBool(half') /\ (~half' => ~half /\ runs' = 0 /\ ~enabled')
          /\ IsBool(enabled')
      BY <1>8, Zenon DEF Unit!UnitStopped
    <2> QED
      BY <1>8, <2>1 DEF Unit!UnitStopped
  <1>9. CASE Unit!UnitRemoved
    BY <1>9 DEF Unit!UnitRemoved
  <1>10. CASE Unit!SystemdAction
    BY <1>10 DEF Unit!SystemdAction
  <1>11. CASE Unit!UnitExits
    BY <1>11 DEF Unit!UnitExits
  <1>12. CASE Unit!AgentDies
    <2>1. IsBool(half') /\ (~half' => ~half /\ make = Unit!Off)
      BY <1>12, Zenon DEF Unit!AgentDies
    <2> QED
      BY <1>12, <2>1 DEF Unit!AgentDies
  <1> QED
    BY <1>1, <1>2, <1>3, <1>4, <1>5, <1>6, <1>7, <1>8, <1>9, <1>10, <1>11, <1>12 DEF Unit!Next

\* A step of another part leaves the unit alone.
LEMMA UnitStutters == UnitInv /\ UNCHANGED unitVars => UnitInv'
  BY DEF UnitInv, UnitTyped, UnitStaged, NothingLeft, unitVars, IsBool

\* The agent's path always holds a whole binary, the backup is the one the last
\* update replaced, and a unit is installed whole or not at all: InstalledWhole,
\* for any number of releases, updates, units and deaths.
THEOREM HostInstalledWhole == HostSpec => []InstalledWhole
  <1>1. HostInit => UpdateInv /\ UnitInv
    BY UpdateInit, UnitInit DEF HostInit
  <1>2. UpdateInv /\ UnitInv
        /\ [HostNext]_<<focus, jobVars, pluginVars, fwVars, siteVars, updateVars, fileVars, cronVars, unitVars>>
        => UpdateInv' /\ UnitInv'
    BY UpdateStep, UpdateStutters, UnitStep, UnitStutters DEF HostNext
  <1>3. UpdateInv /\ UnitInv => InstalledWhole
    <2>1. UpdateInv => Update!TypeOK /\ Update!BinWhole /\ Update!WayBack
      BY Booleans DEF UpdateInv, UpdateTyped, Update!TypeOK, Update!Names, Update!Ops, Update!Installed, Update!Cut,
             Update!None, Binaries, UpdateAts
    <2>2. UnitInv => Unit!TypeOK /\ Unit!NothingHalf
      BY Booleans DEF UnitInv, UnitTyped, UnitStaged, UnitAts, NothingLeft, Unit!TypeOK, Unit!NothingHalf, Unit!Off
    <2> QED
      BY <2>1, <2>2 DEF InstalledWhole
  <1> QED
    BY <1>1, <1>2, <1>3, PTL DEF HostSpec

-----------------------------------------------------------------------------
(* The firewall (Firewall).                                                *)

\* A set of numbers has a least one.
LEMMA LeastExists ==
    ASSUME NEW S, S \subseteq Nat, S # {}
    PROVE  \E x \in S : \A y \in S : x <= y
  <1> DEFINE R == OpToRel(<, Nat)
  <1>1. IsWellFoundedOn(R, Nat)
    BY NatLessThanWellFounded
  <1> HIDE DEF R
  <1>2. PICK x \in S : \A y \in S : ~(<<y, x>> \in R)
    BY <1>1, WFMin
  <1>3. \A u, v \in Nat : <<v, u>> \in R <=> v < u
    BY DEF R, OpToRel
  <1>4. ASSUME NEW y \in S PROVE x <= y
    <2>1. x \in Nat /\ y \in Nat
      OBVIOUS
    <2>2. ~(y < x)
      BY <1>2, <1>3, <2>1
    <2> QED
      BY <2>1, <2>2
  <1> QED
    BY <1>4

\* First is the least.
LEMMA FirstIs ==
    ASSUME NEW S, S \subseteq Nat, S # {}
    PROVE  Wall!First(S) \in S /\ \A m \in S : Wall!First(S) <= m
  BY LeastExists DEF Wall!First

\* There is room for the rules a server comes with.
LEMMA MaxRulesIs == MaxRules \in Nat /\ MaxRules >= 2
  <1>1. MaxRules \in Nat /\ MaxRules # 0 /\ MaxRules # 1
    BY HostAssumption
  <1> QED
    BY <1>1

\* What a rule may be; opaque Booleans, see IsBool.
Flags == BOOLEAN
RulePorts == {"22", "2222", "80", "range", ""}
Rules == [port: RulePorts, act: {"allow", "deny"}, src: {"world", "one", "everyone"}, app: Flags]

\* Both truth values are flags.
LEMMA FlagsAre == TRUE \in Flags /\ FALSE \in Flags
  BY Zenon DEF Flags

\* Dropping the n-th rule moves the ones after it up by one.
LEMMA DroppedIs ==
    ASSUME NEW rs \in Seq(Rules), NEW n \in 1..Len(rs)
    PROVE  /\ Wall!Dropped(rs, n) \in Seq(Rules)
           /\ Len(Wall!Dropped(rs, n)) = Len(rs) - 1
           /\ \A k \in 1..(Len(rs) - 1) : Wall!Dropped(rs, n)[k] = IF k < n THEN rs[k] ELSE rs[k + 1]
  <1> DEFINE a == SubSeq(rs, 1, n - 1)
             b == SubSeq(rs, n + 1, Len(rs))
  <1>1. a \in Seq(Rules) /\ Len(a) = n - 1 /\ \A k \in 1..(n - 1) : a[k] = rs[k]
    OBVIOUS
  <1>2. b \in Seq(Rules) /\ Len(b) = Len(rs) - n /\ \A k \in 1..(Len(rs) - n) : b[k] = rs[n + k]
    <2>1. Len(rs) \in Nat /\ n \in Nat /\ \A k \in (n + 1)..Len(rs) : rs[k] \in Rules
      OBVIOUS
    <2>2. b \in Seq(Rules) /\ Len(b) = Len(rs) - n
      BY <2>1
    <2>3. \A k \in 1..(Len(rs) - n) : b[k] = rs[(n + 1) + k - 1]
      BY <2>1
    <2>4. \A k \in 1..(Len(rs) - n) : (n + 1) + k - 1 = n + k
      BY <2>1
    <2> HIDE DEF b
    <2> QED
      BY <2>2, <2>3, <2>4
  <1>3. Wall!Dropped(rs, n) = a \o b
    BY DEF Wall!Dropped, a, b
  <1> HIDE DEF a, b
  <1>4. a \o b \in Seq(Rules) /\ Len(a \o b) = Len(rs) - 1
    <2>1. a \in Seq(Rules) /\ b \in Seq(Rules)
      BY <1>1, <1>2
    <2>2. a \o b \in Seq(Rules) /\ Len(a \o b) = Len(a) + Len(b)
      BY <2>1
    <2>3. Len(a) + Len(b) = Len(rs) - 1
      BY <1>1, <1>2
    <2> QED
      BY <2>2, <2>3
  <1>5. \A k \in 1..(Len(rs) - 1) : (a \o b)[k] = IF k < n THEN rs[k] ELSE rs[k + 1]
    <2> TAKE k \in 1..(Len(rs) - 1)
    <2>1. CASE k < n
      BY <1>1, <1>2, <2>1
    <2>2. CASE ~(k < n)
      <3>1. (a \o b)[k] = b[k - (n - 1)] /\ k - (n - 1) \in 1..(Len(rs) - n)
        BY <1>1, <1>2, <2>2
      <3> QED
        BY <1>2, <2>2, <3>1
    <2> QED
      BY <2>1, <2>2
  <1> QED
    BY <1>3, <1>4, <1>5

\* The port stays open when a rule goes that did not open it.
LEMMA DropKeepsOpen ==
    ASSUME NEW rs \in Seq(Rules), NEW n \in 1..Len(rs), NEW p,
           ~Wall!Hits(rs[n], p) \/ rs[n].act = "deny",
           Wall!Open(rs, p)
    PROVE  Wall!Open(Wall!Dropped(rs, n), p)
  <1> DEFINE ds == Wall!Dropped(rs, n)
             m == Wall!Matching(rs, p)
             d == Wall!Matching(ds, p)
  <1>1. /\ ds \in Seq(Rules) /\ Len(ds) = Len(rs) - 1
        /\ \A k \in 1..(Len(rs) - 1) : ds[k] = IF k < n THEN rs[k] ELSE rs[k + 1]
    BY DroppedIs
  <1> HIDE DEF ds
  <1>2. /\ \A k \in 1..Len(rs) : k \in m <=> Wall!Hits(rs[k], p)
        /\ m \subseteq 1..Len(rs)
    BY DEF Wall!Matching
  <1>3. /\ \A k \in 1..Len(ds) : k \in d <=> Wall!Hits(ds[k], p)
        /\ d \subseteq 1..Len(ds)
    BY <1>1 DEF Wall!Matching
  <1>4. m # {} /\ IF backend = "firewalld" THEN \A k \in m : rs[k].act = "allow"
                  ELSE rs[Wall!First(m)].act = "allow"
    BY DEF Wall!Open
  <1>5. SUFFICES d # {} /\ IF backend = "firewalld" THEN \A k \in d : ds[k].act = "allow"
                           ELSE ds[Wall!First(d)].act = "allow"
    BY DEF Wall!Open, ds
  <1> HIDE DEF m, d
  <1>6. \A k \in m : k < n => k \in d /\ ds[k] = rs[k]
    BY <1>1, <1>2, <1>3
  <1>7. \A k \in m : k > n => k - 1 \in d /\ ds[k - 1] = rs[k]
    <2> TAKE k \in m
    <2> HAVE k > n
    <2>1. k \in 1..Len(rs) /\ k - 1 \in 1..(Len(rs) - 1) /\ ~(k - 1 < n) /\ (k - 1) + 1 = k
      BY <1>2
    <2>2. ds[k - 1] = rs[k]
      BY <1>1, <2>1
    <2> QED
      BY <1>1, <1>2, <1>3, <2>1, <2>2
  <1>8. \A k \in d : IF k < n THEN k \in m /\ ds[k] = rs[k] ELSE k + 1 \in m /\ ds[k] = rs[k + 1]
    <2> TAKE k \in d
    <2>1. k \in 1..(Len(rs) - 1) /\ k \in 1..Len(rs) /\ k + 1 \in 1..Len(rs)
      BY <1>1, <1>3
    <2> QED
      BY <1>1, <1>2, <1>3, <2>1
  <1>9. CASE backend = "firewalld"
    <2>1. n \notin m
      BY <1>2, <1>4, <1>9
    <2>2. PICK k \in m : TRUE
      BY <1>4
    <2>3. d # {}
      <3>1. k \in 1..Len(rs) /\ (k < n \/ k > n)
        BY <1>2, <2>1
      <3> QED
        BY <1>6, <1>7, <3>1
    <2> QED
      BY <1>4, <1>8, <1>9, <2>3
  <1>10. CASE backend # "firewalld"
    <2> DEFINE f == Wall!First(m)
               g == Wall!First(d)
    <2>0. m \subseteq Nat /\ d \subseteq Nat
      BY <1>2, <1>3
    <2>1. f \in m /\ (\A k \in m : f <= k) /\ rs[f].act = "allow"
      BY <1>4, <1>10, <2>0, FirstIs
    <2> HIDE DEF f
    <2>2. f # n
      BY <1>2, <2>1
    <2>3. f \in 1..Len(rs) /\ (f < n \/ f > n)
      BY <1>2, <2>1, <2>2
    <2>4. d # {}
      BY <1>6, <1>7, <2>1, <2>3
    <2>5. g \in d /\ \A k \in d : g <= k
      BY <2>0, <2>4, FirstIs
    <2> HIDE DEF g
    <2>6. g \in 1..Len(ds)
      BY <1>3, <2>5
    <2>7. CASE f < n
      <3>1. g <= f
        BY <1>6, <2>1, <2>5, <2>7
      <3>2. g < n
        BY <2>3, <2>6, <2>7, <3>1
      <3>3. g \in m /\ ds[g] = rs[g]
        BY <1>8, <2>5, <3>2
      <3>4. g = f
        BY <2>1, <2>3, <2>6, <3>1, <3>3
      <3> QED
        BY <1>10, <2>1, <2>4, <3>3, <3>4 DEF g
    <2>8. CASE f > n
      <3>1. g <= f - 1
        BY <1>7, <2>1, <2>5, <2>8
      <3>2. ~(g < n)
        BY <1>8, <2>1, <2>3, <2>5, <2>6, <3>1
      <3>3. g + 1 \in m /\ ds[g] = rs[g + 1]
        BY <1>8, <2>5, <3>2
      <3>4. g + 1 = f
        BY <2>1, <2>3, <2>6, <3>1, <3>3
      <3> QED
        BY <1>10, <2>1, <2>4, <3>3, <3>4 DEF g
    <2> QED
      BY <2>3, <2>7, <2>8
  <1> QED
    BY <1>9, <1>10

\* What Added does to a list: nothing, a rule replaced in place, or one more.
LEMMA AddedIs ==
    ASSUME NEW rs \in Seq(Rules), NEW r \in Rules
    PROVE  /\ Wall!Added(rs, r) \in Seq(Rules)
           /\ Len(Wall!Added(rs, r)) \in {Len(rs), Len(rs) + 1}
           /\ \A k \in 1..Len(rs) : \/ Wall!Added(rs, r)[k] = rs[k]
                                    \/ /\ backend = "ufw" /\ Wall!Added(rs, r)[k] = r
                                       /\ rs[k].port = r.port /\ rs[k].src = r.src
           /\ \A k \in 1..Len(Wall!Added(rs, r)) : k \notin 1..Len(rs) => Wall!Added(rs, r)[k] = r
  <1> DEFINE es == Wall!Added(rs, r)
  <1>1. CASE backend = "ufw" /\ \E n \in DOMAIN rs : Wall!Same(rs[n], r)
    <2>1. es = [n \in 1..Len(rs) |-> IF Wall!Same(rs[n], r) THEN r ELSE rs[n]]
      BY <1>1 DEF Wall!Added
    <2> HIDE DEF es
    <2>2. es \in Seq(Rules) /\ Len(es) = Len(rs)
      <3>1. \A n \in 1..Len(rs) : rs[n] \in Rules
        OBVIOUS
      <3>2. es \in [1..Len(rs) -> Rules]
        BY <2>1, <3>1
      <3> QED
        BY <3>2
    <2>3. \A k \in 1..Len(rs) : es[k] = rs[k] \/ (es[k] = r /\ rs[k].port = r.port /\ rs[k].src = r.src)
      BY <2>1 DEF Wall!Same
    <2> QED
      BY <1>1, <2>2, <2>3 DEF es
  <1>2. CASE ~(backend = "ufw" /\ \E n \in DOMAIN rs : Wall!Same(rs[n], r))
    <2>1. es = rs \/ es = Append(rs, r)
      BY <1>2 DEF Wall!Added
    <2> HIDE DEF es
    <2>2. CASE es = rs
      BY <2>2 DEF es
    <2>3. CASE es = Append(rs, r)
      <3>1. es \in Seq(Rules) /\ Len(es) = Len(rs) + 1 /\ es[Len(rs) + 1] = r /\ \A k \in 1..Len(rs) : es[k] = rs[k]
        BY <2>3
      <3>2. \A k \in 1..Len(es) : k \notin 1..Len(rs) => k = Len(rs) + 1
        BY <3>1
      <3> QED
        BY <3>1, <3>2 DEF es
    <2> QED
      BY <2>1, <2>2, <2>3
  <1> QED
    BY <1>1, <1>2

\* The port stays open when a rule is added that opens, or does not match it.
LEMMA AddKeepsOpen ==
    ASSUME NEW rs \in Seq(Rules), NEW r \in Rules, NEW p,
           ~Wall!Hits(r, p) \/ r.act = "allow",
           Wall!Open(rs, p)
    PROVE  Wall!Open(Wall!Added(rs, r), p)
  <1> DEFINE es == Wall!Added(rs, r)
             m == Wall!Matching(rs, p)
             e == Wall!Matching(es, p)
  <1>1. /\ es \in Seq(Rules) /\ Len(es) \in {Len(rs), Len(rs) + 1}
        /\ \A k \in 1..Len(rs) : es[k] = rs[k] \/ (es[k] = r /\ rs[k].port = r.port /\ rs[k].src = r.src)
        /\ \A k \in 1..Len(es) : k \notin 1..Len(rs) => es[k] = r
    BY AddedIs
  <1> HIDE DEF es
  <1>2. m \subseteq 1..Len(rs) /\ \A k \in 1..Len(rs) : k \in m <=> Wall!Hits(rs[k], p)
    BY DEF Wall!Matching
  <1>3. e \subseteq 1..Len(es) /\ \A k \in 1..Len(es) : k \in e <=> Wall!Hits(es[k], p)
    BY <1>1 DEF Wall!Matching
  <1>4. m # {} /\ IF backend = "firewalld" THEN \A k \in m : rs[k].act = "allow"
                  ELSE rs[Wall!First(m)].act = "allow"
    BY DEF Wall!Open
  <1>5. SUFFICES e # {} /\ IF backend = "firewalld" THEN \A k \in e : es[k].act = "allow"
                           ELSE es[Wall!First(e)].act = "allow"
    BY DEF Wall!Open, es
  <1> HIDE DEF m, e
  <1>6. \A k \in 1..Len(rs) : k \in 1..Len(es) /\ (k \in m <=> k \in e)
    <2> TAKE k \in 1..Len(rs)
    <2>1. k \in 1..Len(es)
      BY <1>1
    <2>2. Wall!Hits(rs[k], p) <=> Wall!Hits(es[k], p)
      BY <1>1 DEF Wall!Hits
    <2> QED
      BY <1>2, <1>3, <2>1, <2>2
  <1>7. \A k \in m : rs[k].act = "allow" => es[k].act = "allow"
    BY <1>1, <1>2, <1>6, <1>3
  <1>8. \A k \in e : k \in m \/ es[k].act = "allow"
    BY <1>1, <1>3, <1>6
  <1>9. e # {} /\ m \subseteq e
    BY <1>2, <1>4, <1>6
  <1>10. CASE backend = "firewalld"
    BY <1>4, <1>7, <1>8, <1>9, <1>10
  <1>11. CASE backend # "firewalld"
    <2> DEFINE f == Wall!First(m)
               g == Wall!First(e)
    <2>1. m \subseteq Nat /\ e \subseteq Nat
      BY <1>2, <1>3
    <2>2. f \in m /\ (\A k \in m : f <= k) /\ rs[f].act = "allow"
      BY <1>4, <1>11, <2>1, FirstIs
    <2>3. g \in e /\ \A k \in e : g <= k
      BY <1>9, <2>1, FirstIs
    <2> HIDE DEF f, g
    <2>4. g \in m => g = f
      BY <1>9, <2>1, <2>2, <2>3
    <2>5. es[g].act = "allow"
      BY <1>7, <1>8, <2>2, <2>3, <2>4
    <2> QED
      BY <1>9, <1>11, <2>5 DEF g
  <1> QED
    BY <1>10, <1>11

\* Taking the rule by what it says is dropping one that says so.
LEMMA WithoutIs ==
    ASSUME NEW rs \in Seq(Rules), NEW r
    PROVE  \/ Wall!Without(rs, r) = rs
           \/ \E n \in 1..Len(rs) : rs[n] = r /\ Wall!Without(rs, r) = Wall!Dropped(rs, n)
  <1> DEFINE found == {n \in DOMAIN rs : rs[n] = r}
  <1>1. Wall!Without(rs, r) = IF found = {} THEN rs ELSE Wall!Dropped(rs, Wall!First(found))
    BY DEF Wall!Without
  <1>2. found # {} => Wall!First(found) \in found
    <2>1. found \subseteq Nat
      OBVIOUS
    <2> QED
      BY <2>1, FirstIs
  <1>3. \A n \in found : n \in 1..Len(rs) /\ rs[n] = r
    OBVIOUS
  <1> HIDE DEF found
  <1> QED
    BY <1>1, <1>2, <1>3

FwTyped ==
    /\ backend \in {"ufw", "firewalld", "iptables"} /\ ssh \in {"22", "2222"}
    /\ rules \in Seq(Rules) /\ Len(rules) <= MaxRules
    /\ saved \in Seq(Rules) /\ Len(saved) <= MaxRules
    /\ req = [at |-> req.at, do |-> req.do, spec |-> req.spec, id |-> req.id, force |-> req.force, raced |-> req.raced]
    /\ req.at \in {"idle", "apply", "reload"} /\ req.do \in {"none", "add", "delete"}
    /\ req.spec \in Rules /\ req.id \in 0..MaxRules
    /\ IsBool(req.force) /\ IsBool(req.raced) /\ IsBool(dirty)
    /\ req.at = "idle" => req = Wall!None
    /\ req.at # "idle" => req.do # "none"
    /\ fwCount \in [reqs: Nat, outside: Nat]

\* What the permanent rules become by the request in progress.
Permanent == IF req.do = "add" THEN Wall!Added(rules, req.spec) ELSE Wall!Without(rules, rules[req.id])

\* The rules in force are the saved ones, but for a firewalld that is yet to reload.
FwKept ==
    /\ req.at = "reload" => backend = "firewalld"
    /\ ~dirty => saved = IF req.at = "reload" THEN Permanent ELSE rules

\* What the guards found still holds of the request in progress.
FwGuarded ==
    req.at # "idle" /\ ~req.raced =>
        /\ req.do = "add" => \/ req.spec.act = "allow" \/ req.spec.src = "everyone"
                             \/ ~Wall!Hits(req.spec, ssh)
        /\ req.do # "add" => req.id \in 1..Len(rules) /\ (req.force = FALSE => ~Wall!Marked(rules[req.id]))

FwInv == FwTyped /\ FwKept /\ FwGuarded

\* The server comes with rules that are saved, and no request.
LEMMA FwInit == Wall!Init => FwInv
  <1> SUFFICES ASSUME Wall!Init PROVE FwInv
    OBVIOUS
  <1> DEFINE x == Wall!Allow("22")
             y == Wall!Allow("80")
             z == [Wall!Allow("22") EXCEPT !.app = TRUE]
  <1>1. x \in Rules /\ y \in Rules /\ z \in Rules
    BY FlagsAre DEF Wall!Allow, Rules, RulePorts
  <1>2. rules = <<x>> \/ rules = <<y, x>> \/ rules = <<z>>
    BY DEF Wall!Init
  <1>3. Wall!None = [at |-> "idle", do |-> "none", spec |-> y, id |-> 0, force |-> FALSE, raced |-> FALSE]
    BY DEF Wall!None
  <1> HIDE DEF x, y, z
  <1>4. rules \in Seq(Rules) /\ Len(rules) <= 2
    <2>1. <<x>> \in Seq(Rules) /\ <<z>> \in Seq(Rules) /\ <<y, x>> \in Seq(Rules)
      BY <1>1
    <2>2. Len(<<x>>) <= 2 /\ Len(<<z>>) <= 2 /\ Len(<<y, x>>) <= 2
      OBVIOUS
    <2> QED
      BY <1>2, <2>1, <2>2, Zenon
  <1>5. FwTyped
    <2>1. /\ req = [at |-> "idle", do |-> "none", spec |-> y, id |-> 0, force |-> FALSE, raced |-> FALSE]
          /\ req = Wall!None
      BY <1>3 DEF Wall!Init
    <2>2. req.at = "idle" /\ req.do = "none" /\ req.spec \in Rules /\ req.id = 0 /\ req.force = FALSE /\ req.raced = FALSE
      BY <1>1, <2>1
    <2>3. req = [at |-> req.at, do |-> req.do, spec |-> req.spec, id |-> req.id, force |-> req.force, raced |-> req.raced]
      BY <2>1
    <2>4. fwCount \in [reqs: Nat, outside: Nat] /\ saved = rules /\ dirty = FALSE
      BY DEF Wall!Init
    <2>5. backend \in {"ufw", "firewalld", "iptables"} /\ ssh \in {"22", "2222"}
      BY DEF Wall!Init
    <2>6. IsBool(req.force) /\ IsBool(req.raced) /\ IsBool(dirty)
      BY <2>2, <2>4 DEF IsBool
    <2>7. req.at = "idle" /\ req.do = "none" /\ req.spec \in Rules /\ req.id \in 0..MaxRules
      BY <2>2, MaxRulesIs
    <2>8. rules \in Seq(Rules) /\ Len(rules) <= MaxRules /\ saved = rules
      BY <1>4, <2>4, MaxRulesIs
    <2>9. req = Wall!None /\ fwCount \in [reqs: Nat, outside: Nat]
      BY <2>1, <2>4
    <2> QED
      BY <2>3, <2>5, <2>6, <2>7, <2>8, <2>9 DEF FwTyped
  <1>6. FwKept /\ FwGuarded
    BY <1>3 DEF FwKept, FwGuarded, Wall!Init
  <1> QED
    BY <1>5, <1>6 DEF FwInv

\* A request that passed its checks keeps the invariant.
LEMMA FwRequests ==
    ASSUME FwInv,
           \/ \E spec \in Wall!Specs : Wall!FirewallAllow(spec) \/ Wall!FirewallDeny(spec)
           \/ \E id \in 1..MaxRules, force \in BOOLEAN : Wall!FirewallDelete(id, force)
    PROVE  FwInv'
  <1> USE MaxRulesIs, FlagsAre DEF FwInv, IsBool
  <1>0. Wall!None.spec \in Rules
    BY DEF Wall!None, Wall!Allow, Rules, RulePorts
  <1>1. ASSUME NEW spec \in Wall!Specs, Wall!FirewallAllow(spec) \/ Wall!FirewallDeny(spec) PROVE FwInv'
    <2>1. /\ req.at = "idle" /\ UNCHANGED <<backend, rules, saved, ssh, dirty>>
          /\ fwCount' = [fwCount EXCEPT !.reqs = @ + 1]
          /\ req' = [at |-> "apply", do |-> "add", spec |-> Wall!Rule(spec, FALSE), id |-> 0,
                     force |-> FALSE, raced |-> FALSE]
      BY <1>1 DEF Wall!FirewallAllow, Wall!FirewallDeny, Wall!Begins, Wall!None
    <2>2. Wall!Rule(spec, FALSE) \in Rules
      BY <1>1 DEF Wall!Rule, Wall!Specs, Wall!Ports, Rules, RulePorts
    <2>3. FwTyped'
      <3>0. req'.spec = Wall!Rule(spec, FALSE)
        BY <2>1
      <3>1. req'.force = FALSE /\ req'.raced = FALSE
        BY <2>1
      <3>2. req' = [at |-> req'.at, do |-> req'.do, spec |-> req'.spec, id |-> req'.id, force |-> req'.force,
                    raced |-> req'.raced]
        BY <2>1
      <3>3. req'.at = "apply" /\ req'.do = "add" /\ req'.id = 0
        BY <2>1
      <3>4. UNCHANGED <<backend, rules, saved, ssh, dirty>> /\ fwCount' \in [reqs: Nat, outside: Nat]
        BY <2>1 DEF FwTyped
      <3>5. IsBool(req'.force) /\ IsBool(req'.raced) /\ IsBool(dirty')
        BY <3>1, <3>4 DEF FwTyped
      <3>6. req'.spec \in Rules /\ req'.id \in 0..MaxRules
        <4>1. req'.spec \in Rules
          BY <2>2, <3>0
        <4>2. req'.id \in 0..MaxRules
          BY <3>3, MaxRulesIs
        <4> QED
          BY <4>1, <4>2
      <3> HIDE DEF IsBool
      <3> QED
        BY <3>2, <3>3, <3>4, <3>5, <3>6 DEF FwTyped
    <2>4. FwKept'
      BY <2>1 DEF FwKept
    <2>5. spec.act = "allow" \/ spec.src = "everyone" \/ ~Wall!Hits(Wall!Rule(spec, FALSE), ssh)
      <3>1. Wall!Rule(spec, FALSE).port = spec.port /\ Wall!Rule(spec, FALSE).src = spec.src
        BY DEF Wall!Rule
      <3>2. CASE Wall!FirewallAllow(spec)
        BY <3>2 DEF Wall!FirewallAllow
      <3>3. CASE Wall!FirewallDeny(spec) /\ spec.src = "world"
        <4>1. spec.port # "" /\ ~Wall!Covers(spec.port, ssh)
          BY <3>3 DEF Wall!FirewallDeny, Wall!Valid, Wall!DenyRefused, Wall!Protected
        <4> QED
          BY <3>1, <4>1 DEF Wall!Hits, Wall!Covers
      <3>4. CASE spec.src \in {"one", "everyone"}
        BY <3>1, <3>4 DEF Wall!Hits
      <3> QED
        BY <1>1, <3>2, <3>3, <3>4 DEF Wall!Specs
    <2>6. FwGuarded'
      BY <2>1, <2>5 DEF FwGuarded, Wall!Rule, Wall!Hits
    <2> QED
      BY <2>3, <2>4, <2>6
  <1>2. ASSUME NEW id \in 1..MaxRules, NEW force \in BOOLEAN, Wall!FirewallDelete(id, force) PROVE FwInv'
    <2>1. /\ req.at = "idle" /\ UNCHANGED <<backend, rules, saved, ssh, dirty>>
          /\ fwCount' = [fwCount EXCEPT !.reqs = @ + 1]
          /\ req' = [at |-> "apply", do |-> "delete", spec |-> Wall!None.spec, id |-> id,
                     force |-> force, raced |-> FALSE]
          /\ id \in DOMAIN rules /\ (Wall!Marked(rules[id]) => force)
      BY <1>2 DEF Wall!FirewallDelete, Wall!Begins, Wall!None
    <2>2. IsBool(force)
      BY Zenon
    <2>3. FwTyped'
      BY <1>0, <1>2, <2>1, <2>2 DEF FwTyped
    <2>4. FwKept'
      BY <2>1 DEF FwKept
    <2>5. id \in 1..Len(rules)
      BY <2>1 DEF FwTyped
    <2>6. FwGuarded'
      BY <2>1, <2>2, <2>5 DEF FwGuarded, Wall!Marked, Wall!HasId, Wall!Protected, Wall!Listed
    <2> QED
      BY <2>3, <2>4, <2>6
  <1> QED
    BY <1>1, <1>2

\* A step that ends the request keeps the invariant if it keeps the two lists in step.
LEMMA FwEnds ==
    ASSUME FwInv, req' = Wall!None, UNCHANGED <<backend, ssh, fwCount>>,
           rules' \in Seq(Rules), Len(rules') <= MaxRules, saved' \in Seq(Rules), Len(saved') <= MaxRules,
           IsBool(dirty'), ~dirty' => saved' = rules'
    PROVE  FwInv'
  <1>1. Wall!None.spec \in Rules
    BY FlagsAre DEF Wall!None, Wall!Allow, Rules, RulePorts
  <1>2. /\ req' = [at |-> req'.at, do |-> req'.do, spec |-> req'.spec, id |-> req'.id, force |-> req'.force,
                   raced |-> req'.raced]
        /\ req'.at = "idle" /\ req'.do = "none"
    BY DEF Wall!None
  <1>3. req'.id \in 0..MaxRules
    <2>1. req'.id = 0
      BY DEF Wall!None
    <2> QED
      BY <2>1, MaxRulesIs
  <1>4. IsBool(req'.force) /\ IsBool(req'.raced)
    BY DEF Wall!None, IsBool
  <1>5. Wall!None' = Wall!None
    BY DEF Wall!None, Wall!Allow
  <1>6. FwTyped'
    BY <1>1, <1>2, <1>3, <1>4, <1>5 DEF FwInv, FwTyped
  <1>7. FwKept' /\ FwGuarded'
    BY <1>2 DEF FwKept, FwGuarded
  <1> QED
    BY <1>6, <1>7 DEF FwInv

\* ufw and iptables: the command, and what it saves.
LEMMA FwApply == FwInv /\ Wall!Apply => FwInv'
  <1> SUFFICES ASSUME FwInv, Wall!Apply PROVE FwInv'
    OBVIOUS
  <1>1. req' = Wall!None /\ UNCHANGED <<backend, ssh, fwCount>>
    BY DEF Wall!Apply
  <1>2. rules' \in Seq(Rules) /\ Len(rules') <= MaxRules
    <2>1. CASE req.do = "add"
      <3>1. rules' = Wall!Added(rules, req.spec) /\ Len(rules) < MaxRules
        BY <2>1 DEF Wall!Apply, Wall!Result, Wall!CanApply
      <3>2. rules \in Seq(Rules) /\ req.spec \in Rules
        BY DEF FwInv, FwTyped
      <3>3. rules' \in Seq(Rules) /\ Len(rules') \in {Len(rules), Len(rules) + 1}
        BY <3>1, <3>2, AddedIs
      <3>4. Len(rules) \in Nat
        BY <3>2
      <3> QED
        BY <3>1, <3>3, <3>4, MaxRulesIs
    <2>2. CASE req.do # "add"
      <3>1. rules' = Wall!Dropped(rules, req.id)
        BY <2>2 DEF Wall!Apply, Wall!Result
      <3>2. rules \in Seq(Rules) /\ Len(rules) <= MaxRules
        BY DEF FwInv, FwTyped
      <3>3. req.id \in 1..Len(rules)
        BY <2>2, <3>2 DEF Wall!Apply, Wall!CanApply, FwInv, FwTyped
      <3>4. rules' \in Seq(Rules) /\ Len(rules') = Len(rules) - 1
        BY <3>1, <3>2, <3>3, DroppedIs
      <3>5. Len(rules) \in Nat
        BY <3>2
      <3> QED
        BY <3>2, <3>4, <3>5, MaxRulesIs
    <2> QED
      BY <2>1, <2>2
  <1>3. CASE saved' = rules' /\ UNCHANGED dirty
    BY <1>1, <1>2, <1>3, FwEnds DEF FwInv, FwTyped
  <1>4. CASE UNCHANGED saved /\ dirty' = TRUE
    <2>1. IsBool(dirty') /\ (~dirty' => saved' = rules')
      BY <1>4 DEF IsBool
    <2>2. saved' \in Seq(Rules) /\ Len(saved') <= MaxRules
      BY <1>4 DEF FwInv, FwTyped
    <2> QED
      BY <1>1, <1>2, <2>1, <2>2, FwEnds
  <1> QED
    BY <1>3, <1>4 DEF Wall!Apply, Wall!Persisted

\* firewalld: the permanent rules first.
LEMMA FwApplyPermanent == FwInv /\ Wall!ApplyPermanent => FwInv'
  <1> SUFFICES ASSUME FwInv, Wall!ApplyPermanent PROVE FwInv'
    OBVIOUS
  <1>1. /\ UNCHANGED <<backend, rules, ssh, dirty, fwCount>> /\ req' = [req EXCEPT !.at = "reload"]
        /\ req.at = "apply" /\ backend = "firewalld"
    BY DEF Wall!ApplyPermanent
  <1>2. saved' \in Seq(Rules) /\ Len(saved') <= MaxRules
    <2>0. saved \in Seq(Rules) /\ Len(saved) <= MaxRules /\ Len(saved) \in Nat
      BY DEF FwInv, FwTyped
    <2>1. CASE req.do = "add"
      <3>1. saved' = Wall!Added(saved, req.spec) /\ Len(saved) < MaxRules
        BY <2>1 DEF Wall!ApplyPermanent, Wall!CanApply
      <3>2. req.spec \in Rules
        BY DEF FwInv, FwTyped
      <3>3. saved' \in Seq(Rules) /\ Len(saved') \in {Len(saved), Len(saved) + 1}
        BY <2>0, <3>1, <3>2, AddedIs
      <3> QED
        BY <2>0, <3>1, <3>3, MaxRulesIs
    <2>2. CASE req.do # "add"
      <3>1. saved' = Wall!Without(saved, rules[req.id])
        BY <2>2 DEF Wall!ApplyPermanent
      <3>2. CASE saved' = saved
        BY <2>0, <3>2
      <3>3. CASE \E n \in 1..Len(saved) : saved' = Wall!Dropped(saved, n)
        BY <2>0, <3>3, DroppedIs, MaxRulesIs
      <3> QED
        BY <2>0, <3>1, <3>2, <3>3, WithoutIs
    <2> QED
      BY <2>1, <2>2
  <1>3. /\ req'.at = "reload" /\ req'.do = req.do /\ req'.spec = req.spec /\ req'.id = req.id
        /\ req'.force = req.force /\ req'.raced = req.raced
        /\ req' = [at |-> req'.at, do |-> req'.do, spec |-> req'.spec, id |-> req'.id, force |-> req'.force,
                   raced |-> req'.raced]
    BY <1>1 DEF FwInv, FwTyped
  <1>4. FwTyped'
    BY <1>1, <1>2, <1>3 DEF FwInv, FwTyped
  <1>5. FwKept'
    <2>1. ~dirty => saved = rules
      BY <1>1 DEF FwInv, FwKept
    <2>2. ~dirty => saved' = Permanent
      BY <2>1 DEF Permanent, Wall!ApplyPermanent
    <2>3. Permanent' = Permanent
      BY <1>1, <1>3 DEF Permanent, Wall!Added, Wall!Without, Wall!Same, Wall!Dropped, Wall!First
    <2> QED
      BY <1>1, <1>3, <2>2, <2>3 DEF FwKept
  <1>6. FwGuarded'
    BY <1>1, <1>3 DEF FwInv, FwGuarded, Wall!Hits, Wall!Marked, Wall!HasId, Wall!Protected, Wall!Listed
  <1> QED
    BY <1>4, <1>5, <1>6 DEF FwInv

\* The reload, a command that fails, and a reboot.
LEMMA FwReloadFailReboot == FwInv /\ (Wall!ReloadRules \/ Wall!Fails \/ Wall!Reboots) => FwInv'
  <1> SUFFICES ASSUME FwInv, Wall!ReloadRules \/ Wall!Fails \/ Wall!Reboots PROVE FwInv'
    OBVIOUS
  <1>1. /\ rules \in Seq(Rules) /\ Len(rules) <= MaxRules /\ saved \in Seq(Rules) /\ Len(saved) <= MaxRules
        /\ IsBool(dirty)
    BY DEF FwInv, FwTyped
  <1>2. req' = Wall!None /\ UNCHANGED <<backend, ssh, fwCount, saved>>
    BY DEF Wall!ReloadRules, Wall!Fails, Wall!Reboots
  <1>3. CASE rules' = saved /\ UNCHANGED dirty
    BY <1>1, <1>2, <1>3, FwEnds
  <1>4. CASE UNCHANGED rules /\ dirty' = TRUE
    <2>1. IsBool(dirty') /\ (~dirty' => saved' = rules')
      BY <1>4 DEF IsBool
    <2> QED
      BY <1>1, <1>2, <1>4, <2>1, FwEnds
  <1>5. CASE rules' = saved /\ dirty' = FALSE
    <2>1. IsBool(dirty')
      BY <1>5 DEF IsBool
    <2> QED
      BY <1>1, <1>2, <1>5, <2>1, FwEnds
  <1>6. CASE Wall!Fails
    <2>1. UNCHANGED <<rules, dirty>> /\ req.at = "apply"
      BY <1>6 DEF Wall!Fails
    <2>2. ~dirty => saved = rules
      BY <2>1 DEF FwInv, FwKept
    <2> QED
      BY <1>1, <1>2, <2>1, <2>2, FwEnds
  <1> QED
    BY <1>3, <1>4, <1>5, <1>6 DEF Wall!ReloadRules, Wall!Reboots

\* Somebody at a shell: the request in progress is not answerable for it.
LEMMA FwShell == FwInv /\ Wall!ShellEdits => FwInv'
  <1> SUFFICES ASSUME FwInv, Wall!ShellEdits PROVE FwInv'
    OBVIOUS
  <1>1. /\ UNCHANGED <<backend, ssh>> /\ fwCount' = [fwCount EXCEPT !.outside = @ + 1]
        /\ req' = IF req.at = "idle" THEN req ELSE [req EXCEPT !.raced = TRUE]
        /\ saved' = IF backend = "ufw" THEN rules' ELSE saved
    BY DEF Wall!ShellEdits, Wall!Raced
  <1>2. rules' \in Seq(Rules) /\ Len(rules') <= MaxRules
    <2>1. rules \in Seq(Rules) /\ Len(rules) <= MaxRules /\ Len(rules) \in Nat
      BY DEF FwInv, FwTyped
    <2>2. ASSUME Len(rules) < MaxRules, NEW p \in RulePorts, rules' = <<Wall!Allow(p)>> \o rules
          PROVE  rules' \in Seq(Rules) /\ Len(rules') <= MaxRules
      <3> DEFINE a == Wall!Allow(p)
      <3>1. a \in Rules
        BY FlagsAre DEF Wall!Allow, Rules
      <3> HIDE DEF a
      <3>2. <<a>> \in Seq(Rules) /\ Len(<<a>>) = 1
        BY <3>1
      <3>3. rules' = <<a>> \o rules
        BY <2>2 DEF a
      <3>4. rules' \in Seq(Rules) /\ Len(rules') = 1 + Len(rules)
        BY <2>1, <3>2, <3>3
      <3> QED
        BY <2>1, <2>2, <3>4, MaxRulesIs
    <2>3. ASSUME NEW n \in DOMAIN rules, rules' = Wall!Dropped(rules, n)
          PROVE  rules' \in Seq(Rules) /\ Len(rules') <= MaxRules
      <3>1. n \in 1..Len(rules)
        BY <2>1
      <3> QED
        BY <2>1, <2>3, <3>1, DroppedIs, MaxRulesIs
    <2> QED
      BY <2>2, <2>3 DEF Wall!ShellEdits, Wall!Ports, RulePorts
  <1>3. IsBool(dirty') /\ (~dirty' => ~dirty /\ backend = "ufw")
    BY Zenon DEF FwInv, FwTyped, IsBool, Wall!ShellEdits
  <1>4. /\ req'.at = req.at /\ req'.do = req.do /\ req'.spec = req.spec /\ req'.id = req.id
        /\ req'.force = req.force
        /\ req' = [at |-> req'.at, do |-> req'.do, spec |-> req'.spec, id |-> req'.id, force |-> req'.force,
                   raced |-> req'.raced]
    BY <1>1 DEF FwInv, FwTyped
  <1>5. IsBool(req'.raced) /\ (req.at # "idle" => req'.raced = TRUE) /\ (req.at = "idle" => req' = Wall!None)
    <2>1. CASE req.at = "idle"
      BY <1>1, <2>1 DEF FwInv, FwTyped
    <2>2. CASE req.at # "idle"
      <3>1. req' = [at |-> req.at, do |-> req.do, spec |-> req.spec, id |-> req.id, force |-> req.force, raced |-> TRUE]
        BY <1>1, <2>2 DEF FwInv, FwTyped
      <3>2. req'.raced = TRUE
        BY <3>1
      <3> QED
        BY <2>2, <3>2 DEF IsBool
    <2> QED
      BY <2>1, <2>2
  <1>6. saved' \in Seq(Rules) /\ Len(saved') <= MaxRules
    BY <1>1, <1>2 DEF FwInv, FwTyped
  <1>7. fwCount' \in [reqs: Nat, outside: Nat]
    BY <1>1 DEF FwInv, FwTyped
  <1>8. Wall!None' = Wall!None
    BY DEF Wall!None, Wall!Allow
  <1>9. FwTyped'
    BY <1>1, <1>2, <1>3, <1>4, <1>5, <1>6, <1>7, <1>8 DEF FwInv, FwTyped
  <1>10. FwKept'
    <2>1. ~dirty' => saved' = rules' /\ req'.at # "reload"
      BY <1>1, <1>3, <1>4 DEF FwInv, FwKept
    <2> QED
      BY <1>1, <1>4, <2>1 DEF FwInv, FwKept
  <1>11. FwGuarded'
    BY <1>4, <1>5 DEF FwGuarded
  <1> QED
    BY <1>9, <1>10, <1>11 DEF FwInv

\* sshd moves: the same.
LEMMA FwSshMoves == FwInv /\ Wall!SshMoves => FwInv'
  <1> SUFFICES ASSUME FwInv, Wall!SshMoves PROVE FwInv'
    OBVIOUS
  <1>1. /\ UNCHANGED <<backend, rules, saved, dirty>> /\ fwCount' = [fwCount EXCEPT !.outside = @ + 1]
        /\ req' = IF req.at = "idle" THEN req ELSE [req EXCEPT !.raced = TRUE]
        /\ ssh' \in {"22", "2222"}
    BY DEF Wall!SshMoves, Wall!Raced
  <1>4. /\ req'.at = req.at /\ req'.do = req.do /\ req'.spec = req.spec /\ req'.id = req.id
        /\ req'.force = req.force
        /\ req' = [at |-> req'.at, do |-> req'.do, spec |-> req'.spec, id |-> req'.id, force |-> req'.force,
                   raced |-> req'.raced]
    BY <1>1 DEF FwInv, FwTyped
  <1>5. IsBool(req'.raced) /\ (req.at # "idle" => req'.raced = TRUE) /\ (req.at = "idle" => req' = Wall!None)
    <2>1. CASE req.at = "idle"
      BY <1>1, <2>1 DEF FwInv, FwTyped
    <2>2. CASE req.at # "idle"
      <3>1. req' = [at |-> req.at, do |-> req.do, spec |-> req.spec, id |-> req.id, force |-> req.force, raced |-> TRUE]
        BY <1>1, <2>2 DEF FwInv, FwTyped
      <3>2. req'.raced = TRUE
        BY <3>1
      <3> QED
        BY <2>2, <3>2 DEF IsBool
    <2> QED
      BY <2>1, <2>2
  <1>7. fwCount' \in [reqs: Nat, outside: Nat]
    BY <1>1 DEF FwInv, FwTyped
  <1>8. Wall!None' = Wall!None
    BY DEF Wall!None, Wall!Allow
  <1>9. FwTyped'
    BY <1>1, <1>4, <1>5, <1>7, <1>8 DEF FwInv, FwTyped
  <1>10. FwKept'
    <2>1. Permanent' = Permanent
      BY <1>1, <1>4 DEF Permanent, Wall!Added, Wall!Without, Wall!Same, Wall!Dropped, Wall!First
    <2> QED
      BY <1>1, <1>4, <2>1 DEF FwInv, FwKept
  <1>11. FwGuarded'
    BY <1>4, <1>5 DEF FwGuarded
  <1> QED
    BY <1>9, <1>10, <1>11 DEF FwInv

\* A step of another part leaves the firewall alone.
LEMMA FwStutters == FwInv /\ UNCHANGED fwVars => FwInv'
  <1> SUFFICES ASSUME FwInv, UNCHANGED fwVars PROVE FwInv'
    OBVIOUS
  <1>1. UNCHANGED <<backend, rules, saved, ssh, req, dirty, fwCount>>
    BY DEF fwVars
  <1>2. FwTyped'
    BY <1>1 DEF FwInv, FwTyped, Wall!None, Wall!Allow, IsBool
  <1>3. FwKept'
    BY <1>1 DEF FwInv, FwKept, Permanent, Wall!Added, Wall!Without, Wall!Same, Wall!Dropped, Wall!First
  <1>4. FwGuarded'
    BY <1>1 DEF FwInv, FwGuarded, Wall!Hits, Wall!Marked, Wall!HasId, Wall!Protected, Wall!Listed
  <1> QED
    BY <1>2, <1>3, <1>4 DEF FwInv

\* A rule that is not marked as protected does not open sshd's port, unless it
\* is a profile.
LEMMA UnmarkedIs ==
    ASSUME NEW r \in Rules, ~r.app, ~Wall!Marked(r)
    PROVE  ~Wall!Hits(r, ssh) \/ r.act = "deny"
  <1>1. Wall!Listed(r) = r.port /\ Wall!HasId(r)
    BY DEF Wall!Listed, Wall!HasId
  <1>2. r.act = "allow" \/ r.act = "deny"
    BY DEF Rules
  <1>3. ssh \in Wall!Protected
    BY DEF Wall!Protected
  <1>4. r.act = "allow" => ~Wall!Covers(r.port, ssh)
    BY <1>1, <1>3 DEF Wall!Marked
  <1> QED
    BY <1>2, <1>4 DEF Wall!Covers, Wall!Hits

\* What the panel does unasked does not close sshd's port.
LEMMA FwSshStep ==
    ASSUME FwInv, Wall!Next, Wall!ByPanel, ~req.force, req.spec.src # "everyone",
           \A n \in DOMAIN rules : ~rules[n].app, Wall!Open(rules, ssh)
    PROVE  Wall!Open(rules', ssh)
  <1>1. /\ fwCount' = fwCount /\ req # Wall!None /\ ~req.raced /\ ~(dirty /\ rules' = saved)
        /\ rules \in Seq(Rules) /\ req.spec \in Rules /\ req.at # "idle" /\ req.force = FALSE
    <2>1. req.force = FALSE
      BY DEF FwInv, FwTyped, IsBool
    <2>2. fwCount' = fwCount /\ req # Wall!None /\ ~req.raced /\ ~(dirty /\ rules' = saved)
      BY DEF Wall!ByPanel
    <2>3. rules \in Seq(Rules) /\ req.spec \in Rules /\ req.at # "idle"
      BY <2>2 DEF FwInv, FwTyped
    <2> QED
      BY <2>1, <2>2, <2>3, Zenon
  <1>2. req.do = "add" => Wall!Open(Wall!Added(rules, req.spec), ssh)
    BY <1>1, AddKeepsOpen DEF FwInv, FwGuarded
  <1>3. ASSUME NEW n \in 1..Len(rules), ~Wall!Marked(rules[n])
        PROVE  Wall!Open(Wall!Dropped(rules, n), ssh)
    <2>1. rules[n] \in Rules /\ ~rules[n].app
      BY <1>1
    <2>2. ~Wall!Hits(rules[n], ssh) \/ rules[n].act = "deny"
      BY <1>3, <2>1, UnmarkedIs
    <2> QED
      BY <1>1, <2>2, DropKeepsOpen
  <1>4. req.do # "add" => req.id \in 1..Len(rules) /\ ~Wall!Marked(rules[req.id])
    BY <1>1 DEF FwInv, FwGuarded
  <1>5. CASE rules' = rules
    BY <1>5
  <1>6. CASE rules' = Wall!Result(rules)
    BY <1>2, <1>3, <1>4, <1>6 DEF Wall!Result
  <1>7. CASE rules' = saved
    <2>1. ~dirty
      BY <1>1, <1>7
    <2>2. CASE req.at # "reload"
      BY <1>5, <1>7, <2>1, <2>2 DEF FwInv, FwKept
    <2>3. CASE req.at = "reload"
      <3>1. rules' = Permanent
        BY <1>7, <2>1, <2>3 DEF FwInv, FwKept
      <3>2. CASE req.do = "add"
        BY <1>2, <3>1, <3>2 DEF Permanent
      <3>3. CASE req.do # "add"
        <4>1. rules' = Wall!Without(rules, rules[req.id])
          BY <3>1, <3>3 DEF Permanent
        <4>2. rules' = rules \/ \E n \in 1..Len(rules) : rules[n] = rules[req.id] /\ rules' = Wall!Dropped(rules, n)
          BY <1>1, <4>1, WithoutIs
        <4>3. ASSUME NEW n \in 1..Len(rules), rules[n] = rules[req.id], rules' = Wall!Dropped(rules, n)
              PROVE  Wall!Open(rules', ssh)
          BY <1>3, <1>4, <3>3, <4>3
        <4> QED
          BY <1>5, <4>2, <4>3
      <3> QED
        BY <3>2, <3>3
    <2> QED
      BY <2>2, <2>3
  <1>8. CASE fwCount' = [fwCount EXCEPT !.outside = @ + 1]
    <2>1. fwCount \in [reqs: Nat, outside: Nat] /\ fwCount' = fwCount
      BY <1>1 DEF FwInv, FwTyped
    <2>2. fwCount'.outside = fwCount.outside + 1 /\ fwCount.outside \in Nat
      BY <1>8, <2>1
    <2> QED
      BY <2>1, <2>2
  <1> QED
    BY <1>5, <1>6, <1>7, <1>8 DEF Wall!Next, Wall!FirewallAllow, Wall!FirewallDeny, Wall!FirewallDelete, Wall!Apply,
       Wall!ApplyPermanent, Wall!ReloadRules, Wall!Fails, Wall!ShellEdits, Wall!SshMoves, Wall!Reboots

\* Every step of the firewall keeps the invariant.
LEMMA FwStep == FwInv /\ Wall!Next => FwInv'
  BY FwRequests, FwApply, FwApplyPermanent, FwReloadFailReboot, FwShell, FwSshMoves DEF Wall!Next

\* What the panel does unasked never closes sshd's port, and a change it
\* reported survives a reboot: FirewallSound, for any number of rules,
\* requests and edits at a shell.
THEOREM HostFirewallSound == HostSpec => FirewallSound
  <1> DEFINE hostVars == <<focus, jobVars, pluginVars, fwVars, siteVars, updateVars, fileVars, cronVars, unitVars>>
             P == Wall!ByPanel /\ ~req.force /\ req.spec.src # "everyone" /\ (\A n \in DOMAIN rules : ~rules[n].app)
                  /\ Wall!Open(rules, ssh) => Wall!Open(rules', ssh)
             Kept == focus = "firewall" => Wall!TypeOK /\ Wall!KeptOnReboot
  <1>1. HostInit => FwInv
    BY FwInit DEF HostInit
  <1>2. FwInv /\ [HostNext]_hostVars => FwInv'
    BY FwStep, FwStutters DEF HostNext
  <1>3. FwInv => Kept
    <2> SUFFICES ASSUME FwInv PROVE Wall!TypeOK /\ Wall!KeptOnReboot
      OBVIOUS
    <2>1. Wall!TypeOK
      <3>1. {req.force, req.raced, dirty} \subseteq BOOLEAN
        BY Booleans, Zenon DEF FwInv, FwTyped
      <3>2. \A n \in DOMAIN rules : rules[n].act \in {"allow", "deny"}
        <4>1. \A n \in DOMAIN rules : rules[n] \in Rules
          BY DEF FwInv, FwTyped
        <4> QED
          BY <4>1 DEF Rules
      <3> QED
        BY <3>1, <3>2 DEF FwInv, FwTyped, Wall!TypeOK
    <2>2. Wall!KeptOnReboot
      BY DEF FwInv, FwKept, Wall!KeptOnReboot, Wall!None
    <2> QED
      BY <2>1, <2>2
  <1>4. FwInv /\ [HostNext]_hostVars => [P]_(Wall!fwVars)
    <2> SUFFICES ASSUME FwInv, [HostNext]_hostVars PROVE [P]_(Wall!fwVars)
      OBVIOUS
    <2>1. Wall!fwVars = fwVars
      BY DEF Wall!fwVars, fwVars
    <2>2. CASE UNCHANGED fwVars
      BY <2>2 DEF Wall!fwVars, fwVars
    <2>3. CASE Wall!Next
      BY <2>3, FwSshStep
    <2> QED
      BY <2>2, <2>3 DEF HostNext
  <1>5. Wall!SshStaysOpen <=> [][P]_(Wall!fwVars)
    BY DEF Wall!SshStaysOpen
  <1>6. FirewallSound <=> []Kept /\ Wall!SshStaysOpen
    BY DEF FirewallSound
  <1> HIDE DEF P, Kept
  <1> QED
    BY <1>1, <1>2, <1>3, <1>4, <1>5, <1>6, PTL DEF HostSpec

-----------------------------------------------------------------------------
(* Caddy's sites (CaddySites).                                             *)

SiteBlocks == Site!Contents \cup {Site!Absent}
SiteFiles == SiteIds \cup {"main"}
SiteConfigs == [SiteFiles -> SiteBlocks]

\* The shape of a request, of the form or of the raw editor.
SiteRequest(r, ats) ==
    /\ r = [at |-> r.at, file |-> r.file, new |-> r.new, prev |-> r.prev, good |-> r.good]
    /\ r.at \in ats /\ r.file \in SiteFiles /\ r.new \in SiteBlocks /\ r.prev \in SiteBlocks
    /\ r.at = "idle" => r = Site!Idle

SiteTyped ==
    /\ siteDisk \in SiteConfigs /\ running \in SiteConfigs
    /\ SiteRequest(form, {"idle", "write", "reload", "quiet"})
    /\ SiteRequest(raw, {"idle", "validate", "reload", "again"})
    /\ IsBool(err) /\ IsBool(unsure)

\* What putting the old text back would leave.
PutBack == [siteDisk EXCEPT ![raw.file] = raw.prev]

\* A raw edit has the configuration to itself, and at each of its steps what
\* it ends with is as good as what it began with.
RawStaged ==
    ~unsure /\ raw.at # "idle" =>
        /\ form = Site!Idle
        /\ raw.at \in {"validate", "reload"} /\ raw.good => Site!Accepts(PutBack)
        /\ raw.at = "reload" => Site!Accepts(siteDisk)
        /\ raw.at = "again" /\ raw.good => Site!Accepts(siteDisk)

SiteInv == SiteTyped /\ RawStaged /\ Site!ServedAsSaved

\* No request is the request Idle.
LEMMA SiteIdleIs ==
    /\ Site!Idle.at = "idle" /\ SiteRequest(Site!Idle, {"idle", "write", "reload", "quiet"})
    /\ SiteRequest(Site!Idle, {"idle", "validate", "reload", "again"})
  BY DEF Site!Idle, Site!Main, SiteRequest, SiteFiles, SiteBlocks

\* The server comes with a Caddyfile that Caddy has loaded.
LEMMA SiteInit == Site!Init => SiteInv
  <1> SUFFICES ASSUME Site!Init PROVE SiteInv
    OBVIOUS
  <1>1. /\ running = siteDisk /\ form = Site!Idle /\ raw = Site!Idle /\ err = FALSE /\ unsure = FALSE
        /\ \E d \in SUBSET Domains :
             siteDisk = [f \in SiteFiles |-> IF f = "main" /\ d # {} THEN [doms |-> d, st |-> "good"] ELSE Site!Absent]
    BY DEF Site!Init, Site!Files, Site!Main, SiteFiles
  <1>2. siteDisk \in SiteConfigs
    <2>1. PICK d \in SUBSET Domains :
             siteDisk = [f \in SiteFiles |-> IF f = "main" /\ d # {} THEN [doms |-> d, st |-> "good"] ELSE Site!Absent]
      BY <1>1
    <2>2. Site!Absent \in SiteBlocks /\ (d # {} => [doms |-> d, st |-> "good"] \in SiteBlocks)
      BY DEF SiteBlocks, Site!Contents
    <2> QED
      BY <2>1, <2>2 DEF SiteConfigs
  <1>3. IsBool(err) /\ IsBool(unsure)
    BY <1>1 DEF IsBool
  <1>4. SiteTyped
    BY <1>1, <1>2, <1>3, SiteIdleIs, Zenon DEF SiteTyped
  <1>5. RawStaged /\ Site!ServedAsSaved
    BY <1>1, SiteIdleIs, Zenon DEF RawStaged, Site!ServedAsSaved
  <1> QED
    BY <1>4, <1>5 DEF SiteInv

\* Changing one file of a configuration gives a configuration.
LEMMA SiteEdits ==
    ASSUME NEW d \in SiteConfigs, NEW f \in SiteFiles, NEW c \in SiteBlocks
    PROVE  [d EXCEPT ![f] = c] \in SiteConfigs /\ [[d EXCEPT ![f] = c] EXCEPT ![f] = d[f]] = d
  BY DEF SiteConfigs

\* The form writes and takes away sites; what it does with another request in
\* progress is not covered.
LEMMA SiteFormStep ==
    ASSUME SiteInv,
           \/ \E f \in SiteIds : Site!DeleteSite(f) \/ \E d \in Domains : Site!AddSite(f, d) \/ Site!UpdateSite(f, d)
           \/ Site!FormWrites
    PROVE  SiteInv'
  <1>1. ASSUME NEW f \in SiteIds, NEW d \in Domains, Site!AddSite(f, d) \/ Site!UpdateSite(f, d) PROVE SiteInv'
    <2> DEFINE c == [doms |-> {d}, st |-> "good"]
    <2>1. /\ form' = [Site!Idle EXCEPT !.at = "write", !.file = f, !.new = c]
          /\ UNCHANGED <<siteDisk, running, raw, err>>
          /\ unsure' = (unsure \/ raw # Site!Idle)
      BY <1>1 DEF Site!AddSite, Site!UpdateSite, Site!Begins
    <2>2. IsBool(unsure') /\ (~unsure' => ~unsure /\ raw = Site!Idle)
      BY <2>1, Zenon DEF SiteInv, SiteTyped, IsBool
    <2>3. c \in SiteBlocks /\ f \in SiteFiles
      BY DEF SiteBlocks, Site!Contents, SiteFiles
    <2> HIDE DEF c
    <2>4. form'.at = "write" /\ SiteRequest(form', {"idle", "write", "reload", "quiet"})
      BY <2>1, <2>3, SiteIdleIs DEF SiteRequest, Site!Idle
    <2>5. SiteTyped'
      BY <2>1, <2>2, <2>4 DEF SiteInv, SiteTyped
    <2>6. RawStaged'
      BY <2>1, <2>2, SiteIdleIs DEF RawStaged
    <2>7. Site!ServedAsSaved'
      BY <2>4, SiteIdleIs DEF Site!ServedAsSaved, Site!Quiet
    <2> QED
      BY <2>5, <2>6, <2>7 DEF SiteInv
  <1>2. ASSUME NEW f \in SiteIds, Site!DeleteSite(f) PROVE SiteInv'
    <2>1. /\ form' = [Site!Idle EXCEPT !.at = "quiet", !.file = f]
          /\ siteDisk' = [siteDisk EXCEPT ![f] = Site!Absent]
          /\ UNCHANGED <<running, raw, err>>
          /\ unsure' = (unsure \/ raw # Site!Idle)
      BY <1>2 DEF Site!DeleteSite, Site!Begins
    <2>2. IsBool(unsure') /\ (~unsure' => ~unsure /\ raw = Site!Idle)
      BY <2>1, Zenon DEF SiteInv, SiteTyped, IsBool
    <2>3. f \in SiteFiles /\ Site!Absent \in SiteBlocks
      BY DEF SiteBlocks, SiteFiles
    <2>4. form'.at = "quiet" /\ SiteRequest(form', {"idle", "write", "reload", "quiet"})
      BY <2>1, <2>3, SiteIdleIs DEF SiteRequest, Site!Idle
    <2>5. siteDisk' \in SiteConfigs
      BY <2>1, <2>3, SiteEdits DEF SiteInv, SiteTyped
    <2>6. SiteTyped'
      BY <2>1, <2>2, <2>4, <2>5 DEF SiteInv, SiteTyped
    <2>7. RawStaged'
      BY <2>1, <2>2, SiteIdleIs DEF RawStaged
    <2>8. Site!ServedAsSaved'
      BY <2>4, SiteIdleIs DEF Site!ServedAsSaved, Site!Quiet
    <2> QED
      BY <2>6, <2>7, <2>8 DEF SiteInv
  <1>3. CASE Site!FormWrites
    <2>1. /\ form' = [form EXCEPT !.at = "reload"] /\ siteDisk' = [siteDisk EXCEPT ![form.file] = form.new]
          /\ UNCHANGED <<running, raw, err, unsure>> /\ form.at = "write"
      BY <1>3 DEF Site!FormWrites
    <2>2. form'.at = "reload" /\ SiteRequest(form', {"idle", "write", "reload", "quiet"})
      BY <2>1 DEF SiteInv, SiteTyped, SiteRequest
    <2>3. siteDisk' \in SiteConfigs
      BY <2>1, SiteEdits DEF SiteInv, SiteTyped, SiteRequest
    <2>4. SiteTyped'
      BY <2>1, <2>2, <2>3 DEF SiteInv, SiteTyped, IsBool
    <2>5. RawStaged'
      BY <2>1, SiteIdleIs DEF SiteInv, RawStaged
    <2>6. Site!ServedAsSaved'
      BY <2>2, SiteIdleIs DEF Site!ServedAsSaved, Site!Quiet
    <2> QED
      BY <2>4, <2>5, <2>6 DEF SiteInv
  <1> QED
    BY <1>1, <1>2, <1>3

\* The form's reload.
LEMMA SiteFormReloads == SiteInv /\ Site!FormReloads => SiteInv'
  <1> SUFFICES ASSUME SiteInv, Site!FormReloads PROVE SiteInv'
    OBVIOUS
  <1>1. form' = Site!Idle /\ UNCHANGED <<siteDisk, raw, unsure>> /\ form.at \in {"reload", "quiet"}
    BY DEF Site!FormReloads
  <1>2. \/ running' = siteDisk /\ (err' = err \/ err' = FALSE)
        \/ running' = running /\ err' = TRUE
    <2>1. CASE Site!ReloadWorks /\ err' = IF form.at = "quiet" THEN err ELSE Site!Noted(TRUE)
      BY <2>1, Zenon DEF Site!ReloadWorks, Site!Noted
    <2>2. CASE Site!ReloadFails /\ err' = Site!Noted(FALSE)
      BY <2>2, Zenon DEF Site!ReloadFails, Site!Noted
    <2> QED
      BY <2>1, <2>2 DEF Site!FormReloads
  <1>3. IsBool(err') /\ running' \in SiteConfigs
    BY <1>2, Zenon DEF SiteInv, SiteTyped, IsBool
  <1>4. SiteTyped'
    BY <1>1, <1>3, SiteIdleIs DEF SiteInv, SiteTyped, IsBool
  <1>5. RawStaged'
    <2>1. PutBack' = PutBack
      BY <1>1 DEF PutBack
    <2> QED
      BY <1>1, <2>1 DEF SiteInv, RawStaged
  <1>6. Site!ServedAsSaved'
    <2>1. CASE running' = siteDisk
      BY <1>1, <2>1 DEF Site!ServedAsSaved
    <2>2. CASE err' = TRUE
      BY <2>2 DEF Site!ServedAsSaved
    <2> QED
      BY <1>2, <2>1, <2>2
  <1> QED
    BY <1>4, <1>5, <1>6 DEF SiteInv

\* The raw editor writes first.
LEMMA SiteRawBegins == ASSUME SiteInv, NEW c \in Site!Contents, Site!UpdateSiteRaw(c) PROVE SiteInv'
  <1>1. ASSUME NEW f \in SiteFiles, NEW b \in SiteBlocks, Site!RawBegins(f, b) PROVE SiteInv'
    <2>1. /\ raw = Site!Idle /\ siteDisk' = [siteDisk EXCEPT ![f] = b] /\ UNCHANGED <<running, form, err>>
          /\ unsure' = (unsure \/ form # Site!Idle)
          /\ raw' = [at |-> "validate", file |-> f, new |-> b, prev |-> siteDisk[f], good |-> Site!Accepts(siteDisk)]
      BY <1>1 DEF Site!RawBegins, Site!Begins
    <2>2. IsBool(unsure') /\ (~unsure' => ~unsure /\ form = Site!Idle)
      BY <2>1, Zenon DEF SiteInv, SiteTyped, IsBool
    <2>3. siteDisk \in SiteConfigs /\ siteDisk[f] \in SiteBlocks /\ siteDisk' \in SiteConfigs
      BY <2>1, SiteEdits DEF SiteInv, SiteTyped, SiteConfigs
    <2>4. /\ raw'.at = "validate" /\ raw'.file = f /\ raw'.prev = siteDisk[f]
          /\ raw'.good => Site!Accepts(siteDisk)
      BY <2>1
    <2>5. SiteRequest(raw', {"idle", "validate", "reload", "again"})
      BY <2>1, <2>3 DEF SiteRequest
    <2>6. SiteTyped'
      BY <2>1, <2>2, <2>3, <2>5 DEF SiteInv, SiteTyped
    <2>7. RawStaged'
      <3>1. PutBack' = siteDisk
        BY <2>1, <2>3, <2>4, SiteEdits DEF PutBack
      <3> QED
        BY <2>1, <2>2, <2>4, <3>1 DEF RawStaged, Site!Idle
    <2>8. Site!ServedAsSaved'
      BY <2>4, SiteIdleIs DEF Site!ServedAsSaved, Site!Quiet
    <2> QED
      BY <2>6, <2>7, <2>8 DEF SiteInv
  <1>2. c \in SiteBlocks /\ SiteIds \subseteq SiteFiles /\ "main" \in SiteFiles
    BY DEF SiteBlocks, SiteFiles
  <1>3. ASSUME NEW d \in siteDisk["main"].doms PROVE Site!Replaced(d, c) \in SiteBlocks
    <2>1. siteDisk["main"] \in SiteBlocks
      BY <1>2 DEF SiteInv, SiteTyped, SiteConfigs
    <2>2. siteDisk["main"].doms \in SUBSET Domains
      BY <2>1 DEF SiteBlocks, Site!Contents, Site!Absent
    <2>3. c.doms \in SUBSET Domains /\ c.doms # {} /\ c.st \in {"good", "bad", "stuck"}
      BY DEF Site!Contents
    <2>4. PICK s \in {"good", "bad", "stuck"} :
            Site!Replaced(d, c) = [doms |-> (siteDisk["main"].doms \ {d}) \cup c.doms, st |-> s]
      BY <2>3 DEF Site!Replaced, Site!Main
    <2>5. (siteDisk["main"].doms \ {d}) \cup c.doms \in (SUBSET Domains) \ {{}}
      BY <2>2, <2>3
    <2> QED
      BY <2>4, <2>5 DEF SiteBlocks, Site!Contents
  <1> QED
    BY <1>1, <1>2, <1>3 DEF Site!UpdateSiteRaw, Site!Main

\* caddy validate.
LEMMA SiteRawValidates == SiteInv /\ Site!RawValidates => SiteInv'
  <1> SUFFICES ASSUME SiteInv, Site!RawValidates PROVE SiteInv'
    OBVIOUS
  <1>1. UNCHANGED <<running, form, unsure>> /\ raw.at = "validate"
    BY DEF Site!RawValidates
  <1>2. CASE Site!Accepts(siteDisk)
    <2>1. raw' = [raw EXCEPT !.at = "reload"] /\ UNCHANGED <<siteDisk, err>>
      BY <1>2 DEF Site!RawValidates
    <2>2. /\ raw'.at = "reload" /\ raw'.file = raw.file /\ raw'.prev = raw.prev /\ (raw'.good => raw.good)
          /\ SiteRequest(raw', {"idle", "validate", "reload", "again"})
      BY <2>1 DEF SiteInv, SiteTyped, SiteRequest
    <2>3. SiteTyped'
      BY <1>1, <2>1, <2>2 DEF SiteInv, SiteTyped, IsBool
    <2>4. RawStaged'
      <3>1. PutBack' = PutBack
        BY <2>1, <2>2 DEF PutBack
      <3> QED
        BY <1>1, <1>2, <2>1, <2>2, <3>1 DEF SiteInv, RawStaged
    <2>5. Site!ServedAsSaved'
      BY <2>2, SiteIdleIs DEF Site!ServedAsSaved, Site!Quiet
    <2> QED
      BY <2>3, <2>4, <2>5 DEF SiteInv
  <1>3. CASE ~Site!Accepts(siteDisk)
    <2>1. raw' = Site!Idle /\ siteDisk' = PutBack /\ err' = TRUE
      BY <1>3 DEF Site!RawValidates, Site!Restored, PutBack
    <2>2. siteDisk' \in SiteConfigs
      BY <2>1, SiteEdits DEF SiteInv, SiteTyped, SiteRequest, PutBack
    <2>3. IsBool(err')
      BY <2>1 DEF IsBool
    <2>4. SiteTyped'
      BY <1>1, <2>1, <2>2, <2>3, SiteIdleIs DEF SiteInv, SiteTyped, IsBool
    <2>5. RawStaged' /\ Site!ServedAsSaved'
      BY <2>1, SiteIdleIs, Zenon DEF RawStaged, Site!ServedAsSaved
    <2> QED
      BY <2>4, <2>5 DEF SiteInv
  <1> QED
    BY <1>2, <1>3

\* The raw editor's reload, and the one after it has put the old text back.
LEMMA SiteRawReloads == SiteInv /\ (Site!RawReloads \/ Site!RawReloadsAgain) => SiteInv'
  <1> SUFFICES ASSUME SiteInv, Site!RawReloads \/ Site!RawReloadsAgain PROVE SiteInv'
    OBVIOUS
  <1>1. UNCHANGED <<form, unsure>> /\ (running' = running \/ running' = siteDisk) /\ raw.at \in {"reload", "again"}
    BY DEF Site!RawReloads, Site!RawReloadsAgain, Site!ReloadWorks, Site!ReloadFails
  <1>2. CASE Site!RawReloads /\ raw' # Site!Idle
    <2>1. raw' = [raw EXCEPT !.at = "again"] /\ siteDisk' = PutBack /\ UNCHANGED err /\ raw.at = "reload"
      BY <1>2 DEF Site!RawReloads, Site!Restored, PutBack
    <2>2. /\ raw'.at = "again" /\ (raw'.good => raw.good)
          /\ SiteRequest(raw', {"idle", "validate", "reload", "again"})
      BY <2>1 DEF SiteInv, SiteTyped, SiteRequest
    <2>3. siteDisk' \in SiteConfigs
      BY <2>1, SiteEdits DEF SiteInv, SiteTyped, SiteRequest, PutBack
    <2>4. SiteTyped'
      BY <1>1, <2>1, <2>2, <2>3 DEF SiteInv, SiteTyped, IsBool
    <2>5. RawStaged'
      BY <1>1, <2>1, <2>2 DEF SiteInv, RawStaged
    <2>6. Site!ServedAsSaved'
      BY <2>2, SiteIdleIs DEF Site!ServedAsSaved, Site!Quiet
    <2> QED
      BY <2>4, <2>5, <2>6 DEF SiteInv
  <1>3. CASE raw' = Site!Idle
    <2>1. UNCHANGED siteDisk /\ (err' = TRUE \/ (err' = FALSE /\ running' = siteDisk))
      <3>1. CASE Site!RawReloads
        <4>1. [raw EXCEPT !.at = "again"].at = "again"
          BY DEF SiteInv, SiteTyped, SiteRequest
        <4> QED
          BY <1>3, <3>1, <4>1, SiteIdleIs DEF Site!RawReloads, Site!ReloadWorks
      <3>2. CASE Site!RawReloadsAgain
        BY <3>2 DEF Site!RawReloadsAgain
      <3> QED
        BY <3>1, <3>2
    <2>2. IsBool(err') /\ running' \in SiteConfigs
      BY <1>1, <2>1, Zenon DEF IsBool, SiteInv, SiteTyped
    <2>3. SiteTyped'
      BY <1>1, <1>3, <2>1, <2>2, SiteIdleIs DEF SiteInv, SiteTyped, IsBool
    <2>4. RawStaged'
      BY <1>3, SiteIdleIs DEF RawStaged
    <2>5. Site!ServedAsSaved'
      <3>1. CASE err' = TRUE
        BY <3>1 DEF Site!ServedAsSaved
      <3>2. CASE running' = siteDisk
        BY <2>1, <3>2 DEF Site!ServedAsSaved
      <3> QED
        BY <2>1, <3>1, <3>2
    <2> QED
      BY <2>3, <2>4, <2>5 DEF SiteInv
  <1> QED
    BY <1>2, <1>3 DEF Site!RawReloadsAgain

\* A reload from elsewhere, an edit at a shell, and the agent dying.
LEMMA SiteWorld ==
    ASSUME SiteInv, Site!Reload \/ Site!AgentDies \/ \E c \in Site!Contents : Site!SomebodyEdits(c)
    PROVE  SiteInv'
  <1>1. CASE Site!Reload
    <2>1. running' = siteDisk /\ UNCHANGED <<siteDisk, form, raw, err, unsure>>
      BY <1>1 DEF Site!Reload, Site!ReloadWorks
    <2>2. SiteTyped'
      BY <2>1 DEF SiteInv, SiteTyped, IsBool
    <2>3. PutBack' = PutBack
      BY <2>1 DEF PutBack
    <2>4. RawStaged' /\ Site!ServedAsSaved'
      BY <2>1, <2>3 DEF SiteInv, RawStaged, Site!ServedAsSaved
    <2> QED
      BY <2>2, <2>4 DEF SiteInv
  <1>2. CASE Site!AgentDies
    <2>1. form' = Site!Idle /\ raw' = Site!Idle /\ err' = FALSE /\ unsure' = TRUE /\ UNCHANGED <<siteDisk, running>>
      BY <1>2 DEF Site!AgentDies
    <2>2. IsBool(err') /\ IsBool(unsure')
      BY <2>1 DEF IsBool
    <2>3. SiteTyped'
      BY <2>1, <2>2, SiteIdleIs DEF SiteInv, SiteTyped
    <2>4. RawStaged' /\ Site!ServedAsSaved'
      BY <2>1 DEF RawStaged, Site!ServedAsSaved
    <2> QED
      BY <2>3, <2>4 DEF SiteInv
  <1>3. ASSUME NEW c \in Site!Contents, Site!SomebodyEdits(c) PROVE SiteInv'
    <2>1. siteDisk' = [siteDisk EXCEPT !["main"] = c] /\ unsure' = TRUE /\ UNCHANGED <<running, form, raw, err>>
      BY <1>3 DEF Site!SomebodyEdits, Site!Main
    <2>2. IsBool(unsure') /\ siteDisk' \in SiteConfigs
      <3>1. c \in SiteBlocks /\ "main" \in SiteFiles
        BY DEF SiteBlocks, SiteFiles
      <3>2. siteDisk' \in SiteConfigs
        BY <2>1, <3>1, SiteEdits DEF SiteInv, SiteTyped
      <3> QED
        BY <2>1, <3>2, Zenon DEF IsBool
    <2>3. SiteTyped'
      BY <2>1, <2>2 DEF SiteInv, SiteTyped, IsBool
    <2>4. RawStaged' /\ Site!ServedAsSaved'
      BY <2>1 DEF RawStaged, Site!ServedAsSaved
    <2> QED
      BY <2>3, <2>4 DEF SiteInv
  <1> QED
    BY <1>1, <1>2, <1>3

\* Every step of a request, of Caddy or of somebody at a shell keeps the invariant.
LEMMA SiteStep == SiteInv /\ Site!Next => SiteInv'
  BY SiteFormStep, SiteFormReloads, SiteRawBegins, SiteRawValidates, SiteRawReloads, SiteWorld DEF Site!Next

\* A step of another part leaves the sites alone.
LEMMA SiteStutters == SiteInv /\ UNCHANGED siteVars => SiteInv'
  <1> SUFFICES ASSUME SiteInv, UNCHANGED siteVars PROVE SiteInv'
    OBVIOUS
  <1>1. UNCHANGED <<siteDisk, running, form, raw, err, unsure>>
    BY DEF siteVars
  <1>2. SiteTyped' /\ PutBack' = PutBack
    BY <1>1 DEF SiteInv, SiteTyped, IsBool, PutBack
  <1>3. RawStaged' /\ Site!ServedAsSaved'
    BY <1>1, <1>2 DEF SiteInv, RawStaged, Site!ServedAsSaved, Site!Quiet
  <1> QED
    BY <1>2, <1>3 DEF SiteInv

\* A raw edit that ends leaves a configuration Caddy accepts if it found one.
LEMMA SiteRawEnds ==
    ASSUME SiteInv, Site!Next, raw # Site!Idle, raw' = Site!Idle, raw.good, ~unsure'
    PROVE  Site!Accepts(siteDisk')
  <1>1. raw.at \in {"validate", "reload", "again"}
    BY DEF SiteInv, SiteTyped, SiteRequest
  <1>2. CASE Site!RawValidates
    <2>1. raw.at = "validate" /\ ~unsure
      BY <1>2 DEF Site!RawValidates
    <2>2. [raw EXCEPT !.at = "reload"].at = "reload"
      BY DEF SiteInv, SiteTyped, SiteRequest
    <2>3. siteDisk' = PutBack
      BY <1>2, <2>2, SiteIdleIs DEF Site!RawValidates, Site!Restored, PutBack
    <2> QED
      BY <2>1, <2>3 DEF SiteInv, RawStaged
  <1>3. CASE Site!RawReloads
    <2>1. raw.at = "reload" /\ ~unsure
      BY <1>3 DEF Site!RawReloads
    <2>2. [raw EXCEPT !.at = "again"].at = "again"
      BY DEF SiteInv, SiteTyped, SiteRequest
    <2>3. UNCHANGED siteDisk
      BY <1>3, <2>2, SiteIdleIs DEF Site!RawReloads
    <2> QED
      BY <2>1, <2>3 DEF SiteInv, RawStaged
  <1>4. CASE Site!RawReloadsAgain
    <2>1. raw.at = "again" /\ ~unsure /\ UNCHANGED siteDisk
      BY <1>4 DEF Site!RawReloadsAgain
    <2> QED
      BY <2>1 DEF SiteInv, RawStaged
  <1>5. CASE Site!AgentDies
    BY <1>5 DEF Site!AgentDies
  <1>6. CASE UNCHANGED raw
    BY <1>6
  <1>7. CASE raw = Site!Idle
    BY <1>7
  <1> QED
    BY <1>2, <1>3, <1>4, <1>5, <1>6, <1>7 DEF Site!Next, Site!DeleteSite, Site!AddSite, Site!UpdateSite,
       Site!UpdateSiteRaw, Site!RawBegins, Site!SomebodyEdits, Site!FormWrites, Site!FormReloads, Site!Reload

\* While no error is shown Caddy serves what is on disk, and a raw edit Caddy
\* refuses leaves a configuration it accepts: SitesSound, for any domains,
\* site files, requests, failing reloads and deaths.
THEOREM HostSitesSound == HostSpec => SitesSound
  <1> DEFINE hostVars == <<focus, jobVars, pluginVars, fwVars, siteVars, updateVars, fileVars, cronVars, unitVars>>
             P == raw # Site!Idle /\ raw' = Site!Idle /\ raw.good /\ ~unsure' => Site!Accepts(siteDisk')
             Served == focus = "sites" => Site!TypeOK /\ Site!ServedAsSaved
  <1>1. HostInit => SiteInv
    BY SiteInit DEF HostInit
  <1>2. SiteInv /\ [HostNext]_hostVars => SiteInv'
    BY SiteStep, SiteStutters DEF HostNext
  <1>3. SiteInv => Served
    <2> SUFFICES ASSUME SiteInv PROVE Site!TypeOK
      BY DEF SiteInv
    <2>1. {err, unsure} \subseteq BOOLEAN
      BY Booleans, Zenon DEF SiteInv, SiteTyped
    <2>2. \A f \in Site!Files : siteDisk[f] \in SiteBlocks /\ running[f] \in SiteBlocks
      BY DEF SiteInv, SiteTyped, SiteConfigs, Site!Files, Site!Main, SiteFiles
    <2>3. form.at \in {"idle", "write", "reload", "quiet"} /\ raw.at \in {"idle", "validate", "reload", "again"}
      BY DEF SiteInv, SiteTyped, SiteRequest
    <2> QED
      BY <2>1, <2>2, <2>3, Zenon DEF Site!TypeOK, SiteBlocks
  <1>4. SiteInv /\ [HostNext]_hostVars => [P]_(Site!siteVars)
    <2> SUFFICES ASSUME SiteInv, [HostNext]_hostVars PROVE [P]_(Site!siteVars)
      OBVIOUS
    <2>1. CASE UNCHANGED siteVars
      BY <2>1 DEF Site!siteVars, siteVars
    <2>2. CASE Site!Next
      BY <2>2, SiteRawEnds
    <2> QED
      BY <2>1, <2>2 DEF HostNext
  <1>5. Site!RawLeavesGood <=> [][P]_(Site!siteVars)
    BY DEF Site!RawLeavesGood
  <1>6. SitesSound <=> []Served /\ Site!RawLeavesGood
    BY DEF SitesSound
  <1> HIDE DEF P, Served
  <1> QED
    BY <1>1, <1>2, <1>3, <1>4, <1>5, <1>6, PTL DEF HostSpec

-----------------------------------------------------------------------------
(* Background jobs and reboots (Jobs).                                     *)

ProcRecs == [of: {"nobody", "job", "worker", "other"}, group: {0} \cup Pids, start: Nat]
Pins == [pid: Pids, start: Nat]
Noted == [job: Flags, screen: {"none", "idle", "busy"}]
Manifests == Noted \cup {NoManifest, TornManifest}
LaneAts == {"off", "check", "spawn", "record", "term", "kill", "forget"}
RestoreAts == {"off", "begin", "screen", "read", "check", "spawn", "record", "result", "remove"}
Acts == [at: LaneAts \cup RestoreAts, pid: {0} \cup Pids, start: Nat, group: SUBSET Pins, todo: Manifests,
         item: {"none", "ok", "failed"}]

JobTyped ==
    /\ procs \in [Pids -> ProcRecs] /\ clock \in 0..MaxStarts /\ boot \in 1..MaxBoots
    /\ rec \in [pid: {0} \cup Pids, boot: Nat, start: Nat]
    /\ screens \in Seq({"idle", "busy"})
    /\ acts \in [Actors -> Acts] /\ acts["lane"].at \in LaneAts /\ acts["restore"].at \in RestoreAts
    /\ host \in Manifests /\ manifest \in Manifests /\ asked \in Manifests /\ host # TornManifest
    /\ result \in {"absent", "none", "torn", "ok", "failed"}
    /\ IsBool(struck) /\ IsBool(excused) /\ IsBool(pending) /\ IsBool(began)

Live(p) == procs[p].of # "nobody"
Job(p) == procs[p].of = "job"

\* Start times grow, and what is not the job's leads its own group.
ProcsSound ==
    \A p \in Pids : /\ ~Live(p) => procs[p] = Nobody
                    /\ Live(p) => procs[p].start \in 1..clock
                    /\ procs[p].of \in {"job", "other"} => procs[p].group = p

\* A process with that number and start time is the job.
NamesJob(pid, start) == start <= clock /\ \A p \in Pids : p = pid /\ Live(p) /\ procs[p].start = start => Job(p)

RecSound == rec.boot <= boot /\ (rec.boot = boot /\ rec.pid # 0 => NamesJob(rec.pid, rec.start))

SpawnSound ==
    \A a \in Actors : acts[a].at = "record" =>
        acts[a].pid \in Pids /\ (acts[a].start # 0 => NamesJob(acts[a].pid, acts[a].start))

\* What Stop is to signal is not somebody else's.
GroupSound ==
    \A r \in acts["lane"].group :
        r.start <= clock /\ \A p \in Pids : p = r.pid /\ Live(p) /\ procs[p].start = r.start => procs[p].of # "other"

\* Unless something is excused, the command and the restore do not overlap.
OneActor == ~excused => acts["lane"].at = "off" \/ acts["restore"].at = "off"

Recorded(p) == rec.pid = p /\ rec.boot = boot /\ rec.start = procs[p].start
Recording(a, p) == acts[a].pid = p /\ acts[a].start = procs[p].start

JobsKnown ==
    ~excused => \A p \in Pids : Job(p) =>
        /\ (\A a \in Actors : acts[a].at # "record") => Recorded(p)
        /\ \A a \in Actors : acts[a].at = "record" => Recording(a, p)

NoJobBefore ==
    /\ acts["lane"].at \in {"spawn", "forget"} \/ acts["restore"].at \in {"screen", "read", "spawn"}
       \/ (acts["restore"].at = "begin" /\ manifest \notin {NoManifest, TornManifest})
    /\ ~excused
    => \A p \in Pids : ~Job(p)

StopKnows ==
    ~excused /\ acts["lane"].at \in {"term", "kill"} =>
        \A p \in Pids : Job(p) => [pid |-> p, start |-> procs[p].start] \in acts["lane"].group

\* No reboot is being prepared as the agent starts, and what it restores was
\* noted by one.
BeginsFresh == /\ acts["restore"].at = "begin" => host = NoManifest
               /\ acts["restore"].at = "screen" => acts["restore"].todo \in Noted

SaidSo == result \in {"torn", "failed"} \/ (result = "ok" /\ began)

Queued ==
    asked.job =>
        /\ manifest \in {asked, TornManifest, NoManifest}
        /\ manifest = NoManifest => SaidSo
        /\ acts["restore"].at = "screen" => acts["restore"].todo.job
        /\ acts["restore"].at = "result" => acts["restore"].item = "failed" \/ (acts["restore"].item = "ok" /\ began)
        /\ acts["restore"].at = "remove" => SaidSo

JobInv == /\ JobTyped /\ ProcsSound /\ RecSound /\ SpawnSound /\ GroupSound /\ struck = FALSE
          /\ OneActor /\ JobsKnown /\ NoJobBefore /\ StopKnows /\ BeginsFresh /\ Queued

\* The records the parts begin with are of their kinds.
LEMMA JobConstants ==
    /\ NoManifest \in Manifests /\ TornManifest \in Manifests /\ NoManifest # TornManifest
    /\ NoManifest.screen = "absent" /\ TornManifest.screen = "torn"
    /\ NoManifest.job = FALSE /\ TornManifest.job = FALSE
    /\ Off \in Acts /\ Off.at = "off" /\ Off.group = {} /\ Begin \in Acts /\ Begin.at = "begin" /\ Begin.group = {}
    /\ Nobody \in ProcRecs /\ Nobody.of = "nobody"
    /\ NoRec \in [pid: {0} \cup Pids, boot: Nat, start: Nat] /\ Torn \in [pid: {0} \cup Pids, boot: Nat, start: Nat]
    /\ NoRec.pid = 0 /\ NoRec.boot = 0 /\ Torn.pid = 0 /\ Torn.boot = 1
  <1>1. NoManifest \in Manifests /\ TornManifest \in Manifests /\ NoManifest # TornManifest
    BY DEF NoManifest, TornManifest, Manifests
  <1>2. NoManifest.screen = "absent" /\ TornManifest.screen = "torn"
    BY DEF NoManifest, TornManifest
  <1>3. NoManifest.job = FALSE /\ TornManifest.job = FALSE
    BY DEF NoManifest, TornManifest
  <1>4. Off \in Acts /\ Off.at = "off" /\ Off.group = {} /\ Begin \in Acts /\ Begin.at = "begin" /\ Begin.group = {}
    BY <1>1 DEF Off, Begin, Acts, LaneAts, RestoreAts
  <1>5. /\ Nobody \in ProcRecs /\ Nobody.of = "nobody"
        /\ NoRec \in [pid: {0} \cup Pids, boot: Nat, start: Nat] /\ Torn \in [pid: {0} \cup Pids, boot: Nat, start: Nat]
        /\ NoRec.pid = 0 /\ NoRec.boot = 0 /\ Torn.pid = 0 /\ Torn.boot = 1
    BY DEF Nobody, ProcRecs, NoRec, Torn
  <1> QED
    BY <1>1, <1>2, <1>3, <1>4, <1>5, Zenon

\* A process number is a number, and not 0.
LEMMA PidsAre == \A p \in Pids : p \in Nat /\ p # 0
  BY JobsAssumption

\* A fresh server runs nothing and has nothing to restore.
LEMMA JobInit == Init => JobInv
  <1> SUFFICES ASSUME Init PROVE JobInv
    OBVIOUS
  <1>1. IsBool(struck) /\ IsBool(excused) /\ IsBool(pending) /\ IsBool(began)
    BY DEF Init, IsBool
  <1>2. /\ procs = [p \in Pids |-> Nobody] /\ clock = 0 /\ boot = 1 /\ rec = NoRec /\ screens = <<>>
        /\ acts = [a \in Actors |-> Off] /\ host = NoManifest /\ manifest = NoManifest /\ asked = NoManifest
        /\ result = "absent"
    BY DEF Init
  <1>3. acts["lane"] = Off /\ acts["restore"] = Off /\ \A a \in Actors : acts[a] = Off
    BY <1>2 DEF Actors
  <1>4. JobTyped
    <2>1. procs \in [Pids -> ProcRecs] /\ acts \in [Actors -> Acts]
      BY <1>2, JobConstants
    <2>2. acts["lane"].at \in LaneAts /\ acts["restore"].at \in RestoreAts
      BY <1>3, JobConstants DEF LaneAts, RestoreAts
    <2>3. clock \in 0..MaxStarts /\ boot \in 1..MaxBoots
      BY <1>2, JobsAssumption
    <2>4. screens \in Seq({"idle", "busy"}) /\ result \in {"absent", "none", "torn", "ok", "failed"}
      BY <1>2
    <2>5. /\ rec \in [pid: {0} \cup Pids, boot: Nat, start: Nat]
          /\ host \in Manifests /\ manifest \in Manifests /\ asked \in Manifests /\ host # TornManifest
      BY <1>2, JobConstants
    <2> QED
      BY <1>1, <2>1, <2>2, <2>3, <2>4, <2>5 DEF JobTyped
  <1>5. ProcsSound /\ \A p \in Pids : ~Job(p) /\ ~Live(p)
    BY <1>2, JobConstants DEF ProcsSound, Job, Live
  <1>6. RecSound
    BY <1>2, JobConstants DEF RecSound
  <1>7. SpawnSound /\ GroupSound /\ OneActor /\ StopKnows /\ BeginsFresh
    BY <1>2, <1>3, JobConstants DEF SpawnSound, GroupSound, OneActor, StopKnows, BeginsFresh
  <1>8. JobsKnown /\ NoJobBefore
    BY <1>5 DEF JobsKnown, NoJobBefore
  <1>9. struck = FALSE
    BY DEF Init
  <1>10. Queued
    BY <1>2, JobConstants DEF Queued
  <1> QED
    BY <1>4, <1>5, <1>6, <1>7, <1>8, <1>9, <1>10 DEF JobInv

\* The process table after some processes ended, in the same boot: what was
\* said of numbers and start times still holds.
LEMMA ProcsEnd ==
    ASSUME JobInv, clock' \in {clock, clock + 1}, boot' = boot,
           procs' \in [Pids -> ProcRecs], \A p \in Pids : procs'[p] = procs[p] \/ procs'[p] = Nobody
    PROVE  /\ ProcsSound'
           /\ \A p \in Pids : Job(p)' => Job(p) /\ procs'[p] = procs[p]
           /\ \A p \in Pids : Live(p)' => Live(p) /\ procs'[p] = procs[p]
           /\ \A pid, start \in Nat : NamesJob(pid, start) => NamesJob(pid, start)'
  <1>0. clock \in Nat /\ clock' \in Nat /\ clock <= clock'
    BY JobsAssumption DEF JobInv, JobTyped
  <1>1. \A p \in Pids : (Job(p)' => Job(p) /\ procs'[p] = procs[p]) /\ (Live(p)' => Live(p) /\ procs'[p] = procs[p])
    BY JobConstants DEF Job, Live
  <1>2. ProcsSound'
    BY <1>0, <1>1, JobConstants DEF JobInv, ProcsSound, Live
  <1>3. \A pid, start \in Nat : NamesJob(pid, start) => NamesJob(pid, start)'
    BY <1>0, <1>1 DEF NamesJob, Job, Live
  <1> QED
    BY <1>1, <1>2, <1>3

\* The same after a process started.
LEMMA ProcsStart ==
    ASSUME JobInv, NEW p \in Pids, Free(p), NEW of \in {"job", "worker", "other"}, NEW q \in Pids,
           of \in {"job", "other"} => q = p,
           procs' = Starts(p, of, q), clock' = clock + 1, boot' = boot
    PROVE  /\ ProcsSound' /\ procs' \in [Pids -> ProcRecs] /\ clock' \in 0..MaxStarts
           /\ procs'[p] = [of |-> of, group |-> q, start |-> clock + 1]
           /\ \A x \in Pids : x # p => procs'[x] = procs[x]
           /\ \A x \in Pids : x # p => Job(x)' = Job(x)
           /\ \A pid, start \in Nat : NamesJob(pid, start) => NamesJob(pid, start)'
  <1>1. clock \in Nat /\ clock < MaxStarts /\ procs \in [Pids -> ProcRecs] /\ procs[p] = Nobody
    BY JobsAssumption DEF JobInv, JobTyped, Free
  <1>2. clock' \in 0..MaxStarts
    BY <1>1, JobsAssumption
  <1>3. /\ procs'[p] = [of |-> of, group |-> q, start |-> clock + 1]
        /\ \A x \in Pids : x # p => procs'[x] = procs[x]
    BY <1>1 DEF Starts
  <1>4. procs' \in [Pids -> ProcRecs]
    BY <1>1 DEF Starts, ProcRecs
  <1>5. ProcsSound'
    <2> SUFFICES ASSUME NEW x \in Pids
                 PROVE  /\ ~Live(x)' => procs'[x] = Nobody'
                        /\ Live(x)' => procs'[x].start \in 1..clock'
                        /\ procs'[x].of \in {"job", "other"} => procs'[x].group = x
      BY DEF ProcsSound
    <2>1. CASE x = p
      BY <1>1, <1>3, <2>1 DEF Live
    <2>2. CASE x # p
      BY <1>1, <1>3, <2>2 DEF JobInv, ProcsSound, Live, Nobody
    <2> QED
      BY <2>1, <2>2
  <1>6. \A pid, start \in Nat : NamesJob(pid, start) => NamesJob(pid, start)'
    BY <1>1, <1>3 DEF NamesJob, Job, Live
  <1>7. \A x \in Pids : x # p => Job(x)' = Job(x)
    BY <1>3 DEF Job
  <1> QED
    BY <1>2, <1>3, <1>4, <1>5, <1>6, <1>7

\* A step of the processes alone keeps the invariant if no job comes up.
LEMMA ProcsOnly ==
    ASSUME JobInv, UNCHANGED <<boot, rec, screens, acts, hostSide, history>>,
           clock' \in 0..MaxStarts, procs' \in [Pids -> ProcRecs], ProcsSound',
           \A x \in Pids : Job(x)' => Job(x) /\ procs'[x] = procs[x],
           \A pid, start \in Nat : NamesJob(pid, start) => NamesJob(pid, start)',
           GroupSound'
    PROVE  JobInv'
  <1> USE DEF hostSide, history
  <1>1. JobTyped'
    BY DEF JobInv, JobTyped
  <1>2. rec.pid \in Nat /\ rec.start \in Nat /\ \A a \in Actors : acts[a].pid \in Nat /\ acts[a].start \in Nat
    <2>1. \A x \in {0} \cup Pids : x \in Nat
      BY PidsAre
    <2>2. rec.pid \in {0} \cup Pids /\ rec.start \in Nat
      BY DEF JobInv, JobTyped
    <2>3. \A a \in Actors : acts[a].pid \in {0} \cup Pids /\ acts[a].start \in Nat
      BY DEF JobInv, JobTyped, Acts
    <2> QED
      BY <2>1, <2>2, <2>3
  <1>3. RecSound'
    BY <1>2 DEF JobInv, RecSound
  <1>4. SpawnSound'
    BY <1>2 DEF JobInv, SpawnSound
  <1>5. OneActor' /\ BeginsFresh' /\ struck' = FALSE
    BY DEF JobInv, OneActor, BeginsFresh, NoManifest
  <1>6. JobsKnown'
    BY DEF JobInv, JobsKnown, Recorded, Recording
  <1>7. NoJobBefore'
    BY DEF JobInv, NoJobBefore, NoManifest, TornManifest
  <1>8. StopKnows'
    BY DEF JobInv, StopKnows
  <1>9. Queued'
    BY DEF JobInv, Queued, SaidSo, NoManifest, TornManifest
  <1> QED
    BY <1>1, <1>3, <1>4, <1>5, <1>6, <1>7, <1>8, <1>9 DEF JobInv

\* Processes that come and go.
LEMMA JobProcesses == ASSUME JobInv, NEW p \in Pids, OtherStarts(p) \/ Exits(p) PROVE JobInv'
  <1>1. ASSUME OtherStarts(p) PROVE JobInv'
    <2>1. UNCHANGED <<boot, rec, screens, acts, hostSide, history>> /\ Free(p) /\ clock' = clock + 1
      BY <1>1 DEF OtherStarts
    <2>2. PICK of \in {"worker", "other"}, q \in Pids : (of = "other" => q = p) /\ procs' = Starts(p, of, q)
      BY <1>1 DEF OtherStarts
    <2>3. boot' = boot /\ of \in {"job", "worker", "other"} /\ (of \in {"job", "other"} => q = p)
      BY <2>1, <2>2
    <2>4. /\ ProcsSound' /\ procs' \in [Pids -> ProcRecs] /\ clock' \in 0..MaxStarts
          /\ procs'[p] = [of |-> of, group |-> q, start |-> clock + 1]
          /\ \A x \in Pids : x # p => procs'[x] = procs[x]
          /\ \A pid, start \in Nat : NamesJob(pid, start) => NamesJob(pid, start)'
      BY <2>1, <2>2, <2>3, ProcsStart
    <2>5. \A x \in Pids : Job(x)' => Job(x) /\ procs'[x] = procs[x]
      BY <2>2, <2>4 DEF Job
    <2>6. GroupSound'
      <3>1. \A r \in acts["lane"].group : r.start \in Nat /\ r.start <= clock /\ clock \in Nat
        BY DEF JobInv, JobTyped, GroupSound, Acts, Pins, Actors
      <3> QED
        BY <2>1, <2>4, <3>1 DEF JobInv, GroupSound, Live
    <2> QED
      BY <2>1, <2>4, <2>5, <2>6, ProcsOnly
  <1>2. ASSUME Exits(p) PROVE JobInv'
    <2>1. UNCHANGED <<clock, boot, rec, screens, acts, hostSide, history>> /\ procs' = [procs EXCEPT ![p] = Nobody]
      BY <1>2 DEF Exits
    <2>2. procs' \in [Pids -> ProcRecs] /\ (\A x \in Pids : procs'[x] = procs[x] \/ procs'[x] = Nobody)
          /\ clock \in 0..MaxStarts
      BY <2>1, JobConstants DEF JobInv, JobTyped
    <2>3. /\ ProcsSound' /\ \A x \in Pids : Job(x)' => Job(x) /\ procs'[x] = procs[x]
          /\ \A x \in Pids : Live(x)' => Live(x) /\ procs'[x] = procs[x]
          /\ \A pid, start \in Nat : NamesJob(pid, start) => NamesJob(pid, start)'
      BY <2>1, <2>2, ProcsEnd
    <2>4. GroupSound'
      BY <2>1, <2>3 DEF JobInv, GroupSound
    <2> QED
      BY <2>1, <2>2, <2>3, <2>4, ProcsOnly
  <1> QED
    BY <1>1, <1>2

\* What a step does to an actor, and to the other one.
LEMMA StepIs ==
    ASSUME JobInv, NEW a \in Actors, NEW at \in LaneAts \cup RestoreAts, Step(a, at)
    PROVE  /\ acts' \in [Actors -> Acts] /\ \A b \in Actors : b # a => acts'[b] = acts[b]
           /\ acts'[a].at = at /\ acts'[a].pid = acts[a].pid /\ acts'[a].start = acts[a].start
           /\ acts'[a].group = acts[a].group /\ acts'[a].todo = acts[a].todo /\ acts'[a].item = acts[a].item
  BY DEF JobInv, JobTyped, Step, Acts

\* What an end does to an actor, and to the other one.
LEMMA EndsIs ==
    ASSUME JobInv, NEW a \in Actors, NEW item \in {"none", "ok", "failed"}, Ends(a, item)
    PROVE  /\ acts' \in [Actors -> Acts] /\ \A b \in Actors : b # a => acts'[b] = acts[b]
           /\ a = "lane" => acts'[a] = Off
           /\ a # "lane" => acts'[a].at = "result" /\ acts'[a].item = item /\ acts'[a].group = acts[a].group
  <1>1. acts \in [Actors -> Acts]
    BY DEF JobInv, JobTyped
  <1>2. CASE a = "lane"
    BY <1>1, <1>2, JobConstants DEF Ends
  <1>3. CASE a # "lane"
    <2>1. acts' = [acts EXCEPT ![a] = [acts[a] EXCEPT !.at = "result", !.item = item]]
      BY <1>3 DEF Ends
    <2>2. /\ [acts[a] EXCEPT !.at = "result", !.item = item] \in Acts
          /\ [acts[a] EXCEPT !.at = "result", !.item = item].at = "result"
          /\ [acts[a] EXCEPT !.at = "result", !.item = item].item = item
          /\ [acts[a] EXCEPT !.at = "result", !.item = item].group = acts[a].group
      BY <1>1 DEF Acts, RestoreAts
    <2> QED
      BY <1>1, <1>3, <2>1, <2>2
  <1> QED
    BY <1>2, <1>3

\* While nothing changes of the processes and the record, nor who is at
\* "record", what is known of numbers and start times stays.
LEMMA SameProcs ==
    ASSUME JobInv, UNCHANGED <<procs, clock, boot>>
    PROVE  /\ ProcsSound' /\ \A p \in Pids : Job(p)' = Job(p) /\ Live(p)' = Live(p)
           /\ \A pid, start : NamesJob(pid, start)' = NamesJob(pid, start)
  BY DEF JobInv, ProcsSound, Job, Live, NamesJob, Nobody

\* An actor that is off, and one that begins.
LEMMA OffIs == /\ Off \in Acts /\ Off.at = "off" /\ Off.group = {}
               /\ Begin \in Acts /\ Begin.at = "begin" /\ Begin.group = {}
  BY JobConstants, Zenon

\* The same of the parts of the invariant that speak of them, if an actor that
\* is at "record" was there before.
LEMMA ActsFrame ==
    ASSUME JobInv, UNCHANGED <<procs, clock, boot, rec, struck>>,
           \A a \in Actors : acts'[a].at = "record" => acts'[a] = acts[a],
           acts'["lane"].group \subseteq acts["lane"].group
    PROVE  ProcsSound' /\ RecSound' /\ SpawnSound' /\ GroupSound' /\ struck' = FALSE
  <1>1. ProcsSound'
    BY SameProcs
  <1>2. RecSound'
    BY SameProcs DEF JobInv, RecSound
  <1>3. SpawnSound'
    BY SameProcs DEF JobInv, SpawnSound
  <1>4. GroupSound'
    BY SameProcs DEF JobInv, GroupSound
  <1>5. struck' = FALSE
    BY DEF JobInv
  <1> QED
    BY <1>1, <1>2, <1>3, <1>4, <1>5, Zenon

\* What is recorded stays recorded while the record does.
LEMMA KnownFrame ==
    ASSUME JobInv, UNCHANGED <<procs, clock, boot, rec>>, ~excused' => ~excused,
           \A a \in Actors : acts'[a].at = "record" <=> acts[a].at = "record",
           \A a \in Actors : acts'[a].at = "record" => acts'[a] = acts[a]
    PROVE  JobsKnown'
  <1>1. SUFFICES ASSUME ~excused', NEW p \in Pids, Job(p)'
                 PROVE  /\ (\A a \in Actors : acts'[a].at # "record") => Recorded(p)'
                        /\ \A a \in Actors : acts'[a].at = "record" => Recording(a, p)'
    BY DEF JobsKnown
  <1>2. ~excused /\ Job(p)
    BY <1>1, SameProcs
  <1>3. /\ (\A a \in Actors : acts[a].at # "record") => Recorded(p)
        /\ \A a \in Actors : acts[a].at = "record" => Recording(a, p)
    BY <1>2 DEF JobInv, JobsKnown
  <1>4. Recorded(p)' = Recorded(p)
    BY DEF Recorded
  <1>5. \A a \in Actors : acts'[a] = acts[a] => Recording(a, p)' = Recording(a, p)
    BY DEF Recording
  <1> QED
    BY <1>3, <1>4, <1>5

\* A live job that is recorded is found by its record.
LEMMA RecordedRuns == ASSUME JobInv, NEW p \in Pids, Job(p), Recorded(p) PROVE Running /\ rec.pid = p
  <1>1. p # 0 /\ rec.pid = p /\ procs[p] # Nobody
    BY JobConstants, PidsAre DEF Job, Recorded
  <1>2. rec.start = procs[p].start /\ rec.boot = boot
    BY DEF Recorded
  <1> QED
    BY <1>1, <1>2 DEF Running, JobProcess, Pinned, Job

\* NohupStart
LEMMA JobNohupStart == JobInv /\ NohupStart => JobInv'
  <1> SUFFICES ASSUME JobInv, NohupStart PROVE JobInv'
    OBVIOUS
  <1>1. /\ UNCHANGED <<procs, clock, boot, rec, screens, host, manifest, result, pending, struck, asked, began>>
        /\ acts["lane"].at = "off" /\ Step("lane", "check")
    BY DEF NohupStart, hostSide
  <1>2. IsBool(excused') /\ (~excused' => ~excused /\ acts["restore"].at = "off")
    BY Zenon DEF NohupStart, JobInv, JobTyped, IsBool
  <1>3. /\ acts' \in [Actors -> Acts] /\ acts'["restore"] = acts["restore"]
        /\ acts'["lane"].at = "check" /\ acts'["lane"].group = acts["lane"].group
    BY <1>1, StepIs DEF Actors, LaneAts
  <1>4. JobTyped'
    BY <1>1, <1>2, <1>3 DEF JobInv, JobTyped, LaneAts
  <1>5. ProcsSound' /\ RecSound' /\ SpawnSound' /\ GroupSound' /\ struck' = FALSE
    BY <1>1, <1>3, SameProcs DEF JobInv, RecSound, SpawnSound, GroupSound, Actors
  <1>6. OneActor' /\ JobsKnown' /\ NoJobBefore' /\ StopKnows'
    BY <1>1, <1>2, <1>3, SameProcs DEF JobInv, OneActor, JobsKnown, NoJobBefore, StopKnows, Actors, Recorded
  <1>7. BeginsFresh' /\ Queued'
    BY <1>1, <1>3 DEF JobInv, BeginsFresh, Queued, SaidSo, NoManifest, TornManifest
  <1> QED
    BY <1>4, <1>5, <1>6, <1>7 DEF JobInv

\* The check of the name, by the command or the restore.
LEMMA JobCheck == ASSUME JobInv, NEW a \in Actors, Check(a) PROVE JobInv'
  <1>1. /\ UNCHANGED <<procs, clock, boot, rec, screens, host, manifest, result, pending, struck, excused, asked, began>>
        /\ acts[a].at = "check" /\ ((~Running /\ Step(a, "spawn")) \/ Ends(a, "failed"))
    BY DEF Check, hostSide, history, NameUnused
  <1>2. a = "lane" \/ a = "restore"
    BY DEF Actors
  <1>3. CASE ~Running /\ Step(a, "spawn")
    <2>1. /\ acts' \in [Actors -> Acts] /\ \A b \in Actors : b # a => acts'[b] = acts[b]
          /\ acts'[a].at = "spawn" /\ acts'[a].group = acts[a].group
      BY <1>3, StepIs DEF LaneAts
    <2>2. JobTyped'
      BY <1>1, <1>2, <2>1 DEF JobInv, JobTyped, LaneAts, RestoreAts, Actors
    <2>3. ProcsSound' /\ RecSound' /\ SpawnSound' /\ GroupSound' /\ struck' = FALSE
      BY <1>1, <1>2, <2>1, SameProcs DEF JobInv, RecSound, SpawnSound, GroupSound, Actors
    <2>4. ~excused => \A b \in Actors : b # a => acts[b].at = "off"
      BY <1>1, <1>2 DEF JobInv, OneActor, Actors
    <2>5. ~excused => \A p \in Pids : ~Job(p)
      BY <1>1, <1>3, <2>4, RecordedRuns DEF JobInv, JobsKnown
    <2>6. \A p \in Pids : Job(p)' = Job(p)
      BY <1>1, SameProcs
    <2>7. NoJobBefore' /\ JobsKnown'
      BY <1>1, <2>5, <2>6 DEF NoJobBefore, JobsKnown
    <2>8. OneActor' /\ StopKnows'
      BY <1>1, <1>2, <2>1, <2>4, <2>5, <2>6 DEF OneActor, StopKnows, Actors
    <2>9. BeginsFresh' /\ Queued'
      <3>1. UNCHANGED <<host, manifest, result, asked, began>>
        BY <1>1
      <3>2. acts'["restore"] = acts["restore"] \/ acts'["restore"].at = "spawn"
        BY <1>2, <2>1 DEF Actors
      <3> QED
        BY <3>1, <3>2 DEF JobInv, BeginsFresh, Queued, SaidSo, NoManifest, TornManifest
    <2> QED
      BY <2>2, <2>3, <2>7, <2>8, <2>9 DEF JobInv
  <1>4. CASE Ends(a, "failed")
    <2>1. /\ acts' \in [Actors -> Acts] /\ \A b \in Actors : b # a => acts'[b] = acts[b]
          /\ a = "lane" => acts'[a] = Off
          /\ a # "lane" => acts'[a].at = "result" /\ acts'[a].item = "failed" /\ acts'[a].group = acts[a].group
      BY <1>4, EndsIs
    <2>2. JobTyped'
      BY <1>1, <1>2, <2>1, JobConstants DEF JobInv, JobTyped, LaneAts, RestoreAts, Actors
    <2>3. ProcsSound' /\ RecSound' /\ SpawnSound' /\ GroupSound' /\ struck' = FALSE
      <3>1. \A b \in Actors : acts'[b].at = "record" => acts'[b] = acts[b]
        BY <2>1, OffIs
      <3>2. acts'["lane"].group \subseteq acts["lane"].group
        BY <1>2, <2>1, OffIs DEF Actors
      <3> QED
        BY <1>1, <3>1, <3>2, ActsFrame
    <2>4. OneActor' /\ JobsKnown' /\ NoJobBefore' /\ StopKnows'
      <3>1. UNCHANGED <<procs, clock, boot, rec, excused, manifest>> /\ \A p \in Pids : Job(p)' = Job(p)
        BY <1>1, SameProcs
      <3>2. /\ \A b \in Actors : acts'[b].at = "record" <=> acts[b].at = "record"
            /\ \A b \in Actors : acts'[b].at = "record" => acts'[b] = acts[b]
        BY <1>1, <2>1, OffIs
      <3>3. JobsKnown'
        BY <3>1, <3>2, KnownFrame
      <3>4. \/ acts'["lane"] = Off /\ acts'["restore"] = acts["restore"]
            \/ acts'["lane"] = acts["lane"] /\ acts'["restore"].at = "result" /\ acts["restore"].at # "off"
        BY <1>1, <1>2, <2>1 DEF Actors
      <3>5. OneActor' /\ StopKnows'
        BY <3>1, <3>4, OffIs DEF JobInv, OneActor, StopKnows
      <3>6. NoJobBefore'
        BY <3>1, <3>4, OffIs DEF JobInv, NoJobBefore, NoManifest, TornManifest
      <3> QED
        BY <3>3, <3>5, <3>6
    <2>5. BeginsFresh' /\ Queued'
      BY <1>1, <1>2, <2>1 DEF JobInv, BeginsFresh, Queued, SaidSo, NoManifest, TornManifest, Actors
    <2> QED
      BY <2>2, <2>3, <2>4, <2>5 DEF JobInv
  <1> QED
    BY <1>1, <1>3, <1>4

\* What the spawning actor does to the others' parts of the invariant.
LEMMA SpawnActs ==
    ASSUME JobInv, NEW a \in Actors, NEW p \in Pids, Spawn(a, p)
    PROVE  \E start \in {0, clock + 1} :
             /\ acts' \in [Actors -> Acts] /\ \A b \in Actors : b # a => acts'[b] = acts[b]
             /\ acts'[a].at = "record" /\ acts'[a].pid = p /\ acts'[a].start = start
             /\ acts'[a].group = acts[a].group
             /\ procs' = IF start = 0 THEN procs ELSE Starts(p, "job", p)
  <1>1. PICK alive \in BOOLEAN :
            /\ procs' = IF alive THEN Starts(p, "job", p) ELSE procs
            /\ acts' = [acts EXCEPT ![a] = [@ EXCEPT !.at = "record", !.pid = p,
                                                     !.start = IF alive THEN clock + 1 ELSE 0]]
    BY DEF Spawn
  <1>2. acts \in [Actors -> Acts] /\ clock \in Nat
    BY JobsAssumption DEF JobInv, JobTyped
  <1>3. PICK start \in {0, clock + 1} :
            /\ procs' = IF start = 0 THEN procs ELSE Starts(p, "job", p)
            /\ acts' = [acts EXCEPT ![a] = [@ EXCEPT !.at = "record", !.pid = p, !.start = start]]
    <2>1. CASE alive
      BY <1>1, <1>2, <2>1
    <2>2. CASE ~alive
      BY <1>1, <1>2, <2>2
    <2> QED
      BY <2>1, <2>2
  <1>4. start \in Nat
    BY <1>2, <1>3
  <1>5. /\ [acts[a] EXCEPT !.at = "record", !.pid = p, !.start = start] \in Acts
        /\ [acts[a] EXCEPT !.at = "record", !.pid = p, !.start = start].at = "record"
        /\ [acts[a] EXCEPT !.at = "record", !.pid = p, !.start = start].pid = p
        /\ [acts[a] EXCEPT !.at = "record", !.pid = p, !.start = start].start = start
        /\ [acts[a] EXCEPT !.at = "record", !.pid = p, !.start = start].group = acts[a].group
    BY <1>2, <1>4 DEF Acts, LaneAts
  <1>6. acts'[a] = [acts[a] EXCEPT !.at = "record", !.pid = p, !.start = start]
    BY <1>2, <1>3
  <1>7. acts' \in [Actors -> Acts] /\ \A b \in Actors : b # a => acts'[b] = acts[b]
    BY <1>2, <1>3, <1>5
  <1> QED
    BY <1>3, <1>5, <1>6, <1>7

\* The job is started, and its start time read.
LEMMA JobSpawn == ASSUME JobInv, NEW a \in Actors, NEW p \in Pids, Spawn(a, p) PROVE JobInv'
  <1>1. /\ acts[a].at = "spawn" /\ Free(p) /\ clock' = clock + 1
        /\ UNCHANGED <<boot, rec, screens, host, manifest, result, pending, struck, excused, asked, began>>
    BY DEF Spawn, hostSide, history
  <1>2. PICK start \in {0, clock + 1} :
             /\ acts' \in [Actors -> Acts] /\ \A b \in Actors : b # a => acts'[b] = acts[b]
             /\ acts'[a].at = "record" /\ acts'[a].pid = p /\ acts'[a].start = start
             /\ acts'[a].group = acts[a].group
             /\ procs' = IF start = 0 THEN procs ELSE Starts(p, "job", p)
    BY SpawnActs
  <1>3. a = "lane" \/ a = "restore"
    BY DEF Actors
  <1>4. clock \in Nat /\ clock < MaxStarts
    BY <1>1, JobsAssumption DEF JobInv, JobTyped, Free
  <1>5. /\ ProcsSound' /\ procs' \in [Pids -> ProcRecs] /\ clock' \in 0..MaxStarts
        /\ \A x \in Pids : x # p => procs'[x] = procs[x]
        /\ procs'[p] = procs[p] \/ procs'[p] = [of |-> "job", group |-> p, start |-> clock + 1]
        /\ \A n, s \in Nat : NamesJob(n, s) => NamesJob(n, s)'
        /\ start = 0 => procs' = procs
        /\ start # 0 => procs'[p] = [of |-> "job", group |-> p, start |-> start]
    <2>1. CASE start = 0
      <3>1. procs' = procs /\ procs' \in [Pids -> ProcRecs] /\ clock' \in 0..MaxStarts /\ clock' \in {clock, clock + 1}
        BY <1>1, <1>2, <1>4, <2>1, JobsAssumption DEF JobInv, JobTyped
      <3>2. ProcsSound' /\ \A n, s \in Nat : NamesJob(n, s) => NamesJob(n, s)'
        BY <1>1, <3>1, ProcsEnd
      <3> QED
        BY <2>1, <3>1, <3>2
    <2>2. CASE start # 0
      <3>1. procs' = Starts(p, "job", p) /\ start = clock + 1
        BY <1>2, <2>2
      <3>2. /\ ProcsSound' /\ procs' \in [Pids -> ProcRecs] /\ clock' \in 0..MaxStarts
            /\ procs'[p] = [of |-> "job", group |-> p, start |-> clock + 1]
            /\ \A x \in Pids : x # p => procs'[x] = procs[x]
            /\ \A n, s \in Nat : NamesJob(n, s) => NamesJob(n, s)'
        BY <1>1, <3>1, ProcsStart
      <3> QED
        BY <2>2, <3>1, <3>2
    <2> QED
      BY <2>1, <2>2
  <1>6. JobTyped'
    BY <1>1, <1>2, <1>3, <1>5 DEF JobInv, JobTyped, LaneAts, RestoreAts, Actors
  <1>7. rec.pid \in Nat /\ rec.start \in Nat /\ \A b \in Actors : acts[b].pid \in Nat /\ acts[b].start \in Nat
    <2>1. \A x \in {0} \cup Pids : x \in Nat
      BY PidsAre
    <2> QED
      BY <2>1 DEF JobInv, JobTyped, Acts
  <1>8. RecSound'
    BY <1>1, <1>5, <1>7 DEF JobInv, RecSound
  <1>9. SpawnSound'
    <2>1. ASSUME NEW b \in Actors, b # a, acts'[b].at = "record"
          PROVE  acts'[b].pid \in Pids /\ (acts'[b].start # 0 => NamesJob(acts[b].pid, acts[b].start)')
      BY <1>2, <1>5, <1>7, <2>1 DEF JobInv, SpawnSound
    <2>2. start # 0 => NamesJob(p, start)'
      BY <1>1, <1>2, <1>4, <1>5 DEF NamesJob, Job
    <2> QED
      BY <1>2, <2>1, <2>2 DEF SpawnSound, NamesJob
  <1>10. GroupSound'
    <2>1. acts'["lane"].group = acts["lane"].group
      BY <1>2, <1>3 DEF Actors
    <2>2. \A r \in acts["lane"].group : r.start \in Nat /\ r.start <= clock
      BY DEF JobInv, JobTyped, GroupSound, Acts, Pins, Actors
    <2> QED
      BY <1>1, <1>4, <1>5, <2>1, <2>2 DEF JobInv, GroupSound, Live
  <1>11. ~excused => (\A b \in Actors : b # a => acts[b].at = "off") /\ \A x \in Pids : ~Job(x)
    BY <1>1, <1>3 DEF JobInv, OneActor, NoJobBefore, Actors
  <1>12. OneActor' /\ NoJobBefore' /\ StopKnows'
    BY <1>1, <1>2, <1>3, <1>11 DEF OneActor, NoJobBefore, StopKnows, Actors
  <1>13. JobsKnown'
    <2>1. SUFFICES ASSUME ~excused, NEW x \in Pids, Job(x)'
                   PROVE  \A b \in Actors : acts'[b].at = "record" => Recording(b, x)'
      BY <1>1, <1>2 DEF JobsKnown
    <2>2. x = p /\ start # 0 /\ procs'[x].start = start
      BY <1>5, <1>11, <2>1 DEF Job
    <2> QED
      BY <1>2, <1>11, <2>1, <2>2 DEF Recording
  <1>14. BeginsFresh' /\ Queued'
    <2>1. UNCHANGED <<host, manifest, result, asked, began>>
      BY <1>1
    <2>2. acts'["restore"] = acts["restore"] \/ acts'["restore"].at = "record"
      BY <1>2, <1>3 DEF Actors
    <2> QED
      BY <2>1, <2>2 DEF JobInv, BeginsFresh, Queued, SaidSo, NoManifest, TornManifest
  <1> QED
    BY <1>1, <1>5, <1>6, <1>8, <1>9, <1>10, <1>12, <1>13, <1>14 DEF JobInv

\* The job is written down.
LEMMA JobRecorded ==
    ASSUME JobInv, NEW a \in Actors, Record(a),
           rec' = [pid |-> acts[a].pid, boot |-> IF acts[a].start = 0 THEN 0 ELSE boot, start |-> acts[a].start],
           began' = TRUE, Ends(a, "ok"), UNCHANGED <<procs, excused>>
    PROVE  JobInv'
  <1>1. /\ acts[a].at = "record" /\ UNCHANGED <<clock, boot, screens, host, manifest, result, pending, struck, asked>>
    BY DEF Record, hostSide
  <1>2. a = "lane" \/ a = "restore"
    BY DEF Actors
  <1>3. /\ acts' \in [Actors -> Acts] /\ \A b \in Actors : b # a => acts'[b] = acts[b]
        /\ a = "lane" => acts'[a] = Off
        /\ a # "lane" => acts'[a].at = "result" /\ acts'[a].item = "ok" /\ acts'[a].group = acts[a].group
    BY EndsIs
  <1>4. acts[a].pid \in Pids /\ acts[a].start \in Nat /\ boot \in Nat /\ boot # 0
    <2>1. acts[a].pid \in Pids
      BY <1>1 DEF JobInv, SpawnSound
    <2>2. acts[a].start \in Nat
      BY DEF JobInv, JobTyped, Acts
    <2>3. boot \in 1..MaxBoots /\ MaxBoots \in Nat
      BY JobsAssumption DEF JobInv, JobTyped
    <2> QED
      BY <2>1, <2>2, <2>3
  <1>5. /\ rec' \in [pid: {0} \cup Pids, boot: Nat, start: Nat] /\ rec'.pid = acts[a].pid /\ rec'.start = acts[a].start
        /\ acts[a].start = 0 => rec'.boot = 0
        /\ acts[a].start # 0 => rec'.boot = boot
    BY <1>4
  <1>6. IsBool(began')
    BY DEF IsBool
  <1>7. JobTyped'
    <2>1. acts'["lane"].at \in LaneAts /\ acts'["restore"].at \in RestoreAts
      BY <1>2, <1>3, OffIs DEF JobInv, JobTyped, LaneAts, RestoreAts, Actors
    <2> QED
      BY <1>1, <1>3, <1>5, <1>6, <2>1 DEF JobInv, JobTyped
  <1>8. UNCHANGED <<procs, clock, boot>>
    BY <1>1
  <1>9. ProcsSound'
    BY <1>8, SameProcs
  <1>10. RecSound'
    <2>1. acts[a].start # 0 => NamesJob(acts[a].pid, acts[a].start)
      BY <1>1 DEF JobInv, SpawnSound
    <2>2. NamesJob(rec.pid, rec.start)' = NamesJob(acts[a].pid, acts[a].start)
      BY <1>5, <1>8 DEF NamesJob, Job, Live
    <2> QED
      BY <1>1, <1>4, <1>5, <2>1, <2>2 DEF RecSound
  <1>11. SpawnSound'
    <2>1. \A b \in Actors : acts'[b].at = "record" => acts'[b] = acts[b]
      BY <1>3, OffIs
    <2> QED
      BY <1>8, <2>1, SameProcs DEF JobInv, SpawnSound
  <1>12. GroupSound'
    <2>1. acts'["lane"].group \subseteq acts["lane"].group
      BY <1>2, <1>3, OffIs DEF Actors
    <2> QED
      BY <1>8, <2>1, SameProcs DEF JobInv, GroupSound
  <1>13. struck' = FALSE
    BY <1>1 DEF JobInv
  <1>14. ~excused => \A b \in Actors : b # a => acts[b].at = "off"
    BY <1>1, <1>2 DEF JobInv, OneActor, Actors
  <1>15. OneActor' /\ NoJobBefore' /\ StopKnows'
    BY <1>2, <1>3, <1>14, OffIs DEF OneActor, NoJobBefore, StopKnows, Actors
  <1>16. JobsKnown'
    <2>1. SUFFICES ASSUME ~excused, NEW x \in Pids, Job(x)'
                   PROVE  /\ Recorded(x)'
                          /\ \A b \in Actors : acts'[b].at # "record"
      BY DEF JobsKnown
    <2>2. Job(x) /\ Recording(a, x) /\ procs[x].start # 0
      <3>1. Job(x)
        BY <1>8, <2>1, SameProcs
      <3>2. Recording(a, x)
        BY <1>1, <2>1, <3>1 DEF JobInv, JobsKnown
      <3>3. procs[x].start \in 1..clock /\ clock \in Nat
        BY <3>1, JobsAssumption DEF JobInv, JobTyped, ProcsSound, Job, Live
      <3> QED
        BY <3>1, <3>2, <3>3
    <2>3. Recorded(x)'
      BY <1>1, <1>5, <2>2 DEF Recorded, Recording
    <2> QED
      BY <1>2, <1>3, <1>14, <2>1, <2>3, OffIs
  <1>17. BeginsFresh'
    BY <1>1, <1>2, <1>3 DEF JobInv, BeginsFresh, NoManifest, Actors
  <1>18. Queued'
    <2>1. UNCHANGED <<manifest, result, asked>> /\ began' = TRUE
      BY <1>1
    <2>2. SaidSo => SaidSo'
      BY <2>1 DEF SaidSo
    <2>3. acts'["restore"] = acts["restore"] \/ (acts'["restore"].at = "result" /\ acts'["restore"].item = "ok")
      BY <1>2, <1>3 DEF Actors
    <2> QED
      BY <2>1, <2>2, <2>3 DEF JobInv, Queued, NoManifest, TornManifest
  <1> QED
    BY <1>7, <1>9, <1>10, <1>11, <1>12, <1>13, <1>15, <1>16, <1>17, <1>18 DEF JobInv

\* It cannot be written down: it is told to end, and may not listen.
LEMMA JobUnrecorded ==
    ASSUME JobInv, NEW a \in Actors, Record(a), rec' \in {rec, Torn},
           \/ procs' = Unrecorded(a) /\ UNCHANGED excused
           \/ UNCHANGED procs /\ excused' = TRUE,
           Ends(a, "failed"), UNCHANGED began
    PROVE  JobInv'
  <1>1. /\ acts[a].at = "record" /\ UNCHANGED <<clock, boot, screens, host, manifest, result, pending, struck, asked>>
    BY DEF Record, hostSide
  <1>2. a = "lane" \/ a = "restore"
    BY DEF Actors
  <1>3. /\ acts' \in [Actors -> Acts] /\ \A b \in Actors : b # a => acts'[b] = acts[b]
        /\ a = "lane" => acts'[a] = Off
        /\ a # "lane" => acts'[a].at = "result" /\ acts'[a].item = "failed" /\ acts'[a].group = acts[a].group
    BY EndsIs
  <1>4. acts[a].pid \in Pids /\ procs \in [Pids -> ProcRecs] /\ clock \in Nat
    BY <1>1, JobsAssumption DEF JobInv, SpawnSound, JobTyped
  <1>5. /\ procs' \in [Pids -> ProcRecs] /\ \A x \in Pids : procs'[x] = procs[x] \/ procs'[x] = Nobody
    BY <1>4, JobConstants DEF Unrecorded
  <1>6. /\ ProcsSound'
        /\ \A p \in Pids : Job(p)' => Job(p) /\ procs'[p] = procs[p]
        /\ \A p \in Pids : Live(p)' => Live(p) /\ procs'[p] = procs[p]
        /\ \A pid, start \in Nat : NamesJob(pid, start) => NamesJob(pid, start)'
    <2>1. clock' \in {clock, clock + 1} /\ boot' = boot
      BY <1>1
    <2> QED
      BY <1>5, <2>1, ProcsEnd
  <1>7. IsBool(excused') /\ (~excused' => ~excused /\ procs' = Unrecorded(a))
    BY Zenon DEF JobInv, JobTyped, IsBool
  <1>8. rec' \in [pid: {0} \cup Pids, boot: Nat, start: Nat] /\ (rec' = rec \/ (rec'.pid = 0 /\ rec'.boot = 1))
    BY JobConstants DEF JobInv, JobTyped
  <1>9. JobTyped'
    <2>1. acts'["lane"].at \in LaneAts /\ acts'["restore"].at \in RestoreAts
      BY <1>2, <1>3, OffIs DEF JobInv, JobTyped, LaneAts, RestoreAts, Actors
    <2> QED
      BY <1>1, <1>3, <1>5, <1>7, <1>8, <2>1 DEF JobInv, JobTyped
  <1>10. rec.pid \in Nat /\ rec.start \in Nat /\ \A b \in Actors : acts[b].pid \in Nat /\ acts[b].start \in Nat
    <2>1. \A x \in {0} \cup Pids : x \in Nat
      BY PidsAre
    <2> QED
      BY <2>1 DEF JobInv, JobTyped, Acts
  <1>11. RecSound'
    <2>1. CASE rec' = rec
      BY <1>1, <1>6, <1>10, <2>1 DEF JobInv, RecSound
    <2>2. CASE rec'.pid = 0 /\ rec'.boot = 1
      <3>1. boot \in 1..MaxBoots /\ MaxBoots \in Nat /\ boot' = boot
        BY <1>1, JobsAssumption DEF JobInv, JobTyped
      <3> QED
        BY <2>2, <3>1 DEF RecSound
    <2> QED
      BY <1>8, <2>1, <2>2
  <1>12. SpawnSound'
    <2>1. \A b \in Actors : acts'[b].at = "record" => acts'[b] = acts[b]
      BY <1>3, OffIs
    <2> QED
      BY <1>6, <1>10, <2>1 DEF JobInv, SpawnSound
  <1>13. GroupSound'
    <2>1. acts'["lane"].group \subseteq acts["lane"].group
      BY <1>2, <1>3, OffIs DEF Actors
    <2> QED
      BY <1>1, <1>6, <2>1 DEF JobInv, GroupSound
  <1>14. struck' = FALSE
    BY <1>1 DEF JobInv
  <1>15. ~excused' => (\A b \in Actors : b # a => acts[b].at = "off") /\ \A x \in Pids : ~Job(x)'
    <2>1. SUFFICES ASSUME ~excused' PROVE (\A b \in Actors : b # a => acts[b].at = "off") /\ \A x \in Pids : ~Job(x)'
      OBVIOUS
    <2>2. \A b \in Actors : b # a => acts[b].at = "off"
      BY <1>1, <1>2, <1>7, <2>1 DEF JobInv, OneActor, Actors
    <2>3. \A x \in Pids : Job(x) => x = acts[a].pid
      BY <1>1, <1>7, <2>1 DEF JobInv, JobsKnown, Recording
    <2>4. procs'[acts[a].pid] = Nobody
      BY <1>4, <1>7, <2>1 DEF Unrecorded
    <2>5. \A x \in Pids : ~Job(x)'
      BY <1>6, <2>3, <2>4 DEF Job, Nobody
    <2> QED
      BY <2>2, <2>5
  <1>16. OneActor' /\ NoJobBefore' /\ StopKnows' /\ JobsKnown'
    BY <1>2, <1>3, <1>15, OffIs DEF OneActor, NoJobBefore, StopKnows, JobsKnown, Actors
  <1>17. BeginsFresh'
    BY <1>1, <1>2, <1>3 DEF JobInv, BeginsFresh, NoManifest, Actors
  <1>18. Queued'
    <2>1. UNCHANGED <<manifest, result, asked, began>>
      BY <1>1
    <2>2. acts'["restore"] = acts["restore"] \/ (acts'["restore"].at = "result" /\ acts'["restore"].item = "failed")
      BY <1>2, <1>3 DEF Actors
    <2> QED
      BY <2>1, <2>2 DEF JobInv, Queued, SaidSo, NoManifest, TornManifest
  <1> QED
    BY <1>6, <1>9, <1>11, <1>12, <1>13, <1>14, <1>16, <1>17, <1>18 DEF JobInv

\* Either way of Record.
LEMMA JobRecord == ASSUME JobInv, NEW a \in Actors, Record(a) PROVE JobInv'
  BY JobRecorded, JobUnrecorded DEF Record

\* The record and the process table stay, and so does the lane; what is left to
\* show is about the restore and the manifest.
LEMMA RestoreFrame ==
    ASSUME JobInv, UNCHANGED <<procs, clock, boot, rec, struck, excused>>, acts'["lane"] = acts["lane"],
           \/ acts'["restore"] = acts["restore"]
           \/ acts["restore"].at # "record" /\ acts'["restore"].at # "record" /\ acts["restore"].at # "off",
           JobTyped', NoJobBefore', BeginsFresh', Queued'
    PROVE  JobInv'
  <1>1. /\ \A a \in Actors : acts'[a].at = "record" <=> acts[a].at = "record"
        /\ \A a \in Actors : acts'[a].at = "record" => acts'[a] = acts[a]
    BY DEF Actors
  <1>2. ProcsSound' /\ RecSound' /\ SpawnSound' /\ GroupSound' /\ struck' = FALSE
    BY <1>1, ActsFrame
  <1>3. JobsKnown'
    BY <1>1, KnownFrame
  <1>4. OneActor'
    BY DEF JobInv, OneActor
  <1>5. StopKnows'
    BY SameProcs DEF JobInv, StopKnows
  <1> QED
    BY <1>2, <1>3, <1>4, <1>5 DEF JobInv

\* The commands that leave both actors where they are.
LEMMA HostFrame ==
    ASSUME JobInv, UNCHANGED <<procs, clock, boot, rec, acts, struck, excused>>,
           acts["restore"].at # "begin" \/ UNCHANGED <<host, manifest>>, JobTyped', Queued'
    PROVE  JobInv'
  <1>1. \A p \in Pids : Job(p)' = Job(p)
    BY SameProcs
  <1>2. NoJobBefore'
    BY <1>1 DEF JobInv, NoJobBefore, NoManifest, TornManifest
  <1>3. BeginsFresh'
    BY DEF JobInv, BeginsFresh, NoManifest
  <1> QED
    BY <1>2, <1>3, RestoreFrame

\* A session that is opened, typed into, or closed leaves sessions.
LEMMA ScreensAre ==
    ASSUME JobInv
    PROVE  /\ \A s \in ScreenStarted : s \in Seq({"idle", "busy"})
           /\ ScreenCommand => screens' \in Seq({"idle", "busy"})
           /\ Append(screens, "idle") \in Seq({"idle", "busy"})
  <1>1. screens \in Seq({"idle", "busy"})
    BY DEF JobInv, JobTyped
  <1>2. ASSUME screens # <<>>, NEW e \in {"idle", "busy"}
        PROVE  [screens EXCEPT ![1] = e] \in Seq({"idle", "busy"})
    <2>1. Len(screens) \in Nat /\ Len(screens) >= 1 /\ screens \in [1..Len(screens) -> {"idle", "busy"}]
      BY <1>1, <1>2
    <2>2. [screens EXCEPT ![1] = e] \in [1..Len(screens) -> {"idle", "busy"}]
      BY <2>1
    <2> QED
      BY <2>1, <2>2
  <1>3. screens # <<>> => Tail(screens) \in Seq({"idle", "busy"})
    BY <1>1
  <1>4. \A s \in ScreenStarted : s \in Seq({"idle", "busy"})
    <2>1. <<"busy">> \in Seq({"idle", "busy"}) /\ <<"idle">> \in Seq({"idle", "busy"})
      OBVIOUS
    <2>2. screens # <<>> => [screens EXCEPT ![1] = "busy"] \in Seq({"idle", "busy"})
      BY <1>2
    <2>3. \A s \in ScreenStarted : s \in {<<"busy">>, <<"idle">>, screens}
                                   \/ (screens # <<>> /\ s = [screens EXCEPT ![1] = "busy"])
      BY Zenon DEF ScreenStarted
    <2> QED
      BY <1>1, <2>1, <2>2, <2>3, Zenon
  <1>5. ASSUME ScreenCommand PROVE screens' \in Seq({"idle", "busy"})
    <2>1. \/ screens' \in ScreenStarted
          \/ screens # <<>> /\ screens' = [screens EXCEPT ![1] = "idle"]
          \/ screens # <<>> /\ screens' = Tail(screens)
      BY <1>5, Zenon DEF ScreenCommand
    <2>2. screens # <<>> => [screens EXCEPT ![1] = "idle"] \in Seq({"idle", "busy"})
      BY <1>2
    <2> QED
      BY <1>3, <1>4, <2>1, <2>2, Zenon
  <1>6. Append(screens, "idle") \in Seq({"idle", "busy"})
    BY <1>1
  <1> QED
    BY <1>4, <1>5, <1>6

\* ScreenCommand
LEMMA JobScreen == JobInv /\ ScreenCommand => JobInv'
  <1> SUFFICES ASSUME JobInv, ScreenCommand PROVE JobInv'
    OBVIOUS
  <1>1. /\ UNCHANGED <<procs, clock, boot, rec, acts, host, manifest, result, pending, struck, excused, asked, began>>
        /\ acts["restore"].at # "begin"
    BY DEF ScreenCommand, hostSide, history, Command
  <1>2. JobTyped'
    BY <1>1, ScreensAre DEF JobInv, JobTyped
  <1>3. Queued'
    BY <1>1 DEF JobInv, Queued, SaidSo, NoManifest, TornManifest
  <1> QED
    BY <1>1, <1>2, <1>3, HostFrame

\* Reboot: what runs is noted.
LEMMA JobReboot == JobInv /\ Reboot => JobInv'
  <1> SUFFICES ASSUME JobInv, Reboot PROVE JobInv'
    OBVIOUS
  <1>1. /\ UNCHANGED <<procs, clock, boot, rec, screens, acts, manifest, result, pending, struck, excused, asked, began>>
        /\ acts["restore"].at # "begin"
    BY DEF Reboot, history, Command
  <1>2. Running \in Flags
    BY FlagsAre, Zenon DEF Running, JobProcess
  <1>3. (IF screens = <<>> THEN "none" ELSE screens[1]) \in {"none", "idle", "busy"}
    BY DEF JobInv, JobTyped
  <1>4. host' \in Manifests /\ host' # TornManifest
    BY <1>2, <1>3 DEF Reboot, Snapshot, Manifests, Noted, TornManifest
  <1>5. JobTyped'
    BY <1>1, <1>4 DEF JobInv, JobTyped
  <1>6. Queued'
    BY <1>1 DEF JobInv, Queued, SaidSo, NoManifest, TornManifest
  <1> QED
    BY <1>1, <1>5, <1>6, HostFrame

\* WriteManifest: what was noted is what is asked for.
LEMMA JobWriteManifest == JobInv /\ WriteManifest => JobInv'
  <1> SUFFICES ASSUME JobInv, WriteManifest PROVE JobInv'
    OBVIOUS
  <1>1. /\ UNCHANGED <<procs, clock, boot, rec, screens, acts, struck, excused>>
        /\ host # NoManifest /\ host' = NoManifest
    BY DEF WriteManifest
  <1>2. acts["restore"].at # "begin"
    BY <1>1 DEF JobInv, BeginsFresh
  <1>3. host' \in Manifests /\ host' # TornManifest /\ TornManifest \in Manifests /\ NoManifest \in Manifests
    BY <1>1, JobConstants
  <1>4. CASE /\ manifest' = host /\ result' = "absent" /\ pending' = TRUE
             /\ asked' = IF acts["restore"].at = "off" THEN host ELSE NoManifest
             /\ began' = FALSE
    <2>1. IsBool(pending') /\ IsBool(began')
      BY <1>4 DEF IsBool
    <2>2. JobTyped'
      BY <1>1, <1>3, <1>4, <2>1 DEF JobInv, JobTyped
    <2>3. Queued'
      <3>1. CASE acts["restore"].at = "off"
        BY <1>1, <1>4, <3>1 DEF Queued, NoManifest, TornManifest
      <3>2. CASE acts["restore"].at # "off"
        <4>1. asked' = NoManifest
          BY <1>4, <3>2
        <4>2. ~asked'.job
          BY <4>1 DEF NoManifest
        <4> QED
          BY <4>2 DEF Queued
      <3> QED
        BY <3>1, <3>2
    <2> QED
      BY <1>1, <1>2, <2>2, <2>3, HostFrame
  <1>5. CASE manifest' \in {manifest, TornManifest} /\ UNCHANGED <<result, pending, asked, began>>
    <2>1. JobTyped'
      BY <1>1, <1>3, <1>5 DEF JobInv, JobTyped
    <2>2. Queued'
      BY <1>1, <1>5 DEF JobInv, Queued, SaidSo, NoManifest, TornManifest
    <2> QED
      BY <1>1, <1>2, <2>1, <2>2, HostFrame
  <1> QED
    BY <1>4, <1>5 DEF WriteManifest

\* A reboot without restore, and one that never comes.
LEMMA JobRebootPlain == JobInv /\ (RebootPlain \/ RebootFails) => JobInv'
  <1> SUFFICES ASSUME JobInv, RebootPlain \/ RebootFails PROVE JobInv'
    OBVIOUS
  <1>1. CASE RebootPlain
    <2>1. /\ UNCHANGED <<procs, clock, boot, rec, screens, acts, host, struck, excused, began>>
          /\ manifest' = NoManifest /\ result' = "absent" /\ asked' = NoManifest /\ acts["restore"].at # "begin"
      BY <1>1 DEF RebootPlain, Command
    <2>2. IsBool(pending')
      BY <1>1 DEF RebootPlain, IsBool
    <2>3. NoManifest \in Manifests
      BY JobConstants
    <2>4. JobTyped'
      BY <2>1, <2>2, <2>3 DEF JobInv, JobTyped
    <2>5. ~asked'.job
      BY <2>1 DEF NoManifest
    <2>6. Queued'
      BY <2>5 DEF Queued
    <2> QED
      BY <2>1, <2>4, <2>6, HostFrame
  <1>2. CASE RebootFails
    <2>1. UNCHANGED <<procs, clock, boot, rec, screens, acts, host, manifest, result, struck, excused, asked, began>>
      BY <1>2 DEF RebootFails, history
    <2>2. IsBool(pending')
      BY <1>2 DEF RebootFails, IsBool
    <2>3. JobTyped'
      BY <2>1, <2>2 DEF JobInv, JobTyped
    <2>4. Queued'
      BY <2>1 DEF JobInv, Queued, SaidSo, NoManifest, TornManifest
    <2> QED
      BY <2>1, <2>3, <2>4, HostFrame
  <1> QED
    BY <1>1, <1>2

\* A manifest that is neither absent nor torn, as the restore reads it.
LEMMA RestoreReads == JobInv /\ RestoreBegins => JobInv'
  <1> SUFFICES ASSUME JobInv, RestoreBegins PROVE JobInv'
    OBVIOUS
  <1>1. /\ UNCHANGED <<procs, clock, boot, rec, screens, host, manifest, pending, struck, excused, asked, began>>
        /\ acts["restore"].at = "begin"
    BY DEF RestoreBegins, history, WhileWorking
  <1>2. "restore" \in Actors /\ "lane" \in Actors /\ "off" \in RestoreAts /\ "remove" \in RestoreAts /\ "screen" \in RestoreAts
    BY DEF Actors, RestoreAts
  <1>3. \A p \in Pids : Job(p)' = Job(p)
    BY <1>1, SameProcs
  <1>4. CASE manifest = NoManifest
    <2>1. Step("restore", "off") /\ UNCHANGED result
      BY <1>4 DEF RestoreBegins
    <2>2. /\ acts' \in [Actors -> Acts] /\ acts'["lane"] = acts["lane"] /\ acts'["restore"].at = "off"
      BY <1>2, <2>1, StepIs
    <2>3. JobTyped'
      BY <1>1, <1>2, <2>1, <2>2 DEF JobInv, JobTyped
    <2>4. NoJobBefore' /\ BeginsFresh'
      BY <1>1, <1>3, <2>2 DEF JobInv, NoJobBefore, BeginsFresh
    <2>5. Queued'
      BY <1>1, <2>1, <2>2 DEF JobInv, Queued, SaidSo, NoManifest, TornManifest
    <2> QED
      BY <1>1, <2>2, <2>3, <2>4, <2>5, RestoreFrame
  <1>5. CASE manifest = TornManifest
    <2>1. Step("restore", "remove") /\ result' = "torn"
      BY <1>5, JobConstants DEF RestoreBegins
    <2>2. /\ acts' \in [Actors -> Acts] /\ acts'["lane"] = acts["lane"] /\ acts'["restore"].at = "remove"
      BY <1>2, <2>1, StepIs
    <2>3. JobTyped'
      BY <1>1, <1>2, <2>1, <2>2 DEF JobInv, JobTyped
    <2>4. NoJobBefore' /\ BeginsFresh'
      BY <1>1, <1>3, <2>2 DEF JobInv, NoJobBefore, BeginsFresh
    <2>5. Queued'
      BY <1>1, <2>1, <2>2 DEF JobInv, Queued, SaidSo, NoManifest, TornManifest
    <2> QED
      BY <1>1, <2>2, <2>3, <2>4, <2>5, RestoreFrame
  <1>6. CASE manifest # NoManifest /\ manifest # TornManifest
    <2>1. acts' = [acts EXCEPT !["restore"] = [@ EXCEPT !.at = "screen", !.todo = manifest]] /\ UNCHANGED result
      BY <1>6 DEF RestoreBegins
    <2>2. acts \in [Actors -> Acts] /\ manifest \in Manifests
      BY DEF JobInv, JobTyped
    <2>3. /\ [acts["restore"] EXCEPT !.at = "screen", !.todo = manifest] \in Acts
          /\ [acts["restore"] EXCEPT !.at = "screen", !.todo = manifest].at = "screen"
          /\ [acts["restore"] EXCEPT !.at = "screen", !.todo = manifest].todo = manifest
      BY <1>2, <2>2 DEF Acts
    <2>9. manifest \in Noted
      BY <1>6, <2>2 DEF Manifests
    <2>4. /\ acts' \in [Actors -> Acts] /\ acts'["lane"] = acts["lane"] /\ acts'["restore"].at = "screen"
          /\ acts'["restore"].todo = manifest
      BY <1>2, <2>1, <2>2, <2>3
    <2>5. JobTyped'
      BY <1>1, <1>2, <2>1, <2>4 DEF JobInv, JobTyped
    <2>6. NoJobBefore' /\ BeginsFresh'
      BY <1>1, <1>3, <1>6, <2>4, <2>9 DEF JobInv, NoJobBefore, BeginsFresh
    <2>7. Queued'
      BY <1>1, <1>6, <2>1, <2>4 DEF JobInv, Queued, SaidSo, NoManifest, TornManifest
    <2> QED
      BY <1>1, <2>4, <2>5, <2>6, <2>7, RestoreFrame
  <1> QED
    BY <1>4, <1>5, <1>6

\* RestoreScreen
LEMMA JobRestoreScreen == JobInv /\ RestoreScreen => JobInv'
  <1> SUFFICES ASSUME JobInv, RestoreScreen PROVE JobInv'
    OBVIOUS
  <1> DEFINE next == IF acts["restore"].todo.job THEN "read" ELSE "result"
  <1>1. /\ UNCHANGED <<procs, clock, boot, rec, host, manifest, result, pending, struck, excused, asked, began>>
        /\ acts["restore"].at = "screen" /\ Step("restore", next)
    BY DEF RestoreScreen, hostSide, history
  <1>2. "restore" \in Actors /\ "lane" \in Actors /\ next \in {"read", "result"} /\ next \in RestoreAts
    BY DEF Actors, RestoreAts
  <1>3. next = "result" => ~acts["restore"].todo.job
    OBVIOUS
  <1>4. \A p \in Pids : Job(p)' = Job(p)
    BY <1>1, SameProcs
  <1> HIDE DEF next
  <1>5. /\ acts' \in [Actors -> Acts] /\ acts'["lane"] = acts["lane"] /\ acts'["restore"].at = next
    BY <1>1, <1>2, StepIs
  <1>6. screens' \in Seq({"idle", "busy"})
    <2>1. screens' = screens \/ screens' = Append(screens, "idle") \/ screens' \in ScreenStarted
      <3>1. acts["restore"].todo.screen \in {"none", "idle", "busy"}
        BY <1>1 DEF JobInv, BeginsFresh, Noted
      <3> QED
        BY <3>1 DEF RestoreScreen
    <2>2. screens \in Seq({"idle", "busy"})
      BY DEF JobInv, JobTyped
    <2> QED
      BY <2>1, <2>2, ScreensAre, Zenon
  <1>7. JobTyped'
    BY <1>1, <1>2, <1>5, <1>6 DEF JobInv, JobTyped
  <1>8. NoJobBefore' /\ BeginsFresh'
    BY <1>1, <1>2, <1>4, <1>5 DEF JobInv, NoJobBefore, BeginsFresh
  <1>9. Queued'
    BY <1>1, <1>2, <1>3, <1>5 DEF JobInv, Queued, SaidSo, NoManifest, TornManifest
  <1> QED
    BY <1>1, <1>2, <1>5, <1>7, <1>8, <1>9, RestoreFrame

\* The record goes while no job is live, or one is excused.
LEMMA RecordGoes ==
    ASSUME JobInv, UNCHANGED <<procs, clock, boot, struck, excused>>, rec' = NoRec,
           NEW a \in Actors, \A b \in Actors : b # a => acts'[b] = acts[b],
           acts[a].at # "off", acts[a].at # "record", acts'[a].at # "record", acts'[a].at \notin {"term", "kill"},
           acts'[a].group \subseteq acts[a].group, ~excused => \A p \in Pids : ~Job(p),
           JobTyped', BeginsFresh', Queued'
    PROVE  JobInv'
  <1>1. a = "lane" \/ a = "restore"
    BY DEF Actors
  <1>2. ProcsSound' /\ \A p \in Pids : Job(p)' = Job(p)
    BY SameProcs
  <1>3. RecSound'
    <2>1. boot \in 1..MaxBoots /\ MaxBoots \in Nat
      BY JobsAssumption DEF JobInv, JobTyped
    <2> QED
      BY <2>1 DEF RecSound, NoRec
  <1>4. SpawnSound' /\ GroupSound'
    <2>1. \A b \in Actors : acts'[b].at = "record" => acts'[b] = acts[b]
      OBVIOUS
    <2>2. acts'["lane"].group \subseteq acts["lane"].group
      BY <1>1 DEF Actors
    <2> QED
      BY <2>1, <2>2, SameProcs DEF JobInv, SpawnSound, GroupSound
  <1>5. struck' = FALSE
    BY DEF JobInv
  <1>6. OneActor'
    BY <1>1 DEF JobInv, OneActor, Actors
  <1>7. JobsKnown' /\ NoJobBefore' /\ StopKnows'
    BY <1>2 DEF JobsKnown, NoJobBefore, StopKnows
  <1> QED
    BY <1>2, <1>3, <1>4, <1>5, <1>6, <1>7 DEF JobInv

\* RestoreNohup
LEMMA JobRestoreNohup == JobInv /\ RestoreNohup => JobInv'
  <1> SUFFICES ASSUME JobInv, RestoreNohup PROVE JobInv'
    OBVIOUS
  <1>1. /\ UNCHANGED <<procs, clock, boot, screens, host, manifest, result, pending, struck, excused, asked, began>>
        /\ acts["restore"].at = "read"
    BY DEF RestoreNohup, hostSide, history
  <1>2. "restore" \in Actors /\ "lane" \in Actors /\ "check" \in RestoreAts /\ "result" \in RestoreAts
    BY DEF Actors, RestoreAts
  <1>3. CASE Ends("restore", "failed") /\ UNCHANGED rec
    <2>1. /\ acts' \in [Actors -> Acts] /\ acts'["lane"] = acts["lane"]
          /\ acts'["restore"].at = "result" /\ acts'["restore"].item = "failed"
      BY <1>2, <1>3, EndsIs
    <2>2. JobTyped'
      BY <1>1, <1>2, <1>3, <2>1 DEF JobInv, JobTyped
    <2>3. NoJobBefore' /\ BeginsFresh'
      <3>1. \A p \in Pids : Job(p)' = Job(p)
        BY <1>1, SameProcs
      <3> QED
        BY <1>1, <2>1, <3>1 DEF JobInv, NoJobBefore, BeginsFresh
    <2>4. Queued'
      BY <1>1, <2>1 DEF JobInv, Queued, SaidSo, NoManifest, TornManifest
    <2> QED
      BY <1>1, <1>3, <2>1, <2>2, <2>3, <2>4, RestoreFrame
  <1>4. CASE Step("restore", "check") /\ rec' = NoRec
    <2>1. /\ acts' \in [Actors -> Acts] /\ \A b \in Actors : b # "restore" => acts'[b] = acts[b]
          /\ acts'["restore"].at = "check" /\ acts'["restore"].group = acts["restore"].group
      BY <1>2, <1>4, StepIs
    <2>2. NoRec \in [pid: {0} \cup Pids, boot: Nat, start: Nat]
      BY JobConstants
    <2>3. JobTyped'
      BY <1>1, <1>2, <1>4, <2>1, <2>2 DEF JobInv, JobTyped
    <2>4. BeginsFresh' /\ Queued'
      BY <1>1, <2>1 DEF JobInv, BeginsFresh, Queued, SaidSo, NoManifest, TornManifest
    <2>5. ~excused => \A p \in Pids : ~Job(p)
      BY <1>1 DEF JobInv, NoJobBefore
    <2> QED
      BY <1>1, <1>2, <1>4, <2>1, <2>3, <2>4, <2>5, RecordGoes
  <1> QED
    BY <1>3, <1>4 DEF RestoreNohup

\* RestoreResult
LEMMA JobRestoreResult == JobInv /\ RestoreResult => JobInv'
  <1> SUFFICES ASSUME JobInv, RestoreResult PROVE JobInv'
    OBVIOUS
  <1>1. /\ UNCHANGED <<procs, clock, boot, rec, screens, host, manifest, pending, struck, excused, began>>
        /\ acts["restore"].at = "result" /\ Step("restore", "remove")
    BY DEF RestoreResult
  <1>2. "restore" \in Actors /\ "lane" \in Actors /\ "remove" \in RestoreAts
    BY DEF Actors, RestoreAts
  <1>3. /\ acts' \in [Actors -> Acts] /\ acts'["lane"] = acts["lane"] /\ acts'["restore"].at = "remove"
    BY <1>1, <1>2, StepIs
  <1>4. NoJobBefore' /\ BeginsFresh'
    <2>1. \A p \in Pids : Job(p)' = Job(p)
      BY <1>1, SameProcs
    <2> QED
      BY <1>1, <1>3, <2>1 DEF JobInv, NoJobBefore, BeginsFresh
  <1>5. CASE result' = acts["restore"].item /\ UNCHANGED asked
    <2>1. acts["restore"].item \in {"none", "ok", "failed"}
      BY <1>2 DEF JobInv, JobTyped, Acts
    <2>2. JobTyped'
      BY <1>1, <1>2, <1>3, <1>5, <2>1 DEF JobInv, JobTyped
    <2>3. Queued'
      BY <1>1, <1>3, <1>5 DEF JobInv, Queued, SaidSo, NoManifest, TornManifest
    <2> QED
      BY <1>1, <1>3, <1>4, <2>2, <2>3, RestoreFrame
  <1>6. CASE UNCHANGED result /\ asked' = NoManifest
    <2>1. NoManifest \in Manifests
      BY JobConstants
    <2>2. JobTyped'
      BY <1>1, <1>2, <1>3, <1>6, <2>1 DEF JobInv, JobTyped
    <2>3. ~asked'.job
      BY <1>6 DEF NoManifest
    <2>4. Queued'
      BY <2>3 DEF Queued
    <2> QED
      BY <1>1, <1>3, <1>4, <2>2, <2>4, RestoreFrame
  <1> QED
    BY <1>5, <1>6 DEF RestoreResult

\* RestoreEnds
LEMMA JobRestoreEnds == JobInv /\ RestoreEnds => JobInv'
  <1> SUFFICES ASSUME JobInv, RestoreEnds PROVE JobInv'
    OBVIOUS
  <1>1. /\ UNCHANGED <<procs, clock, boot, rec, screens, host, result, pending, struck, excused, asked, began>>
        /\ acts["restore"].at = "remove" /\ manifest' = NoManifest /\ acts' = [acts EXCEPT !["restore"] = Off]
    BY DEF RestoreEnds, history
  <1>2. "restore" \in Actors /\ "lane" \in Actors /\ "off" \in RestoreAts
    BY DEF Actors, RestoreAts
  <1>3. /\ acts' \in [Actors -> Acts] /\ acts'["lane"] = acts["lane"] /\ acts'["restore"].at = "off"
    BY <1>1, <1>2, OffIs DEF JobInv, JobTyped
  <1>4. NoManifest \in Manifests
    BY JobConstants
  <1>5. JobTyped'
    BY <1>1, <1>2, <1>3, <1>4 DEF JobInv, JobTyped
  <1>6. NoJobBefore' /\ BeginsFresh'
    <2>1. \A p \in Pids : Job(p)' = Job(p)
      BY <1>1, SameProcs
    <2> QED
      BY <1>1, <1>3, <2>1 DEF JobInv, NoJobBefore, BeginsFresh
  <1>7. Queued'
    BY <1>1, <1>3 DEF JobInv, Queued, SaidSo, NoManifest
  <1> QED
    BY <1>1, <1>3, <1>5, <1>6, <1>7, RestoreFrame

\* Forget: the job's files go.
LEMMA JobForget == JobInv /\ Forget => JobInv'
  <1> SUFFICES ASSUME JobInv, Forget PROVE JobInv'
    OBVIOUS
  <1>1. /\ UNCHANGED <<procs, clock, boot, screens, host, manifest, result, pending, struck, excused, asked, began>>
        /\ acts["lane"].at = "forget" /\ rec' = NoRec /\ Ends("lane", "none")
    BY DEF Forget, hostSide, history
  <1>2. "restore" \in Actors /\ "lane" \in Actors /\ "off" \in LaneAts
    BY DEF Actors, LaneAts
  <1>3. /\ acts' \in [Actors -> Acts] /\ \A b \in Actors : b # "lane" => acts'[b] = acts[b]
        /\ acts'["lane"].at = "off" /\ acts'["lane"].group = {}
    BY <1>1, <1>2, EndsIs, OffIs
  <1>4. NoRec \in [pid: {0} \cup Pids, boot: Nat, start: Nat]
    BY JobConstants
  <1>5. JobTyped'
    BY <1>1, <1>2, <1>3, <1>4 DEF JobInv, JobTyped
  <1>6. BeginsFresh' /\ Queued'
    <2>1. acts'["restore"] = acts["restore"]
      BY <1>2, <1>3
    <2> QED
      BY <1>1, <2>1 DEF JobInv, BeginsFresh, Queued, SaidSo, NoManifest, TornManifest
  <1>7. ~excused => \A p \in Pids : ~Job(p)
    BY <1>1 DEF JobInv, NoJobBefore
  <1> QED
    BY <1>1, <1>2, <1>3, <1>5, <1>6, <1>7, RecordGoes

\* The members of a job's group: none is somebody else's, and the job is one.
LEMMA MembersAre ==
    ASSUME JobInv, Running
    PROVE  /\ rec.pid \in Pids /\ Members(rec.pid) \in SUBSET Pins
           /\ \A r \in Members(rec.pid) : r.start <= clock /\ procs[r.pid].of # "other"
           /\ Job(rec.pid) => [pid |-> rec.pid, start |-> procs[rec.pid].start] \in Members(rec.pid)
  <1> DEFINE leader == rec.pid
             pin(p) == [pid |-> p, start |-> procs[p].start]
  <1>1. leader \in Pids /\ procs[leader] # Nobody
    BY DEF JobInv, JobTyped, Running, JobProcess
  <1>2. procs \in [Pids -> ProcRecs] /\ clock \in Nat
    BY JobsAssumption DEF JobInv, JobTyped
  <1>3. Live(leader) /\ procs[leader].of # "other"
    <2>1. Live(leader)
      BY <1>1 DEF JobInv, ProcsSound
    <2>2. CASE rec.start # 0
      <3>1. rec.boot = boot /\ procs[leader].start = rec.start /\ leader # 0
        BY <2>2 DEF Running, JobProcess, Pinned
      <3>2. NamesJob(rec.pid, rec.start)
        BY <3>1 DEF JobInv, RecSound
      <3> QED
        BY <1>1, <2>1, <3>1, <3>2 DEF NamesJob, Job
    <2>3. CASE rec.start = 0
      BY <2>1, <2>3 DEF Running, JobProcess
    <2> QED
      BY <2>1, <2>2, <2>3
  <1>4. \A q \in Pids : procs[q] # Nobody => procs[q].start \in Nat /\ procs[q].start <= clock
    <2>1. \A q \in Pids : procs[q] # Nobody => procs[q].start \in 1..clock
      BY DEF JobInv, ProcsSound
    <2> QED
      BY <1>2, <2>1
  <1>5. \A q \in Pids : procs[q].of = "other" /\ procs[q].group = leader => q = leader
    BY DEF JobInv, ProcsSound
  <1>6. \A r \in Members(leader) : \E q \in Pids : r = pin(q) /\ procs[q] # Nobody /\ (procs[q].group = leader \/ q = leader)
    BY <1>1 DEF Members
  <1>7. ASSUME NEW r \in Members(leader) PROVE r \in Pins /\ r.start <= clock /\ procs[r.pid].of # "other"
    <2>1. PICK q \in Pids : r = pin(q) /\ procs[q] # Nobody /\ (procs[q].group = leader \/ q = leader)
      BY <1>6, <1>7
    <2>2. r.pid = q /\ r.start = procs[q].start /\ r \in Pins
      BY <1>4, <2>1 DEF Pins
    <2> QED
      BY <1>3, <1>4, <1>5, <2>1, <2>2
  <1>8. Job(leader) => pin(leader) \in Members(leader)
    BY <1>1 DEF Members
  <1> QED
    BY <1>1, <1>7, <1>8

\* NohupStop
LEMMA JobNohupStop == JobInv /\ NohupStop => JobInv'
  <1> SUFFICES ASSUME JobInv, NohupStop PROVE JobInv'
    OBVIOUS
  <1>1. /\ UNCHANGED <<procs, clock, boot, rec, screens, host, manifest, result, pending, struck, asked, began>>
        /\ acts["lane"].at = "off"
        /\ acts' = [acts EXCEPT !["lane"] = IF Running THEN [@ EXCEPT !.at = "term", !.group = Members(rec.pid)]
                                            ELSE [@ EXCEPT !.at = "forget"]]
    BY DEF NohupStop, hostSide
  <1>2. IsBool(excused') /\ (~excused' => ~excused /\ acts["restore"].at = "off")
    BY Zenon DEF NohupStop, JobInv, JobTyped, IsBool
  <1>3. "restore" \in Actors /\ "lane" \in Actors /\ "forget" \in LaneAts /\ "term" \in LaneAts
    BY DEF Actors, LaneAts
  <1>4. acts \in [Actors -> Acts]
    BY DEF JobInv, JobTyped
  <1>5. /\ acts' \in [Actors -> Acts] /\ acts'["restore"] = acts["restore"]
        /\ Running => acts'["lane"].at = "term" /\ acts'["lane"].group = Members(rec.pid)
        /\ ~Running => acts'["lane"].at = "forget" /\ acts'["lane"].group = acts["lane"].group
    <2>1. CASE Running
      <3>1. acts' = [acts EXCEPT !["lane"] = [acts["lane"] EXCEPT !.at = "term", !.group = Members(rec.pid)]]
        BY <1>1, <2>1
      <3>2. Members(rec.pid) \in SUBSET Pins
        BY <2>1, MembersAre
      <3>3. /\ [acts["lane"] EXCEPT !.at = "term", !.group = Members(rec.pid)] \in Acts
            /\ [acts["lane"] EXCEPT !.at = "term", !.group = Members(rec.pid)].at = "term"
            /\ [acts["lane"] EXCEPT !.at = "term", !.group = Members(rec.pid)].group = Members(rec.pid)
        BY <1>3, <1>4, <3>2 DEF Acts
      <3> QED
        BY <1>3, <1>4, <2>1, <3>1, <3>3
    <2>2. CASE ~Running
      <3>1. acts' = [acts EXCEPT !["lane"] = [acts["lane"] EXCEPT !.at = "forget"]]
        BY <1>1, <2>2
      <3>2. /\ [acts["lane"] EXCEPT !.at = "forget"] \in Acts
            /\ [acts["lane"] EXCEPT !.at = "forget"].at = "forget"
            /\ [acts["lane"] EXCEPT !.at = "forget"].group = acts["lane"].group
        BY <1>3, <1>4 DEF Acts
      <3> QED
        BY <1>3, <1>4, <2>2, <3>1, <3>2
    <2> QED
      BY <2>1, <2>2
  <1>6. acts'["lane"].at \in {"term", "forget"}
    BY <1>5
  <1>7. JobTyped'
    BY <1>1, <1>2, <1>3, <1>5, <1>6 DEF JobInv, JobTyped
  <1>8. \A p \in Pids : Job(p)' = Job(p)
    BY <1>1, SameProcs
  <1>9. ~excused' => \A p \in Pids : Job(p) => Running /\ rec.pid = p
    <2>1. ~excused' => \A p \in Pids : Job(p) => Recorded(p)
      BY <1>1, <1>2 DEF JobInv, JobsKnown, Actors
    <2> QED
      BY <2>1, RecordedRuns
  <1>10. ProcsSound' /\ RecSound' /\ SpawnSound' /\ struck' = FALSE
    <2>1. \A a \in Actors : acts'[a].at = "record" => acts'[a] = acts[a]
      BY <1>5, <1>6 DEF Actors
    <2>2. ProcsSound' /\ RecSound' /\ SpawnSound'
      BY <1>1, <2>1, SameProcs, ZenonT(40) DEF JobInv, RecSound, SpawnSound
    <2>3. struck' = FALSE
      BY <1>1 DEF JobInv
    <2> QED
      BY <2>2, <2>3, Zenon
  <1>11. GroupSound'
    <2>1. CASE Running
      BY <1>1, <1>5, <2>1, MembersAre DEF GroupSound
    <2>2. CASE ~Running
      BY <1>1, <1>5, <2>2, SameProcs DEF JobInv, GroupSound
    <2> QED
      BY <2>1, <2>2
  <1>12. JobsKnown'
    <2>1. /\ \A a \in Actors : acts'[a].at = "record" <=> acts[a].at = "record"
          /\ \A a \in Actors : acts'[a].at = "record" => acts'[a] = acts[a]
      BY <1>1, <1>5, <1>6 DEF Actors
    <2> QED
      BY <1>1, <1>2, <2>1, KnownFrame
  <1>13. OneActor'
    BY <1>2, <1>5 DEF OneActor
  <1>14. NoJobBefore'
    <2>1. SUFFICES ASSUME ~excused', NEW p \in Pids, Job(p) PROVE FALSE \/ (acts'["lane"].at = "term" /\ acts'["restore"].at = "off")
      BY <1>8 DEF NoJobBefore
    <2> QED
      BY <1>2, <1>5, <1>9, <2>1
  <1>15. StopKnows'
    <2>1. SUFFICES ASSUME ~excused', acts'["lane"].at = "term", NEW p \in Pids, Job(p)
                   PROVE  [pid |-> p, start |-> procs[p].start] \in acts'["lane"].group
      BY <1>1, <1>6, <1>8 DEF StopKnows
    <2> QED
      BY <1>5, <1>9, <2>1, MembersAre
  <1>16. BeginsFresh' /\ Queued'
    BY <1>1, <1>5 DEF JobInv, BeginsFresh, Queued, SaidSo, NoManifest, TornManifest
  <1> QED
    BY <1>7, <1>10, <1>11, <1>12, <1>13, <1>14, <1>15, <1>16 DEF JobInv

\* What a signal ends is the job's.
LEMMA HitIs ==
    ASSUME JobInv
    PROVE  \A p \in Hit : p \in Pids /\ procs[p].of # "other"
  <1>1. acts["lane"].group \subseteq Pins
    BY DEF JobInv, JobTyped, Acts, Actors
  <1>2. \A p \in Hit : \E r \in acts["lane"].group : p = r.pid /\ procs[r.pid] # Nobody /\ procs[r.pid].start = r.start
    BY DEF Hit, Still
  <1>3. \A p \in Pids : procs[p] # Nobody => Live(p)
    BY DEF JobInv, ProcsSound
  <1> QED
    BY <1>1, <1>2, <1>3 DEF JobInv, GroupSound, Pins

\* A signal to the job: Term and Kill.
LEMMA JobStrikes ==
    ASSUME JobInv, NEW at \in {"kill", "forget"}, acts["lane"].at \in {"term", "kill"},
           NEW dead \in SUBSET Hit, Strikes(dead), at = "forget" => dead = Hit, Step("lane", at),
           UNCHANGED <<clock, boot, rec, screens, hostSide, excused, asked, began>>
    PROVE  JobInv'
  <1>1. UNCHANGED <<host, manifest, result, pending>>
    BY DEF hostSide
  <1>2. "restore" \in Actors /\ "lane" \in Actors /\ at \in LaneAts
    BY DEF Actors, LaneAts
  <1>3. /\ acts' \in [Actors -> Acts] /\ acts'["restore"] = acts["restore"]
        /\ acts'["lane"].at = at /\ acts'["lane"].group = acts["lane"].group
    BY <1>2, StepIs
  <1>4. /\ procs' \in [Pids -> ProcRecs] /\ \A x \in Pids : procs'[x] = procs[x] \/ procs'[x] = Nobody
        /\ \A x \in dead : x \in Pids => procs'[x] = Nobody
    BY JobConstants DEF Strikes, JobInv, JobTyped
  <1>5. /\ ProcsSound'
        /\ \A p \in Pids : Job(p)' => Job(p) /\ procs'[p] = procs[p]
        /\ \A p \in Pids : Live(p)' => Live(p) /\ procs'[p] = procs[p]
        /\ \A pid, start \in Nat : NamesJob(pid, start) => NamesJob(pid, start)'
    <2>1. clock' \in {clock, clock + 1} /\ boot' = boot
      OBVIOUS
    <2> QED
      BY <1>4, <2>1, ProcsEnd
  <1>6. struck' = FALSE
    <2>1. ~(\E p \in Hit : procs[p].of = "other")
      BY HitIs
    <2> QED
      BY <2>1, Zenon DEF Strikes, JobInv
  <1>7. JobTyped'
    <2>1. IsBool(struck')
      BY <1>6, Zenon DEF IsBool
    <2> QED
      BY <1>1, <1>2, <1>3, <1>4, <2>1 DEF JobInv, JobTyped
  <1>8. rec.pid \in Nat /\ rec.start \in Nat /\ \A b \in Actors : acts[b].pid \in Nat /\ acts[b].start \in Nat
    <2>1. \A x \in {0} \cup Pids : x \in Nat
      BY PidsAre
    <2> QED
      BY <2>1 DEF JobInv, JobTyped, Acts
  <1>9. RecSound'
    BY <1>5, <1>8 DEF JobInv, RecSound
  <1>10. \A a \in Actors : (acts'[a].at = "record" <=> acts[a].at = "record") /\ (acts'[a].at = "record" => acts'[a] = acts[a])
    BY <1>3 DEF Actors
  <1>11. SpawnSound'
    BY <1>5, <1>8, <1>10 DEF JobInv, SpawnSound
  <1>12. GroupSound'
    BY <1>3, <1>5 DEF JobInv, GroupSound
  <1>13. OneActor'
    BY <1>3 DEF JobInv, OneActor
  <1>14. JobsKnown'
    <2>1. SUFFICES ASSUME ~excused, NEW p \in Pids, Job(p)'
                   PROVE  /\ (\A a \in Actors : acts'[a].at # "record") => Recorded(p)'
                          /\ \A a \in Actors : acts'[a].at = "record" => Recording(a, p)'
      BY DEF JobsKnown
    <2>2. Job(p) /\ procs'[p] = procs[p]
      BY <1>5, <2>1
    <2>3. Recorded(p)' = Recorded(p)
      BY <2>2 DEF Recorded
    <2>4. \A a \in Actors : acts'[a] = acts[a] => Recording(a, p)' = Recording(a, p)
      BY <2>2 DEF Recording
    <2> QED
      BY <1>10, <2>1, <2>2, <2>3, <2>4 DEF JobInv, JobsKnown
  <1>15. ASSUME ~excused, NEW p \in Pids, Job(p)'
         PROVE  [pid |-> p, start |-> procs'[p].start] \in acts'["lane"].group /\ at # "forget"
    <2>1. Job(p) /\ procs'[p] = procs[p]
      BY <1>5, <1>15
    <2>2. [pid |-> p, start |-> procs[p].start] \in acts["lane"].group
      BY <1>15, <2>1 DEF JobInv, StopKnows
    <2>3. procs[p] # Nobody
      BY <2>1 DEF Job, Nobody
    <2>4. p \in Hit
      BY <2>2, <2>3 DEF Hit, Still
    <2>5. p \notin dead
      BY <1>4, <2>1, <2>3
    <2> QED
      BY <1>3, <2>1, <2>2, <2>4, <2>5
  <1>16. StopKnows'
    BY <1>15 DEF StopKnows
  <1>17. NoJobBefore'
    BY <1>1, <1>3, <1>5, <1>15 DEF JobInv, NoJobBefore, NoManifest, TornManifest
  <1>18. BeginsFresh' /\ Queued'
    BY <1>1, <1>3 DEF JobInv, BeginsFresh, Queued, SaidSo, NoManifest, TornManifest
  <1> QED
    BY <1>5, <1>6, <1>7, <1>9, <1>11, <1>12, <1>13, <1>14, <1>16, <1>17, <1>18 DEF JobInv

\* Term and Kill
LEMMA JobSignals == JobInv /\ (Term \/ Kill) => JobInv'
  <1> SUFFICES ASSUME JobInv, Term \/ Kill PROVE JobInv'
    OBVIOUS
  <1>1. CASE Term
    <2>1. PICK dead \in SUBSET Hit : Strikes(dead)
      BY <1>1 DEF Term
    <2> QED
      BY <1>1, <2>1, JobStrikes DEF Term
  <1>2. CASE Kill
    BY <1>2, JobStrikes DEF Kill
  <1> QED
    BY <1>1, <1>2

\* What a crash leaves of the files, and of the actors.
LEMMA CutsAre ==
    ASSUME JobInv, rec' \in CutRec, manifest' \in CutManifest, host' = NoManifest, UNCHANGED <<result, asked, began>>,
           acts' = [a \in Actors |-> IF a = "restore" THEN Begin ELSE Off]
    PROVE  /\ acts' \in [Actors -> Acts] /\ acts'["lane"] = Off /\ acts'["restore"] = Begin
           /\ rec' = rec \/ (rec' = Torn /\ \E a \in Actors : acts[a].at = "record")
           /\ rec' \in [pid: {0} \cup Pids, boot: Nat, start: Nat]
           /\ manifest' \in {manifest, TornManifest} /\ manifest' \in Manifests
           /\ host' \in Manifests /\ host' # TornManifest
           /\ SpawnSound' /\ GroupSound' /\ OneActor' /\ StopKnows' /\ BeginsFresh' /\ Queued'
  <1>1. /\ acts' \in [Actors -> Acts] /\ acts'["lane"] = Off /\ acts'["restore"] = Begin
    BY OffIs DEF Actors
  <1>2. /\ rec' = rec \/ (rec' = Torn /\ \E a \in Actors : acts[a].at = "record")
    BY DEF CutRec
  <1>3. rec' \in [pid: {0} \cup Pids, boot: Nat, start: Nat]
    BY <1>2, JobConstants DEF JobInv, JobTyped
  <1>4. manifest' \in {manifest, TornManifest}
    BY DEF CutManifest
  <1>5. manifest' \in Manifests /\ host' \in Manifests /\ host' # TornManifest
    BY <1>4, JobConstants DEF JobInv, JobTyped
  <1>6. \A a \in Actors : acts'[a].at \in {"off", "begin"}
    BY <1>1, OffIs DEF Actors
  <1>7. SpawnSound' /\ GroupSound' /\ OneActor' /\ StopKnows'
    BY <1>1, <1>6, OffIs DEF SpawnSound, GroupSound, OneActor, StopKnows
  <1>8. BeginsFresh'
    BY <1>1, OffIs DEF BeginsFresh, NoManifest
  <1>9. Queued'
    BY <1>1, <1>4, OffIs DEF JobInv, Queued, SaidSo, NoManifest, TornManifest
  <1> QED
    BY <1>1, <1>2, <1>3, <1>4, <1>5, <1>7, <1>8, <1>9, Zenon

\* MachineBoots: no record is of this boot, and no process is.
LEMMA JobMachineBoots == JobInv /\ MachineBoots => JobInv'
  <1> SUFFICES ASSUME JobInv, MachineBoots PROVE JobInv'
    OBVIOUS
  <1>1. /\ boot < MaxBoots /\ boot' = boot + 1 /\ clock' = 0 /\ procs' = [p \in Pids |-> Nobody] /\ screens' = <<>>
        /\ UNCHANGED <<result, struck, asked, began>>
    BY DEF MachineBoots
  <1>2. /\ acts' \in [Actors -> Acts] /\ acts'["lane"] = Off /\ acts'["restore"] = Begin
        /\ rec' = rec \/ rec' = Torn
        /\ rec' \in [pid: {0} \cup Pids, boot: Nat, start: Nat]
        /\ manifest' \in Manifests /\ host' \in Manifests /\ host' # TornManifest
        /\ SpawnSound' /\ GroupSound' /\ OneActor' /\ StopKnows' /\ BeginsFresh' /\ Queued'
    BY CutsAre DEF MachineBoots
  <1>3. IsBool(excused') /\ IsBool(pending')
    BY DEF MachineBoots, IsBool
  <1>4. boot \in Nat /\ boot >= 1 /\ MaxBoots \in Nat /\ MaxStarts \in Nat
    BY JobsAssumption DEF JobInv, JobTyped
  <1>5. procs' \in [Pids -> ProcRecs] /\ \A p \in Pids : procs'[p] = Nobody
    BY <1>1, JobConstants
  <1>6. JobTyped'
    <2>1. acts'["lane"].at \in LaneAts /\ acts'["restore"].at \in RestoreAts
      BY <1>2, OffIs DEF LaneAts, RestoreAts
    <2>2. clock' \in 0..MaxStarts /\ boot' \in 1..MaxBoots /\ screens' \in Seq({"idle", "busy"})
      BY <1>1, <1>4
    <2>3. result' \in {"absent", "none", "torn", "ok", "failed"} /\ asked' \in Manifests /\ IsBool(struck') /\ IsBool(began')
      BY <1>1 DEF JobInv, JobTyped
    <2> QED
      BY <1>2, <1>3, <1>5, <2>1, <2>2, <2>3 DEF JobTyped
  <1>7. ProcsSound' /\ \A p \in Pids : ~Job(p)'
    BY <1>5 DEF ProcsSound, Job, Live, Nobody
  <1>8. RecSound'
    <2>1. rec'.boot \in Nat /\ rec'.boot <= boot
      BY <1>2, <1>4 DEF JobInv, RecSound, Torn
    <2> QED
      BY <1>1, <1>4, <2>1 DEF RecSound
  <1>9. struck' = FALSE
    BY <1>1 DEF JobInv
  <1>10. JobsKnown' /\ NoJobBefore'
    BY <1>7 DEF JobsKnown, NoJobBefore
  <1> QED
    BY <1>2, <1>6, <1>7, <1>8, <1>9, <1>10 DEF JobInv

\* AgentRestarts: between two operations and with nothing to restore, nothing
\* is lost track of.
LEMMA JobAgentRestarts == JobInv /\ AgentRestarts => JobInv'
  <1> SUFFICES ASSUME JobInv, AgentRestarts PROVE JobInv'
    OBVIOUS
  <1>1. UNCHANGED <<clock, boot, screens, result, struck, asked, began>>
    BY DEF AgentRestarts
  <1>2. /\ acts' \in [Actors -> Acts] /\ acts'["lane"] = Off /\ acts'["restore"] = Begin
        /\ rec' = rec \/ (rec' = Torn /\ \E a \in Actors : acts[a].at = "record")
        /\ rec' \in [pid: {0} \cup Pids, boot: Nat, start: Nat]
        /\ manifest' \in {manifest, TornManifest} /\ manifest' \in Manifests /\ host' \in Manifests /\ host' # TornManifest
        /\ SpawnSound' /\ GroupSound' /\ OneActor' /\ StopKnows' /\ BeginsFresh' /\ Queued'
    BY <1>1, CutsAre DEF AgentRestarts
  <1>3. IsBool(excused') /\ (~excused' => ~excused /\ ~MidOperation /\ manifest = NoManifest)
    BY Zenon DEF AgentRestarts, IsBool
  <1>4. IsBool(pending')
    BY DEF AgentRestarts, IsBool
  <1>5. procs' \in [Pids -> ProcRecs] /\ \A p \in Pids : procs'[p] = procs[p] \/ procs'[p] = Nobody
    <2>1. PICK goes \in BOOLEAN :
            procs' = [p \in Pids |-> IF goes /\ procs[p].of \in {"job", "worker"} THEN Nobody ELSE procs[p]]
      BY DEF AgentRestarts
    <2> QED
      BY <2>1, JobConstants DEF JobInv, JobTyped
  <1>6. /\ ProcsSound'
        /\ \A p \in Pids : Job(p)' => Job(p) /\ procs'[p] = procs[p]
        /\ \A pid, start \in Nat : NamesJob(pid, start) => NamesJob(pid, start)'
    <2>1. clock' \in {clock, clock + 1} /\ boot' = boot
      BY <1>1
    <2> QED
      BY <1>5, <2>1, ProcsEnd
  <1>7. JobTyped'
    <2>1. acts'["lane"].at \in LaneAts /\ acts'["restore"].at \in RestoreAts
      BY <1>2, OffIs DEF LaneAts, RestoreAts
    <2> QED
      BY <1>1, <1>2, <1>3, <1>4, <1>5, <2>1 DEF JobInv, JobTyped
  <1>8. RecSound'
    <2>1. CASE rec' = rec
      <3>1. rec.pid \in Nat /\ rec.start \in Nat
        <4>1. \A x \in {0} \cup Pids : x \in Nat
          BY PidsAre
        <4> QED
          BY <4>1 DEF JobInv, JobTyped
      <3> QED
        BY <1>1, <1>6, <2>1, <3>1 DEF JobInv, RecSound
    <2>2. CASE rec' = Torn
      <3>1. boot \in Nat /\ boot >= 1
        BY JobsAssumption DEF JobInv, JobTyped
      <3> QED
        BY <1>1, <2>2, <3>1 DEF RecSound, Torn
    <2> QED
      BY <1>2, <2>1, <2>2
  <1>9. struck' = FALSE
    BY <1>1 DEF JobInv
  <1>10. JobsKnown'
    <2>1. SUFFICES ASSUME ~excused', NEW p \in Pids, Job(p)' PROVE Recorded(p)' /\ \A a \in Actors : acts'[a].at # "record"
      BY DEF JobsKnown
    <2>2. \A a \in Actors : acts[a].at # "record"
      BY <1>3, <2>1 DEF MidOperation
    <2>3. rec' = rec /\ Job(p) /\ procs'[p] = procs[p]
      BY <1>2, <1>6, <2>1, <2>2
    <2>4. Recorded(p)
      BY <1>3, <2>1, <2>2, <2>3 DEF JobInv, JobsKnown
    <2>5. Recorded(p)'
      BY <1>1, <2>3, <2>4 DEF Recorded
    <2> QED
      BY <1>2, <2>5, OffIs DEF Actors
  <1>11. NoJobBefore'
    <2>1. acts'["lane"].at = "off" /\ acts'["restore"].at = "begin"
      BY <1>2, OffIs
    <2>2. ~excused' => manifest' \in {NoManifest, TornManifest}
      BY <1>2, <1>3
    <2> QED
      BY <2>1, <2>2 DEF NoJobBefore, NoManifest, TornManifest
  <1> QED
    BY <1>2, <1>6, <1>7, <1>8, <1>9, <1>10, <1>11 DEF JobInv

\* A step of another part of the server leaves the invariant.
LEMMA JobStutters == JobInv /\ UNCHANGED jobVars => JobInv'
  <1> SUFFICES ASSUME JobInv, UNCHANGED jobVars PROVE JobInv'
    OBVIOUS
  <1>1. UNCHANGED <<procs, clock, boot, rec, screens, acts, host, manifest, result, pending, struck, excused, asked, began>>
    BY DEF jobVars
  <1>2. JobTyped'
    BY <1>1 DEF JobInv, JobTyped
  <1>3. Queued'
    BY <1>1 DEF JobInv, Queued, SaidSo, NoManifest, TornManifest
  <1> QED
    BY <1>1, <1>2, <1>3, HostFrame

\* Every action of the component keeps its invariant.
LEMMA JobStep == JobInv /\ Next => JobInv'
  BY JobProcesses, JobNohupStart, JobNohupStop, JobSignals, JobForget, JobScreen, JobCheck, JobRecord, JobSpawn,
     RestoreReads, JobRestoreScreen, JobRestoreNohup, JobRestoreResult, JobRestoreEnds,
     JobReboot, JobWriteManifest, JobRebootPlain, JobMachineBoots, JobAgentRestarts DEF Next

\* Stopping a job signals its own processes only, a job that runs can be
\* stopped unless the agent was interrupted, and a job queued for after a reboot
\* is started or said not to be, for every number of processes and reboots
\* (NohupStart, NohupStop, jobProcess, maybeRestoreSessions).
THEOREM HostJobsSound == HostSpec => []JobsSound
  <1> DEFINE hostVars == <<focus, jobVars, pluginVars, fwVars, siteVars, updateVars, fileVars, cronVars, unitVars>>
  <1>1. HostInit => JobInv
    BY JobInit DEF HostInit
  <1>2. JobInv /\ [HostNext]_hostVars => JobInv'
    BY JobStep, JobStutters DEF HostNext
  <1>3. JobInv => JobsSound
    <2> SUFFICES ASSUME JobInv PROVE TypeOK /\ StopHitsOwn /\ Reachable /\ RestoreAccounted
      BY DEF JobsSound
    <2>1. TypeOK
      <3>1. /\ clock \in 0..MaxStarts /\ boot \in 1..MaxBoots /\ rec.pid \in {0} \cup Pids
            /\ \A p \in Pids : procs[p].of \in {"nobody", "job", "worker", "other"}
        BY DEF JobInv, JobTyped, ProcRecs
      <3>2. \A n \in DOMAIN screens : screens[n] \in {"idle", "busy"}
        BY DEF JobInv, JobTyped
      <3>3. \A a \in Actors : acts[a].at \in {"off", "begin", "screen", "read", "check", "spawn", "record",
                                              "term", "kill", "forget", "result", "remove"}
        BY DEF JobInv, JobTyped, LaneAts, RestoreAts, Actors
      <3>4. host.screen \in {"absent", "none", "idle", "busy"}
        <4>1. host \in Noted \/ host = NoManifest
          BY DEF JobInv, JobTyped, Manifests
        <4> QED
          BY <4>1 DEF Noted, NoManifest
      <3>5. {struck, excused, pending, began} \subseteq BOOLEAN
        BY Booleans, Zenon DEF JobInv, JobTyped
      <3>6. result \in {"absent", "none", "torn", "ok", "failed"}
        BY DEF JobInv, JobTyped
      <3> QED
        BY <3>1, <3>2, <3>3, <3>4, <3>5, <3>6, Zenon DEF TypeOK
    <2>2. StopHitsOwn
      BY DEF JobInv, StopHitsOwn
    <2>3. Reachable
      <3>1. SUFFICES ASSUME ~excused, acts = [a \in Actors |-> Off], NEW p \in Pids, Job(p)
                     PROVE  Running /\ rec.pid = p
        BY DEF Reachable, Job
      <3>2. \A a \in Actors : acts[a].at # "record"
        BY <3>1, OffIs
      <3>3. Recorded(p)
        BY <3>1, <3>2 DEF JobInv, JobsKnown
      <3> QED
        BY <3>1, <3>3, RecordedRuns
    <2>4. RestoreAccounted
      BY DEF JobInv, Queued, SaidSo, RestoreAccounted
    <2> QED
      BY <2>1, <2>2, <2>3, <2>4, Zenon
  <1> QED
    BY <1>1, <1>2, <1>3, PTL DEF HostSpec

-----------------------------------------------------------------------------
(* Plugins: one request at a time.                                         *)

PlugOps == [todo: Seq(Plugin!Steps), obj: Nat, stop: Nat, again: BOOLEAN, off: BOOLEAN]
PlugObjs == [ver: Versions, st: Plugin!States, rt: Nat]
PlugRuns == [run: {"run", "call", "closed"}, cfg: {0, 1}]
PlugPushes == [n: Nat, want: {Plugin!None} \cup [ver: Versions, cfg: {0, 1}]]
PlugCounts == [ops: 0..MaxPluginOps, restarts: 0..MaxPanelRestarts, drops: 0..MaxDrops, calls: Nat, built: Nat]

\* What a request may have left to do: for no plugin yet, or for one.
Inst1 == <<"copy", "write", "swap", "close", "start", "push">>
Inst2 == <<"write", "swap", "close", "start", "push">>
Inst3 == <<"swap", "close", "start", "push">>
Inst4 == <<"close", "start", "push">>
Inst5 == <<"start", "push">>
Inst6 == <<"push">>
Set1 == <<"close", "start", "resolve", "push">>
Unsaved1 == <<"close", "start", "resolve">>
Set2 == <<"start", "resolve", "push">>
Unsaved2 == <<"start", "resolve">>
Set3 == <<"resolve", "push">>
Unsaved3 == <<"resolve">>
Rem1 == <<"swap", "close", "push", "resolve", "delete">>
Rem2 == <<"close", "push", "resolve", "delete">>
Rem3 == <<"push", "resolve", "delete">>
Rem4 == <<"resolve", "delete">>
Rem5 == <<"delete">>
TodoNone == {<<>>, Inst1, Rem1, Rem2, Rem3, Rem4, Rem5}
TodoOf == {Inst2, Inst3, Inst4, Inst5, Inst6, Set1, Set2, Set3, Unsaved1, Unsaved2, Unsaved3}
PlugFlow == \A s \in Slots : ops[s].todo \in (IF ops[s].obj = 0 THEN TodoNone ELSE TodoOf)

PlugTyped ==
    /\ objs \in Seq(PlugObjs) /\ rts \in Seq(PlugRuns)
    /\ list \in 0..Len(objs)
    /\ \A o \in 1..Len(objs) : objs[o].rt <= Len(rts)
    /\ pluginDisk = Plugin!None \/ pluginDisk \in [ver: Versions, st: Plugin!States]
    /\ ops \in [Slots -> PlugOps]
    /\ \A s \in Slots : ops[s].obj <= Len(objs) /\ ops[s].stop <= Len(rts)
    /\ PlugFlow
    /\ IsBool(raised) /\ IsBool(stale) /\ IsBool(syncErr) /\ IsBool(overlapped) /\ IsBool(unsaved) /\ IsBool(tornOff)
    /\ link \in {"up", "lost"}
    /\ syncs \in Nat /\ applied \in Nat /\ pushes \in Seq(PlugPushes) /\ pluginCount \in PlugCounts

\* A list is built for a request, a connection or a restart.
HasPush(todo) == \E k \in 1..Len(todo) : todo[k] = "push"
HasResolve(todo) == \E k \in 1..Len(todo) : todo[k] = "resolve"
Pushing == {s \in Slots : HasPush(ops[s].todo)}
PlugCounted ==
    /\ Cardinality(Pushing) + syncs + (IF link = "lost" THEN 1 ELSE 0) + pluginCount.built
         <= pluginCount.ops + pluginCount.drops + pluginCount.restarts
    /\ Len(pushes) <= pluginCount.built

\* The lists on the way are of different ages, and none is the one applied.
PlugAges ==
    /\ applied <= pluginCount.built
    /\ \A i \in 1..Len(pushes) : pushes[i].n <= pluginCount.built /\ pushes[i].n # applied
    /\ \A i, j \in 1..Len(pushes) : pushes[i].n = pushes[j].n => i = j

\* The newest list is what the panel wants, on the way or applied, unless a
\* newer one is to come.
Newest ==
    \/ \E i \in 1..Len(pushes) : pushes[i].n = pluginCount.built /\ pushes[i].want = Plugin!Bundle
    \/ applied = pluginCount.built /\ (stale = TRUE \/ syncErr = TRUE \/ agent.runs = Plugin!Bundle)
PlugCurrent == unsaved = TRUE \/ link = "lost" \/ Pushing # {} \/ syncs > 0 \/ Newest

\* At rest, and at each step of a request that is alone.
PlugState == IF list = 0 THEN Plugin!None ELSE [ver |-> objs[list].ver, st |-> objs[list].st]
OneRuns ==
    /\ Plugin!Live \subseteq (IF Plugin!On THEN {objs[list].rt} ELSE {})
    /\ Plugin!On => objs[list].rt # 0 /\ rts[objs[list].rt].cfg = objs[list].st.cfg
Kept == unsaved = FALSE => pluginDisk = PlugState
Open == raised = TRUE /\ tornOff = FALSE
DiskOn == pluginDisk # Plugin!None /\ pluginDisk.st.on = TRUE

\* Until it swaps the object in or out, a request has changed nothing that runs.
Before(p) ==
    /\ OneRuns /\ (Open => Plugin!On)
    /\ Head(p.todo) = "copy" \/ p.obj # 0 => p.again = TRUE /\ p.off = FALSE
    /\ p.obj # 0 => objs[p.obj].st = Plugin!KeptState /\ objs[p.obj].rt = 0
    /\ Head(p.todo) # "swap" \/ p.obj = 0 => Kept
    /\ Head(p.todo) = "swap" /\ p.obj # 0 /\ unsaved = FALSE => pluginDisk = [ver |-> objs[p.obj].ver, st |-> objs[p.obj].st]

\* Then the old runtime is closed, the new one is started, and the alerts of a
\* plugin it turned off are resolved.
Closing(p) ==
    /\ list = p.obj /\ Kept
    /\ IF p.again = TRUE THEN objs[list].rt = 0 /\ Plugin!Live \subseteq {p.stop} /\ (Plugin!Live # {} => Plugin!On \/ p.off = TRUE)
       ELSE p.stop = 0 /\ OneRuns
    /\ (Open => Plugin!On \/ p.off = TRUE) /\ (p.off = TRUE => HasResolve(p.todo))
Starting(p) ==
    /\ list = p.obj /\ Kept /\ (IF p.again = TRUE THEN Plugin!Live = {} ELSE OneRuns)
    /\ (Open => Plugin!On \/ p.off = TRUE) /\ (p.off = TRUE => HasResolve(p.todo))
Resolving(p) == list = p.obj /\ Kept /\ OneRuns /\ (Open => Plugin!On \/ p.off = TRUE)
Pushes(p) == list = p.obj /\ Kept /\ OneRuns /\ (Open => Plugin!On)

\* Remove has no object any more; the files go last.
Removing(p) ==
    /\ list = 0
    /\ IF Head(p.todo) = "close" THEN Plugin!Live \subseteq {p.stop} ELSE Plugin!Live = {}
    /\ unsaved = FALSE /\ (Open \/ Plugin!Live # {}) => DiskOn
    /\ Head(p.todo) = "delete" => raised = FALSE

StandsAt(p, head) == p.todo # <<>> /\ Head(p.todo) = head
AloneOK(p) ==
    /\ StandsAt(p, "copy") \/ StandsAt(p, "write") \/ StandsAt(p, "swap") => Before(p)
    /\ StandsAt(p, "close") /\ p.obj # 0 => Closing(p)
    /\ StandsAt(p, "start") => Starting(p)
    /\ StandsAt(p, "resolve") /\ p.obj # 0 => Resolving(p)
    /\ StandsAt(p, "push") /\ p.obj # 0 => Pushes(p)
    /\ (StandsAt(p, "close") \/ StandsAt(p, "push") \/ StandsAt(p, "resolve") \/ StandsAt(p, "delete")) /\ p.obj = 0 => Removing(p)
Rest == OneRuns /\ Kept /\ (Open => Plugin!On)

PlugAlone ==
    overlapped = FALSE =>
        /\ \A s, t \in Slots : Plugin!Busy(s) /\ Plugin!Busy(t) => s = t
        /\ \A s \in Slots : Plugin!Busy(s) => AloneOK(ops[s])
        /\ Plugin!Idle => Rest

PlugInv == PlugTyped /\ PlugCounted /\ PlugAges /\ PlugCurrent /\ PlugAlone

\* What is left after a step of a request, by the step.
LEMMA TodoNoneIs ==
    ASSUME NEW t \in TodoNone, t # <<>>
    PROVE  /\ Head(t) \in {"copy", "swap", "close", "push", "resolve", "delete"}
           /\ Head(t) = "copy" => Tail(t) \in TodoOf /\ Head(Tail(t)) = "write"
           /\ Head(t) = "swap" => Tail(t) \in TodoNone /\ Head(Tail(t)) = "close"
           /\ Head(t) = "close" => Tail(t) \in TodoNone /\ Head(Tail(t)) = "push"
           /\ Head(t) = "push" => Tail(t) \in TodoNone /\ Head(Tail(t)) = "resolve"
           /\ Head(t) = "resolve" => Tail(t) \in TodoNone /\ Head(Tail(t)) = "delete"
           /\ Head(t) # "delete" => Tail(t) # <<>> /\ Len(t) # 1
           /\ Head(t) = "delete" => Len(t) = 1
           /\ Head(t) \in {"copy", "swap"} => HasPush(t) /\ HasPush(Tail(t))
  <1>1. CASE t = Inst1
    <2>1. Head(t) = "copy" /\ Len(t) # 1 /\ Tail(t) = Inst2
      BY <1>1 DEF Inst1, Inst2
    <2>2. Head(Inst2) = "write" /\ Inst2 # <<>>
      BY DEF Inst2
    <2>3. Inst2 \in TodoOf
      BY DEF TodoOf
    <2>4. HasPush(Inst1) /\ HasPush(Inst2)
      <3>1. Inst1[6] = "push" /\ Inst2[5] = "push" /\ Len(Inst1) = 6 /\ Len(Inst2) = 5
        BY DEF Inst1, Inst2
      <3>2. 6 \in 1..Len(Inst1) /\ 5 \in 1..Len(Inst2)
        BY <3>1
      <3> QED
        BY <3>1, <3>2 DEF HasPush
    <2> QED
      BY <2>1, <2>2, <2>3, <1>1, <2>4, Zenon
  <1>2. CASE t = Rem1
    <2>1. Head(t) = "swap" /\ Len(t) # 1 /\ Tail(t) = Rem2
      BY <1>2 DEF Rem1, Rem2
    <2>2. Head(Rem2) = "close" /\ Rem2 # <<>>
      BY DEF Rem2
    <2>3. Rem2 \in TodoNone
      BY DEF TodoNone
    <2>4. HasPush(Rem1) /\ HasPush(Rem2)
      <3>1. Rem1[3] = "push" /\ Rem2[2] = "push" /\ Len(Rem1) = 5 /\ Len(Rem2) = 4
        BY DEF Rem1, Rem2
      <3>2. 3 \in 1..Len(Rem1) /\ 2 \in 1..Len(Rem2)
        BY <3>1
      <3> QED
        BY <3>1, <3>2 DEF HasPush
    <2> QED
      BY <2>1, <2>2, <2>3, <1>2, <2>4, Zenon
  <1>3. CASE t = Rem2
    <2>1. Head(t) = "close" /\ Len(t) # 1 /\ Tail(t) = Rem3
      BY <1>3 DEF Rem2, Rem3
    <2>2. Head(Rem3) = "push" /\ Rem3 # <<>>
      BY DEF Rem3
    <2>3. Rem3 \in TodoNone
      BY DEF TodoNone
    <2> QED
      BY <2>1, <2>2, <2>3, Zenon
  <1>4. CASE t = Rem3
    <2>1. Head(t) = "push" /\ Len(t) # 1 /\ Tail(t) = Rem4
      BY <1>4 DEF Rem3, Rem4
    <2>2. Head(Rem4) = "resolve" /\ Rem4 # <<>>
      BY DEF Rem4
    <2>3. Rem4 \in TodoNone
      BY DEF TodoNone
    <2> QED
      BY <2>1, <2>2, <2>3, Zenon
  <1>5. CASE t = Rem4
    <2>1. Head(t) = "resolve" /\ Len(t) # 1 /\ Tail(t) = Rem5
      BY <1>5 DEF Rem4, Rem5
    <2>2. Head(Rem5) = "delete" /\ Rem5 # <<>>
      BY DEF Rem5
    <2>3. Rem5 \in TodoNone
      BY DEF TodoNone
    <2> QED
      BY <2>1, <2>2, <2>3, Zenon
  <1>6. CASE t = Rem5
    <2>1. Head(t) = "delete" /\ Len(t) = 1 /\ Tail(t) = <<>>
      BY <1>6 DEF Rem5
    <2> QED
      BY <2>1, Zenon
  <1> QED
    BY <1>1, <1>2, <1>3, <1>4, <1>5, <1>6 DEF TodoNone

\* The same for a request that has its plugin.
LEMMA TodoOfIs ==
    ASSUME NEW t \in TodoOf
    PROVE  /\ t # <<>>
           /\ Head(t) \in {"write", "swap", "close", "start", "resolve", "push"}
           /\ Head(t) = "write" => Tail(t) \in TodoOf /\ Head(Tail(t)) = "swap"
           /\ Head(t) = "swap" => Tail(t) \in TodoOf /\ Head(Tail(t)) = "close"
           /\ Head(t) = "close" => Tail(t) \in TodoOf /\ Head(Tail(t)) = "start"
           /\ Head(t) = "start" => Tail(t) \in TodoOf /\ Head(Tail(t)) \in {"resolve", "push"}
           /\ Head(t) = "resolve" => Len(t) = 1 \/ (Tail(t) \in TodoOf /\ Head(Tail(t)) = "push")
           /\ Head(t) \in {"write", "swap", "close", "start"} => Len(t) # 1 /\ Tail(t) # <<>>
           /\ Head(t) = "push" => Len(t) = 1
           /\ Head(t) \in {"write", "swap"} => HasPush(t) /\ HasPush(Tail(t))
  <1>1. CASE t = Inst2
    <2>1. Head(t) = "write" /\ Len(t) # 1 /\ Tail(t) = Inst3 /\ t # <<>>
      BY <1>1 DEF Inst2, Inst3
    <2>2. Head(Inst3) = "swap" /\ Inst3 # <<>>
      BY DEF Inst3
    <2>3. Inst3 \in TodoOf
      BY DEF TodoOf
    <2>4. HasPush(Inst2) /\ HasPush(Inst3)
      <3>1. Inst2[5] = "push" /\ Inst3[4] = "push" /\ Len(Inst2) = 5 /\ Len(Inst3) = 4
        BY DEF Inst2, Inst3
      <3>2. 5 \in 1..Len(Inst2) /\ 4 \in 1..Len(Inst3)
        BY <3>1
      <3> QED
        BY <3>1, <3>2 DEF HasPush
    <2> QED
      BY <2>1, <2>2, <2>3, <1>1, <2>4, Zenon
  <1>2. CASE t = Inst3
    <2>1. Head(t) = "swap" /\ Len(t) # 1 /\ Tail(t) = Inst4 /\ t # <<>>
      BY <1>2 DEF Inst3, Inst4
    <2>2. Head(Inst4) = "close" /\ Inst4 # <<>>
      BY DEF Inst4
    <2>3. Inst4 \in TodoOf
      BY DEF TodoOf
    <2>4. HasPush(Inst3) /\ HasPush(Inst4)
      <3>1. Inst3[4] = "push" /\ Inst4[3] = "push" /\ Len(Inst3) = 4 /\ Len(Inst4) = 3
        BY DEF Inst3, Inst4
      <3>2. 4 \in 1..Len(Inst3) /\ 3 \in 1..Len(Inst4)
        BY <3>1
      <3> QED
        BY <3>1, <3>2 DEF HasPush
    <2> QED
      BY <2>1, <2>2, <2>3, <1>2, <2>4, Zenon
  <1>3. CASE t = Inst4
    <2>1. Head(t) = "close" /\ Len(t) # 1 /\ Tail(t) = Inst5 /\ t # <<>>
      BY <1>3 DEF Inst4, Inst5
    <2>2. Head(Inst5) = "start" /\ Inst5 # <<>>
      BY DEF Inst5
    <2>3. Inst5 \in TodoOf
      BY DEF TodoOf
    <2> QED
      BY <2>1, <2>2, <2>3, Zenon
  <1>4. CASE t = Inst5
    <2>1. Head(t) = "start" /\ Len(t) # 1 /\ Tail(t) = Inst6 /\ t # <<>>
      BY <1>4 DEF Inst5, Inst6
    <2>2. Head(Inst6) = "push" /\ Inst6 # <<>>
      BY DEF Inst6
    <2>3. Inst6 \in TodoOf
      BY DEF TodoOf
    <2> QED
      BY <2>1, <2>2, <2>3, Zenon
  <1>5. CASE t = Inst6
    <2>1. Head(t) = "push" /\ Len(t) = 1 /\ Tail(t) = <<>> /\ t # <<>>
      BY <1>5 DEF Inst6
    <2> QED
      BY <2>1, Zenon
  <1>6. CASE t = Set1
    <2>1. Head(t) = "close" /\ Len(t) # 1 /\ Tail(t) = Set2 /\ t # <<>>
      BY <1>6 DEF Set1, Set2
    <2>2. Head(Set2) = "start" /\ Set2 # <<>>
      BY DEF Set2
    <2>3. Set2 \in TodoOf
      BY DEF TodoOf
    <2> QED
      BY <2>1, <2>2, <2>3, Zenon
  <1>7. CASE t = Set2
    <2>1. Head(t) = "start" /\ Len(t) # 1 /\ Tail(t) = Set3 /\ t # <<>>
      BY <1>7 DEF Set2, Set3
    <2>2. Head(Set3) = "resolve" /\ Set3 # <<>>
      BY DEF Set3
    <2>3. Set3 \in TodoOf
      BY DEF TodoOf
    <2> QED
      BY <2>1, <2>2, <2>3, Zenon
  <1>8. CASE t = Set3
    <2>1. Head(t) = "resolve" /\ Len(t) # 1 /\ Tail(t) = Inst6 /\ t # <<>>
      BY <1>8 DEF Set3, Inst6
    <2>2. Head(Inst6) = "push" /\ Inst6 # <<>>
      BY DEF Inst6
    <2>3. Inst6 \in TodoOf
      BY DEF TodoOf
    <2> QED
      BY <2>1, <2>2, <2>3, Zenon
  <1>9. CASE t = Unsaved1
    <2>1. Head(t) = "close" /\ Len(t) # 1 /\ Tail(t) = Unsaved2 /\ t # <<>>
      BY <1>9 DEF Unsaved1, Unsaved2
    <2>2. Head(Unsaved2) = "start" /\ Unsaved2 # <<>>
      BY DEF Unsaved2
    <2>3. Unsaved2 \in TodoOf
      BY DEF TodoOf
    <2> QED
      BY <2>1, <2>2, <2>3, Zenon
  <1>10. CASE t = Unsaved2
    <2>1. Head(t) = "start" /\ Len(t) # 1 /\ Tail(t) = Unsaved3 /\ t # <<>>
      BY <1>10 DEF Unsaved2, Unsaved3
    <2>2. Head(Unsaved3) = "resolve" /\ Unsaved3 # <<>>
      BY DEF Unsaved3
    <2>3. Unsaved3 \in TodoOf
      BY DEF TodoOf
    <2> QED
      BY <2>1, <2>2, <2>3, Zenon
  <1>11. CASE t = Unsaved3
    <2>1. Head(t) = "resolve" /\ Len(t) = 1 /\ Tail(t) = <<>> /\ t # <<>>
      BY <1>11 DEF Unsaved3
    <2> QED
      BY <2>1, Zenon
  <1> QED
    BY <1>1, <1>2, <1>3, <1>4, <1>5, <1>6, <1>7, <1>8, <1>9, <1>10, <1>11 DEF TodoOf

\* A request's list comes now or later.
LEMMA PushLater ==
    ASSUME NEW t \in Seq(Plugin!Steps), t # <<>>
    PROVE  /\ HasPush(t) <=> Head(t) = "push" \/ HasPush(Tail(t))
           /\ HasResolve(t) <=> Head(t) = "resolve" \/ HasResolve(Tail(t))
           /\ Len(t) = 1 => Tail(t) = <<>>
           /\ ~HasPush(<<>>) /\ ~HasResolve(<<>>)
  <1>1. /\ \A i \in 1..Len(Tail(t)) : Tail(t)[i] = t[i + 1] /\ i + 1 \in 1..Len(t)
        /\ \A i \in 1..Len(t) : i # 1 => i - 1 \in 1..Len(Tail(t)) /\ Tail(t)[i - 1] = t[i]
        /\ 1 \in 1..Len(t) /\ t[1] = Head(t)
    BY HeadTailProperties
  <1>2. HasPush(t) <=> Head(t) = "push" \/ HasPush(Tail(t))
    BY <1>1 DEF HasPush
  <1>3. HasResolve(t) <=> Head(t) = "resolve" \/ HasResolve(Tail(t))
    BY <1>1 DEF HasResolve
  <1>4. Len(t) = 1 => Tail(t) = <<>>
    <2>1. Tail(t) \in Seq(Plugin!Steps) /\ Len(Tail(t)) = Len(t) - 1
      BY HeadTailProperties
    <2>2. Len(t) = 1 => Len(Tail(t)) = 0
      BY <2>1
    <2>3. Tail(t) # <<>> => Len(Tail(t)) \in Nat \ {0}
      BY <2>1, EmptySeq
    <2> QED
      BY <2>2, <2>3
  <1>5. ~HasPush(<<>>) /\ ~HasResolve(<<>>)
    BY DEF HasPush, HasResolve
  <1> QED
    BY <1>2, <1>3, <1>4, <1>5

\* No record of files is the absence of files.
LEMMA NoneIsNone ==
    /\ \A d \in [ver: Versions, st: Plugin!States] : d # Plugin!None
    /\ \A d \in [ver: Versions, cfg: {0, 1}] : d # Plugin!None
  BY DEF Plugin!None

\* The plugin is on.
LEMMA OnIs ==
    ASSUME PlugTyped
    PROVE  /\ Plugin!On <=> list # 0 /\ objs[list].st.on = TRUE
           /\ list # 0 => list \in 1..Len(objs) /\ objs[list] \in PlugObjs /\ objs[list].st \in Plugin!States
           /\ \A o \in 1..Len(objs) : objs[o] \in PlugObjs
           /\ \A s \in Slots : ops[s] \in PlugOps
  <1>1. list # 0 => list \in 1..Len(objs) /\ objs[list] \in PlugObjs
    BY DEF PlugTyped
  <1>2. list # 0 => objs[list].st \in Plugin!States /\ objs[list].st.on \in BOOLEAN
    BY <1>1 DEF PlugObjs, Plugin!States
  <1>3. Plugin!On <=> list # 0 /\ objs[list].st.on = TRUE
    BY <1>2, Zenon DEF Plugin!On
  <1> QED
    BY <1>1, <1>2, <1>3 DEF PlugTyped

\* At a step of a request.
LEMMA AtIs ==
    ASSUME PlugTyped, NEW s \in Slots, NEW h, Plugin!At(s, h)
    PROVE  /\ ops[s] \in PlugOps /\ ops[s].todo # <<>> /\ Head(ops[s].todo) = h
           /\ ops[s].obj = 0 => ops[s].todo \in TodoNone
           /\ ops[s].obj # 0 => ops[s].todo \in TodoOf /\ ops[s].obj \in 1..Len(objs)
  BY DEF PlugTyped, PlugFlow, PlugOps, Plugin!At, Plugin!Busy

-----------------------------------------------------------------------------
(* What changes when one request moves.                                    *)

\* Only request s moves.
OnlyMoves(s) == ops' \in [Slots -> PlugOps] /\ \A t \in Slots : t # s => ops'[t] = ops[t]

\* A request is given new work.
LEMMA OpsMove ==
    ASSUME PlugTyped, NEW s \in Slots, NEW q \in PlugOps, ops' = [ops EXCEPT ![s] = q]
    PROVE  OnlyMoves(s) /\ ops'[s] = q
  BY DEF PlugTyped, OnlyMoves

\* An idle request.
LEMMA FreeIs == /\ Plugin!Free \in PlugOps /\ Plugin!Free.todo = <<>> /\ Plugin!Free.obj = 0 /\ Plugin!Free.stop = 0
                /\ Plugin!Free.again = FALSE /\ Plugin!Free.off = FALSE /\ ~HasPush(Plugin!Free.todo)
  <1>1. <<>> \in Seq(Plugin!Steps)
    BY EmptySeq
  <1> QED
    BY <1>1 DEF Plugin!Free, PlugOps, HasPush

\* The same request with its first step done and other fields.
After(p, o, x) == [todo |-> Tail(p.todo), obj |-> o, stop |-> x, again |-> p.again, off |-> p.off]

\* It is a request.
LEMMA AfterIs ==
    ASSUME NEW p \in PlugOps, p.todo # <<>>, NEW o \in Nat, NEW x \in Nat
    PROVE  After(p, o, x) \in PlugOps
  <1>1. Tail(p.todo) \in Seq(Plugin!Steps)
    BY HeadTailProperties DEF PlugOps
  <1> QED
    BY <1>1 DEF PlugOps, After

\* A request with another step and object, field by field.
LEMMA OpObj ==
    ASSUME NEW p \in PlugOps, NEW t, NEW x
    PROVE  [p EXCEPT !.todo = t, !.obj = x] = [todo |-> t, obj |-> x, stop |-> p.stop, again |-> p.again, off |-> p.off]
  <1>1. PICK r : r = [p EXCEPT !.todo = t]
    OBVIOUS
  <1>2. r = [todo |-> t, obj |-> p.obj, stop |-> p.stop, again |-> p.again, off |-> p.off]
    BY <1>1 DEF PlugOps
  <1>3. r \in [todo: {t}, obj: Nat, stop: Nat, again: BOOLEAN, off: BOOLEAN]
    BY <1>2 DEF PlugOps
  <1>4. r.todo = t /\ r.obj = p.obj /\ r.stop = p.stop /\ r.again = p.again /\ r.off = p.off
    BY <1>2
  <1>5. [r EXCEPT !.obj = x] = [todo |-> r.todo, obj |-> x, stop |-> r.stop, again |-> r.again, off |-> r.off]
    BY <1>3
  <1>6. [p EXCEPT !.todo = t, !.obj = x] = [r EXCEPT !.obj = x]
    BY <1>1
  <1> QED
    BY <1>4, <1>5, <1>6

\* The same with another runtime to stop.
LEMMA OpStop ==
    ASSUME NEW p \in PlugOps, NEW t, NEW x
    PROVE  [p EXCEPT !.todo = t, !.stop = x] = [todo |-> t, obj |-> p.obj, stop |-> x, again |-> p.again, off |-> p.off]
  <1>1. PICK r : r = [p EXCEPT !.todo = t]
    OBVIOUS
  <1>2. r = [todo |-> t, obj |-> p.obj, stop |-> p.stop, again |-> p.again, off |-> p.off]
    BY <1>1 DEF PlugOps
  <1>3. r \in [todo: {t}, obj: Nat, stop: Nat, again: BOOLEAN, off: BOOLEAN]
    BY <1>2 DEF PlugOps
  <1>4. r.todo = t /\ r.obj = p.obj /\ r.stop = p.stop /\ r.again = p.again /\ r.off = p.off
    BY <1>2
  <1>5. [r EXCEPT !.stop = x] = [todo |-> r.todo, obj |-> r.obj, stop |-> x, again |-> r.again, off |-> r.off]
    BY <1>3
  <1>6. [p EXCEPT !.todo = t, !.stop = x] = [r EXCEPT !.stop = x]
    BY <1>1
  <1> QED
    BY <1>4, <1>5, <1>6

\* The same for whether it starts the plugin again.
LEMMA OpAgain ==
    ASSUME NEW p \in PlugOps, NEW t, NEW x
    PROVE  [p EXCEPT !.todo = t, !.again = x] = [todo |-> t, obj |-> p.obj, stop |-> p.stop, again |-> x, off |-> p.off]
  <1>1. PICK r : r = [p EXCEPT !.todo = t]
    OBVIOUS
  <1>2. r = [todo |-> t, obj |-> p.obj, stop |-> p.stop, again |-> p.again, off |-> p.off]
    BY <1>1 DEF PlugOps
  <1>3. r \in [todo: {t}, obj: Nat, stop: Nat, again: BOOLEAN, off: BOOLEAN]
    BY <1>2 DEF PlugOps
  <1>4. r.todo = t /\ r.obj = p.obj /\ r.stop = p.stop /\ r.again = p.again /\ r.off = p.off
    BY <1>2
  <1>5. [r EXCEPT !.again = x] = [todo |-> r.todo, obj |-> r.obj, stop |-> r.stop, again |-> x, off |-> r.off]
    BY <1>3
  <1>6. [p EXCEPT !.todo = t, !.again = x] = [r EXCEPT !.again = x]
    BY <1>1
  <1> QED
    BY <1>4, <1>5, <1>6

\* A request that does its step and nothing else.
LEMMA DoneIs ==
    ASSUME PlugTyped, NEW s \in Slots, Plugin!Busy(s), Plugin!Done(s)
    PROVE  /\ OnlyMoves(s)
           /\ Len(ops[s].todo) = 1 => ops'[s] = Plugin!Free
           /\ Len(ops[s].todo) # 1 => ops'[s] = After(ops[s], ops[s].obj, ops[s].stop)
  <1>1. ops[s] \in PlugOps /\ ops[s].todo # <<>> /\ ops[s].obj \in Nat /\ ops[s].stop \in Nat
    BY DEF PlugTyped, Plugin!Busy, PlugOps
  <1>2. \A t : [ops[s] EXCEPT !.todo = t] = [todo |-> t, obj |-> ops[s].obj, stop |-> ops[s].stop,
                                            again |-> ops[s].again, off |-> ops[s].off]
    BY <1>1 DEF PlugOps
  <1>3. ops' = [ops EXCEPT ![s] = IF Len(ops[s].todo) = 1 THEN Plugin!Free ELSE After(ops[s], ops[s].obj, ops[s].stop)]
    <2>1. ops' = [ops EXCEPT ![s] = IF Len(ops[s].todo) = 1 THEN Plugin!Free
                                    ELSE [ops[s] EXCEPT !.todo = Tail(ops[s].todo)]]
      BY DEF Plugin!Done, Plugin!StepsLeft
    <2> QED
      BY <1>2, <2>1, Zenon DEF After
  <1>4. After(ops[s], ops[s].obj, ops[s].stop) \in PlugOps
    BY <1>1, AfterIs
  <1> QED
    BY <1>3, <1>4, FreeIs, OpsMove

\* Sets that differ in one member.
LEMMA OneMore ==
    ASSUME NEW A \in SUBSET Slots, NEW B \in SUBSET Slots, NEW s \in Slots, \A t \in Slots : t # s => (t \in A <=> t \in B)
    PROVE  /\ Cardinality(A) \in Nat /\ Cardinality(B) \in Nat
           /\ Cardinality(B) <= Cardinality(A) + 1
           /\ (s \in B => s \in A) => Cardinality(B) <= Cardinality(A)
           /\ s \in A /\ s \notin B => Cardinality(B) = Cardinality(A) - 1
  <1>1. IsFiniteSet(A) /\ IsFiniteSet(B) /\ Cardinality(A) \in Nat /\ Cardinality(B) \in Nat
    BY HostAssumption, FS_Subset, FS_CardinalityType
  <1>2. IsFiniteSet(A \cup {s}) /\ Cardinality(A \cup {s}) <= Cardinality(A) + 1
    <2>1. /\ IsFiniteSet(A \cup {s})
          /\ Cardinality(A \cup {s}) = IF s \in A THEN Cardinality(A) ELSE Cardinality(A) + 1
      BY <1>1, FS_AddElement
    <2> QED
      BY <1>1, <2>1
  <1>3. B \subseteq A \cup {s} /\ ((s \in B => s \in A) => B \subseteq A) /\ (s \in A /\ s \notin B => B = A \ {s})
    OBVIOUS
  <1>4. Cardinality(B) <= Cardinality(A \cup {s})
    BY <1>2, <1>3, FS_Subset
  <1>5. (s \in B => s \in A) => Cardinality(B) <= Cardinality(A)
    BY <1>1, <1>3, FS_Subset
  <1>6. s \in A /\ s \notin B => Cardinality(B) = Cardinality(A) - 1
    BY <1>1, <1>3, FS_RemoveElement
  <1>7. Cardinality(A \cup {s}) \in Nat
    BY <1>2, FS_CardinalityType
  <1> QED
    BY <1>1, <1>2, <1>4, <1>5, <1>6, <1>7

\* The lists still to come, when one request moves.
LEMMA PushingMoves ==
    ASSUME PlugTyped, NEW s \in Slots, OnlyMoves(s)
    PROVE  /\ Cardinality(Pushing) \in Nat /\ Cardinality(Pushing') \in Nat
           /\ Cardinality(Pushing') <= Cardinality(Pushing) + 1
           /\ (HasPush(ops'[s].todo) => HasPush(ops[s].todo)) => Cardinality(Pushing') <= Cardinality(Pushing)
           /\ HasPush(ops[s].todo) /\ ~HasPush(ops'[s].todo) => Cardinality(Pushing') = Cardinality(Pushing) - 1
           /\ HasPush(ops'[s].todo) => Pushing' # {}
           /\ (HasPush(ops[s].todo) => HasPush(ops'[s].todo)) => (Pushing # {} => Pushing' # {})
  <1>1. \A t \in Slots : /\ t \in Pushing <=> HasPush(ops[t].todo)
                         /\ t \in Pushing' <=> HasPush(ops'[t].todo)
    BY DEF Pushing
  <1>2. Pushing \in SUBSET Slots /\ Pushing' \in SUBSET Slots
    BY DEF Pushing
  <1>3. \A t \in Slots : t # s => (t \in Pushing <=> t \in Pushing')
    BY <1>1 DEF OnlyMoves
  <1>4. PICK A, B : A = Pushing /\ B = Pushing'
    OBVIOUS
  <1>5. /\ Cardinality(A) \in Nat /\ Cardinality(B) \in Nat
        /\ Cardinality(B) <= Cardinality(A) + 1
        /\ (s \in B => s \in A) => Cardinality(B) <= Cardinality(A)
        /\ s \in A /\ s \notin B => Cardinality(B) = Cardinality(A) - 1
    BY <1>2, <1>3, <1>4, OneMore
  <1> QED
    BY <1>1, <1>2, <1>3, <1>4, <1>5

\* The panel starts with no plugin, and the server with none.
LEMMA PlugInit == Plugin!Init => PlugInv
  <1> SUFFICES ASSUME Plugin!Init PROVE PlugInv
    OBVIOUS
  <1>1. /\ list = 0 /\ objs = <<>> /\ rts = <<>> /\ pluginDisk = Plugin!None /\ ops = [s \in Slots |-> Plugin!Free]
        /\ raised = FALSE /\ syncs = 0 /\ pushes = <<>> /\ applied = 0 /\ stale = FALSE /\ syncErr = FALSE /\ link = "up"
        /\ agent = [runs |-> Plugin!None, disk |-> Plugin!None]
        /\ pluginCount = [ops |-> 0, restarts |-> 0, drops |-> 0, calls |-> 0, built |-> 0]
        /\ overlapped = FALSE /\ unsaved = FALSE /\ tornOff = FALSE
    BY DEF Plugin!Init
  <1>2. PlugTyped
    <2>1. objs \in Seq(PlugObjs) /\ rts \in Seq(PlugRuns) /\ pushes \in Seq(PlugPushes) /\ Len(objs) = 0 /\ Len(rts) = 0
      BY <1>1, EmptySeq
    <2>2. ops \in [Slots -> PlugOps] /\ \A s \in Slots : ops[s].obj = 0 /\ ops[s].stop = 0 /\ ops[s].todo = <<>>
      BY <1>1, FreeIs
    <2>3. PlugFlow
      BY <2>2 DEF PlugFlow, TodoNone
    <2>4. pluginCount \in PlugCounts
      BY <1>1, HostAssumption DEF PlugCounts
    <2> QED
      BY <1>1, <2>1, <2>2, <2>3, <2>4 DEF PlugTyped, IsBool
  <1>3. Pushing = {}
    BY <1>1, FreeIs DEF Pushing
  <1>4. PlugCounted
    BY <1>1, <1>3, FS_EmptySet DEF PlugCounted
  <1>5. PlugAges
    BY <1>1 DEF PlugAges
  <1>6. ~Plugin!On
    BY <1>1, Zenon DEF Plugin!On
  <1>7. PlugCurrent
    <2>1. Plugin!Bundle = Plugin!None
      BY <1>6 DEF Plugin!Bundle
    <2> QED
      BY <1>1, <2>1 DEF PlugCurrent, Newest
  <1>8. PlugAlone
    <2>1. \A s \in Slots : ~Plugin!Busy(s)
      BY <1>1, FreeIs DEF Plugin!Busy
    <2>2. Plugin!Live = {}
      BY <1>1 DEF Plugin!Live
    <2>3. Rest
      BY <1>1, <1>6, <2>2 DEF Rest, OneRuns, Kept, PlugState, Open
    <2> QED
      BY <2>1, <2>3 DEF PlugAlone
  <1> QED
    BY <1>2, <1>4, <1>5, <1>7, <1>8 DEF PlugInv

\* A request has one list to send.
LEMMA OnePush ==
    ASSUME NEW t \in TodoNone \cup TodoOf, t # <<>>, Head(t) = "push"
    PROVE  ~HasPush(Tail(t))
  <1>1. CASE t = Rem3
    <2>1. Tail(t) = Rem4
      BY <1>1 DEF Rem3, Rem4
    <2>2. ~HasPush(Rem4)
      <3>1. Len(Rem4) = 2 /\ Rem4[1] = "resolve" /\ Rem4[2] = "delete"
        BY DEF Rem4
      <3>2. \A k \in 1..Len(Rem4) : Rem4[k] # "push"
        BY <3>1
      <3> QED
        BY <3>2 DEF HasPush
    <2> QED
      BY <2>1, <2>2
  <1>2. CASE t = Inst6
    <2>1. Tail(t) = <<>>
      BY <1>2 DEF Inst6
    <2> QED
      BY <2>1 DEF HasPush
  <1>3. /\ Head(Inst1) = "copy" /\ Head(Inst2) = "write" /\ Head(Inst3) = "swap" /\ Head(Inst4) = "close" /\ Head(Inst5) = "start"
        /\ Head(Set1) = "close" /\ Head(Set2) = "start" /\ Head(Set3) = "resolve"
        /\ Head(Unsaved1) = "close" /\ Head(Unsaved2) = "start" /\ Head(Unsaved3) = "resolve"
        /\ Head(Rem1) = "swap" /\ Head(Rem2) = "close" /\ Head(Rem4) = "resolve" /\ Head(Rem5) = "delete"
    BY DEF Inst1, Inst2, Inst3, Inst4, Inst5, Set1, Set2, Set3, Unsaved1, Unsaved2, Unsaved3, Rem1, Rem2, Rem4, Rem5
  <1>4. t \in TodoNone => t \in {Rem3}
    BY <1>3, Zenon DEF TodoNone
  <1>5. t \in TodoOf => t \in {Inst6}
    BY <1>3, Zenon DEF TodoOf
  <1> QED
    BY <1>1, <1>2, <1>4, <1>5

\* The types, when one request moves and the server does not.
LEMMA TypedMoves ==
    ASSUME PlugTyped, NEW s \in Slots, OnlyMoves(s),
           objs' \in Seq(PlugObjs), rts' \in Seq(PlugRuns), Len(objs') >= Len(objs), Len(rts') >= Len(rts),
           list' \in 0..Len(objs'), \A o \in 1..Len(objs') : objs'[o].rt <= Len(rts'),
           pluginDisk' = Plugin!None \/ pluginDisk' \in [ver: Versions, st: Plugin!States],
           ops'[s].obj <= Len(objs'), ops'[s].stop <= Len(rts'),
           ops'[s].todo \in (IF ops'[s].obj = 0 THEN TodoNone ELSE TodoOf),
           IsBool(raised'), IsBool(overlapped'), IsBool(unsaved'), tornOff' = tornOff,
           UNCHANGED <<pushes, applied, stale, syncErr, link, agent>>, syncs' \in Nat, pluginCount' \in PlugCounts
    PROVE  PlugTyped'
  <1>1. Len(objs) \in Nat /\ Len(objs') \in Nat /\ Len(rts) \in Nat /\ Len(rts') \in Nat
    BY DEF PlugTyped
  <1>2. \A t \in Slots : ops'[t].obj <= Len(objs') /\ ops'[t].stop <= Len(rts')
    <2>1. \A t \in Slots : t # s => ops'[t].obj \in Nat /\ ops'[t].stop \in Nat /\ ops'[t].obj <= Len(objs) /\ ops'[t].stop <= Len(rts)
      BY DEF PlugTyped, OnlyMoves, PlugOps
    <2> QED
      BY <1>1, <2>1
  <1>3. PlugFlow'
    <2>1. \A t \in Slots : ops'[t].todo \in (IF ops'[t].obj = 0 THEN TodoNone ELSE TodoOf)
      BY DEF PlugTyped, PlugFlow, OnlyMoves
    <2> QED
      BY <2>1 DEF PlugFlow
  <1> QED
    BY <1>2, <1>3 DEF PlugTyped, OnlyMoves

\* The lists are counted, and of different ages, when the server does not move.
LEMMA CountedMoves ==
    ASSUME PlugTyped, PlugCounted, PlugAges, UNCHANGED <<pushes, applied, link>>, pluginCount' \in PlugCounts,
           Cardinality(Pushing) \in Nat, Cardinality(Pushing') \in Nat, syncs' \in Nat,
           pluginCount'.built = pluginCount.built, pluginCount'.drops = pluginCount.drops,
           pluginCount'.restarts = pluginCount.restarts,
           Cardinality(Pushing') + syncs' + pluginCount.ops <= Cardinality(Pushing) + syncs + pluginCount'.ops
    PROVE  PlugCounted' /\ PlugAges'
  <1>1. /\ pluginCount.ops \in Nat /\ pluginCount'.ops \in Nat /\ syncs \in Nat
        /\ pluginCount.built \in Nat /\ pluginCount.drops \in Nat /\ pluginCount.restarts \in Nat
    BY DEF PlugTyped, PlugCounts
  <1>2. PlugCounted'
    <2>1. PICK a, b, k : /\ a = Cardinality(Pushing) /\ b = Cardinality(Pushing') /\ k = IF link = "lost" THEN 1 ELSE 0
                         /\ k \in Nat
      OBVIOUS
    <2>2. a + syncs + k + pluginCount.built <= pluginCount.ops + pluginCount.drops + pluginCount.restarts
      BY <2>1 DEF PlugCounted
    <2>3. b + syncs' + k + pluginCount'.built <= pluginCount'.ops + pluginCount'.drops + pluginCount'.restarts
      BY <1>1, <2>1, <2>2
    <2> QED
      BY <2>1, <2>3 DEF PlugCounted
  <1>3. PlugAges'
    BY DEF PlugAges
  <1> QED
    BY <1>2, <1>3

\* The newest list stays what the panel wants, or a newer one is to come.
LEMMA CurrentMoves ==
    ASSUME PlugCurrent, UNCHANGED <<pushes, applied, stale, syncErr, link, agent>>, syncs \in Nat, syncs' \in Nat,
           pluginCount'.built = pluginCount.built, unsaved = TRUE => unsaved' = TRUE, syncs' >= syncs,
           Pushing # {} => Pushing' # {} \/ syncs' > 0 \/ unsaved' = TRUE,
           Plugin!Bundle' = Plugin!Bundle \/ Pushing' # {} \/ unsaved' = TRUE
    PROVE  PlugCurrent'
  <1>1. CASE Plugin!Bundle' = Plugin!Bundle
    <2>1. Newest => Newest'
      BY <1>1 DEF Newest
    <2> QED
      BY <2>1 DEF PlugCurrent
  <1> QED
    BY <1>1 DEF PlugCurrent

\* A plugin that stays as it is.
LEMMA PluginStays ==
    ASSUME PlugTyped, list' = list, list # 0 => objs'[list].ver = objs[list].ver /\ objs'[list].st = objs[list].st
    PROVE  /\ Plugin!On' <=> Plugin!On
           /\ Plugin!Bundle' = Plugin!Bundle
           /\ PlugState' = PlugState
  <1>1. Plugin!On' <=> Plugin!On
    BY Zenon DEF Plugin!On
  <1>2. Plugin!Bundle' = Plugin!Bundle
    <2>1. CASE Plugin!On
      <3>1. list # 0
        BY <2>1 DEF Plugin!On
      <3>2. objs'[list'].st.here = objs[list].st.here /\ objs'[list'].st.cfg = objs[list].st.cfg /\ objs'[list'].ver = objs[list].ver
        BY <3>1
      <3> QED
        BY <1>1, <2>1, <3>2, Zenon DEF Plugin!Bundle
    <2>2. CASE ~Plugin!On
      BY <1>1, <2>2, Zenon DEF Plugin!Bundle
    <2> QED
      BY <2>1, <2>2
  <1>3. PlugState' = PlugState
    BY DEF PlugState
  <1> QED
    BY <1>1, <1>2, <1>3

\* The request that is alone moves on, or ends.
LEMMA AloneMoves ==
    ASSUME PlugAlone, NEW s \in Slots, OnlyMoves(s),
           overlapped' = FALSE => overlapped = FALSE /\ \A t \in Slots : Plugin!Busy(t) => t = s,
           overlapped' = FALSE /\ ops'[s].todo # <<>> => AloneOK(ops[s])',
           overlapped' = FALSE /\ ops'[s].todo = <<>> => Rest'
    PROVE  PlugAlone'
  <1>1. SUFFICES ASSUME overlapped' = FALSE
                 PROVE  /\ \A t, u \in Slots : Plugin!Busy(t)' /\ Plugin!Busy(u)' => t = u
                        /\ \A t \in Slots : Plugin!Busy(t)' => AloneOK(ops[t])'
                        /\ Plugin!Idle' => Rest'
    BY DEF PlugAlone
  <1>2. \A t \in Slots : t # s => ~Plugin!Busy(t)'
    BY <1>1 DEF OnlyMoves, Plugin!Busy
  <1>3. Plugin!Busy(s)' => AloneOK(ops[s])'
    BY <1>1 DEF Plugin!Busy
  <1>4. Plugin!Idle' => Rest'
    BY <1>1 DEF Plugin!Idle, Plugin!Busy
  <1>5. \A t \in Slots : Plugin!Busy(t)' => AloneOK(ops[t])'
    BY <1>2, <1>3
  <1> QED
    BY <1>2, <1>4, <1>5

\* Where a request stands says what holds of it.
LEMMA AloneAt ==
    ASSUME NEW s \in Slots
    PROVE  LET p == ops[s]
               h == Head(p.todo)
           IN p.todo # <<>> /\ AloneOK(p) =>
                /\ h \in {"copy", "write", "swap"} => Before(p)
                /\ h = "close" /\ p.obj # 0 => Closing(p)
                /\ h = "start" => Starting(p)
                /\ h = "resolve" /\ p.obj # 0 => Resolving(p)
                /\ h = "push" /\ p.obj # 0 => Pushes(p)
                /\ h \in {"close", "push", "resolve", "delete"} /\ p.obj = 0 => Removing(p)
  BY Zenon DEF AloneOK, StandsAt

\* What has to hold where a request stands after a step.
LEMMA AloneNext ==
    ASSUME NEW s \in Slots, ops'[s].todo # <<>>
    PROVE  /\ Head(ops'[s].todo) \in {"write", "copy"} /\ Before(ops[s])' => AloneOK(ops[s])'
           /\ Head(ops'[s].todo) = "swap" /\ Before(ops[s])' => AloneOK(ops[s])'
           /\ Head(ops'[s].todo) = "close" /\ ops'[s].obj # 0 /\ Closing(ops[s])' => AloneOK(ops[s])'
           /\ Head(ops'[s].todo) = "start" /\ ops'[s].obj # 0 /\ Starting(ops[s])' => AloneOK(ops[s])'
           /\ Head(ops'[s].todo) = "resolve" /\ ops'[s].obj # 0 /\ Resolving(ops[s])' => AloneOK(ops[s])'
           /\ Head(ops'[s].todo) = "push" /\ ops'[s].obj # 0 /\ Pushes(ops[s])' => AloneOK(ops[s])'
           /\ Head(ops'[s].todo) \in {"close", "push", "resolve", "delete"} /\ ops'[s].obj = 0 /\ Removing(ops[s])'
                 => AloneOK(ops[s])'
  BY Zenon DEF AloneOK, StandsAt

\* A step of a request: what has to be shown of it.
LEMMA Proceeds ==
    ASSUME PlugInv, PlugTyped', NEW s \in Slots, Plugin!Busy(s), OnlyMoves(s),
           UNCHANGED <<pushes, applied, stale, syncErr, link, agent, pluginCount, overlapped>>,
           syncs' \in {syncs, syncs + 1}, unsaved = TRUE => unsaved' = TRUE,
           syncs' = syncs => \/ HasPush(ops'[s].todo) <=> HasPush(ops[s].todo)
                             \/ unsaved' = TRUE /\ ~HasPush(ops'[s].todo),
           syncs' # syncs => HasPush(ops[s].todo) /\ ~HasPush(ops'[s].todo),
           Plugin!Bundle' = Plugin!Bundle \/ HasPush(ops'[s].todo),
           overlapped = FALSE /\ AloneOK(ops[s]) /\ ops'[s].todo # <<>> => AloneOK(ops[s])',
           overlapped = FALSE /\ AloneOK(ops[s]) /\ ops'[s].todo = <<>> => Rest'
    PROVE  PlugInv'
  <1>1. PlugTyped /\ PlugCounted /\ PlugAges /\ PlugCurrent /\ PlugAlone
    BY DEF PlugInv
  <1>2. syncs \in Nat /\ syncs' \in Nat /\ pluginCount' \in PlugCounts /\ pluginCount.ops \in Nat
    BY <1>1 DEF PlugTyped, PlugCounts
  <1>3. PlugCounted' /\ PlugAges'
    <2>1. Cardinality(Pushing') + syncs' <= Cardinality(Pushing) + syncs
      <3>1. CASE syncs' = syncs
        <4>1. Cardinality(Pushing') <= Cardinality(Pushing)
          BY <1>1, <3>1, PushingMoves
        <4> QED
          BY <1>1, <1>2, <3>1, <4>1, PushingMoves
      <3>2. CASE syncs' # syncs
        <4>1. Cardinality(Pushing') = Cardinality(Pushing) - 1 /\ syncs' = syncs + 1
          BY <1>1, <3>2, PushingMoves
        <4> QED
          BY <1>1, <1>2, <4>1, PushingMoves
      <3> QED
        BY <3>1, <3>2
    <2>2. Cardinality(Pushing) \in Nat /\ Cardinality(Pushing') \in Nat
      BY <1>1, PushingMoves
    <2>3. PICK a, b : a = Cardinality(Pushing) /\ b = Cardinality(Pushing')
      OBVIOUS
    <2>4. b + syncs' + pluginCount.ops <= a + syncs + pluginCount'.ops
      BY <1>2, <2>1, <2>2, <2>3
    <2> QED
      BY <1>1, <1>2, <2>2, <2>3, <2>4, CountedMoves
  <1>4. PlugCurrent'
    <2>1. syncs' >= syncs
      BY <1>2
    <2>2. Pushing # {} => Pushing' # {} \/ syncs' > 0 \/ unsaved' = TRUE
      <3>1. CASE syncs' = syncs
        BY <1>1, <3>1, PushingMoves
      <3>2. CASE syncs' # syncs
        BY <1>2, <3>2
      <3> QED
        BY <3>1, <3>2
    <2>3. Plugin!Bundle' = Plugin!Bundle \/ Pushing' # {}
      BY <1>1, PushingMoves
    <2> QED
      BY <1>1, <1>2, <2>1, <2>2, <2>3, CurrentMoves
  <1>5. PlugAlone'
    <2>1. overlapped' = FALSE => overlapped = FALSE /\ (\A t \in Slots : Plugin!Busy(t) => t = s) /\ AloneOK(ops[s])
      BY <1>1 DEF PlugAlone
    <2> QED
      BY <1>1, <2>1, AloneMoves
  <1> QED
    BY <1>3, <1>4, <1>5 DEF PlugInv

\* What a step leaves to do, and the request it leaves.
LEMMA AfterStep ==
    ASSUME PlugTyped, NEW s \in Slots, NEW h, Plugin!At(s, h)
    PROVE  /\ HasPush(ops[s].todo) <=> h = "push" \/ HasPush(Tail(ops[s].todo))
           /\ Len(ops[s].todo) = 1 => Tail(ops[s].todo) = <<>>
  BY AtIs, PushLater DEF PlugOps

\* InstallFiles makes a new object with the settings of the old.
LEMMA PlugCopy == ASSUME PlugInv, NEW s \in Slots, NEW v \in Versions, Plugin!Copy(s, v) PROVE PlugInv'
  <1>1. PlugTyped /\ Plugin!At(s, "copy") /\ Plugin!Busy(s)
    BY DEF PlugInv, Plugin!Copy, Plugin!At
  <1>2. /\ ops[s] \in PlugOps /\ ops[s].obj = 0 /\ ops[s].todo # <<>> /\ Head(ops[s].todo) = "copy"
        /\ Tail(ops[s].todo) \in TodoOf /\ Head(Tail(ops[s].todo)) = "write" /\ Tail(ops[s].todo) # <<>>
    BY <1>1, AtIs, TodoNoneIs, TodoOfIs
  <1>3. /\ UNCHANGED <<list, rts, pluginDisk, raised, syncs, pushes, applied, stale, syncErr, link, agent, pluginCount,
                       overlapped, unsaved, tornOff>>
        /\ objs' = Append(objs, [ver |-> v, st |-> Plugin!KeptState, rt |-> 0])
    BY DEF Plugin!Copy, Plugin!server, Plugin!history
  <1>4. /\ Len(objs) \in Nat /\ Len(objs') = Len(objs) + 1 /\ objs' \in Seq(PlugObjs)
        /\ \A o \in 1..Len(objs) : objs'[o] = objs[o]
        /\ objs'[Len(objs) + 1] = [ver |-> v, st |-> Plugin!KeptState, rt |-> 0]
    <2>1. Plugin!KeptState \in Plugin!States
      BY <1>1, OnIs DEF Plugin!KeptState, Plugin!States
    <2>2. [ver |-> v, st |-> Plugin!KeptState, rt |-> 0] \in PlugObjs
      BY <2>1 DEF PlugObjs
    <2> QED
      BY <1>1, <1>3, <2>2, AppendProperties DEF PlugTyped
  <1>5. /\ OnlyMoves(s)
        /\ ops'[s] = After(ops[s], Len(objs) + 1, ops[s].stop)
    <2>1. ops' = [ops EXCEPT ![s] = After(ops[s], Len(objs) + 1, ops[s].stop)]
      <3>1. \A t, o : [ops[s] EXCEPT !.todo = t, !.obj = o] = [todo |-> t, obj |-> o, stop |-> ops[s].stop,
                                                               again |-> ops[s].again, off |-> ops[s].off]
        BY <1>2, OpObj
      <3> QED
        BY <3>1, Zenon DEF Plugin!Copy, Plugin!StepsLeft, After
    <2>2. After(ops[s], Len(objs) + 1, ops[s].stop) \in PlugOps
      <3>1. ops[s].stop \in Nat /\ Len(objs) + 1 \in Nat
        BY <1>2, <1>4 DEF PlugOps
      <3> QED
        BY <1>2, <3>1, AfterIs
    <2> QED
      BY <1>1, <2>1, <2>2, OpsMove
  <1>6. /\ ops'[s].todo = Tail(ops[s].todo) /\ ops'[s].obj = Len(objs) + 1 /\ ops'[s].stop = ops[s].stop
        /\ ops'[s].again = ops[s].again /\ ops'[s].off = ops[s].off
    BY <1>5 DEF After
  <1>7. PlugTyped'
    <2>1. \A o \in 1..Len(objs') : objs'[o].rt <= Len(rts')
      BY <1>1, <1>3, <1>4 DEF PlugTyped
    <2>2. ops'[s].obj <= Len(objs') /\ ops'[s].stop <= Len(rts') /\ ops'[s].obj # 0
      BY <1>1, <1>3, <1>4, <1>6 DEF PlugTyped
    <2>3. list' \in 0..Len(objs') /\ Len(objs') >= Len(objs) /\ rts' \in Seq(PlugRuns) /\ Len(rts') >= Len(rts)
      BY <1>1, <1>3, <1>4 DEF PlugTyped
    <2>4. /\ pluginDisk' = Plugin!None \/ pluginDisk' \in [ver: Versions, st: Plugin!States]
          /\ IsBool(raised') /\ IsBool(overlapped') /\ IsBool(unsaved') /\ syncs' \in Nat /\ pluginCount' \in PlugCounts
      BY <1>1, <1>3 DEF PlugTyped
    <2> QED
      BY <1>1, <1>2, <1>3, <1>4, <1>5, <1>6, <2>1, <2>2, <2>3, <2>4, TypedMoves
  <1>8. HasPush(ops'[s].todo) <=> HasPush(ops[s].todo)
    BY <1>1, <1>6, AfterStep
  <1>9. list' = list /\ (list # 0 => objs'[list] = objs[list])
    BY <1>1, <1>3, <1>4, OnIs
  <1>10. (Plugin!On' <=> Plugin!On) /\ Plugin!Bundle' = Plugin!Bundle /\ PlugState' = PlugState
    BY <1>1, <1>9, PluginStays
  <1>11. ASSUME AloneOK(ops[s]) PROVE AloneOK(ops[s])'
    <2>1. Before(ops[s])
      BY <1>2, <1>11, AloneAt
    <2>2. OneRuns' /\ Kept' /\ (Open' => Plugin!On')
      <3>1. OneRuns'
        BY <1>3, <1>9, <1>10, <2>1 DEF Before, OneRuns, Plugin!Live, Plugin!On
      <3>2. Kept' /\ (Open' => Plugin!On')
        BY <1>2, <1>3, <1>10, <2>1 DEF Before, Kept, Open
      <3> QED
        BY <3>1, <3>2
    <2>3. objs'[ops'[s].obj].st = Plugin!KeptState' /\ objs'[ops'[s].obj].rt = 0
      <3>1. Plugin!KeptState' = Plugin!KeptState
        BY <1>9 DEF Plugin!KeptState
      <3>2. objs'[ops'[s].obj] = [ver |-> v, st |-> Plugin!KeptState, rt |-> 0]
        BY <1>4, <1>6
      <3> QED
        BY <3>1, <3>2
    <2>4. ops'[s].again = TRUE /\ ops'[s].off = FALSE
      BY <1>2, <1>6, <2>1 DEF Before
    <2>5. Head(ops'[s].todo) = "write" /\ ops'[s].todo # <<>>
      BY <1>2, <1>6
    <2>6. Before(ops[s])'
      BY <2>2, <2>3, <2>4, <2>5 DEF Before
    <2> QED
      BY <2>5, <2>6, AloneNext
  <1> QED
    BY <1>1, <1>2, <1>3, <1>5, <1>6, <1>7, <1>8, <1>10, <1>11, Proceeds

\* A step that is done and nothing else.
LEMMA DoneTyped ==
    ASSUME PlugTyped, NEW s \in Slots, NEW h, Plugin!At(s, h), Plugin!Done(s), h # "copy"
    PROVE  /\ OnlyMoves(s) /\ Plugin!Busy(s)
           /\ ops'[s].obj <= Len(objs) /\ ops'[s].stop <= Len(rts)
           /\ ops'[s].todo \in (IF ops'[s].obj = 0 THEN TodoNone ELSE TodoOf)
           /\ ops'[s].todo = Tail(ops[s].todo)
           /\ ops'[s].todo = <<>> <=> Len(ops[s].todo) = 1
           /\ ops'[s].todo # <<>> => /\ ops'[s].obj = ops[s].obj /\ ops'[s].stop = ops[s].stop
                                     /\ ops'[s].again = ops[s].again /\ ops'[s].off = ops[s].off
           /\ HasPush(ops[s].todo) <=> h = "push" \/ HasPush(ops'[s].todo)
           /\ h = "push" => ~HasPush(ops'[s].todo)
  <1>1. Plugin!Busy(s)
    BY DEF Plugin!At
  <1>2. /\ ops[s] \in PlugOps /\ ops[s].todo # <<>> /\ Head(ops[s].todo) = h
        /\ ops[s].obj = 0 => ops[s].todo \in TodoNone
        /\ ops[s].obj # 0 => ops[s].todo \in TodoOf
        /\ ops[s].obj <= Len(objs) /\ ops[s].stop <= Len(rts) /\ Len(objs) \in Nat /\ Len(rts) \in Nat
    BY AtIs DEF PlugTyped
  <1>3. /\ OnlyMoves(s)
        /\ Len(ops[s].todo) = 1 => ops'[s] = Plugin!Free
        /\ Len(ops[s].todo) # 1 => ops'[s] = After(ops[s], ops[s].obj, ops[s].stop)
    BY <1>1, DoneIs
  <1>4. /\ HasPush(ops[s].todo) <=> h = "push" \/ HasPush(Tail(ops[s].todo))
        /\ Len(ops[s].todo) = 1 => Tail(ops[s].todo) = <<>>
    BY AfterStep
  <1>5. h = "push" => ~HasPush(Tail(ops[s].todo))
    BY <1>2, OnePush
  <1>6. CASE Len(ops[s].todo) = 1
    <2>1. ops'[s].todo = <<>> /\ ops'[s].obj = 0 /\ ops'[s].stop = 0
      BY <1>3, <1>6, FreeIs
    <2>2. <<>> \in TodoNone
      BY DEF TodoNone
    <2>3. ops'[s].todo = Tail(ops[s].todo) /\ (IF ops'[s].obj = 0 THEN TodoNone ELSE TodoOf) = TodoNone
      BY <1>4, <1>6, <2>1
    <2>4. ops'[s].obj <= Len(objs) /\ ops'[s].stop <= Len(rts)
      BY <1>2, <2>1
    <2> QED
      BY <1>1, <1>3, <1>4, <1>5, <1>6, <2>1, <2>2, <2>3, <2>4, Zenon
  <1>7. CASE Len(ops[s].todo) # 1
    <2>1. /\ ops'[s].todo = Tail(ops[s].todo) /\ ops'[s].obj = ops[s].obj /\ ops'[s].stop = ops[s].stop
          /\ ops'[s].again = ops[s].again /\ ops'[s].off = ops[s].off
      <3>1. ops'[s] = After(ops[s], ops[s].obj, ops[s].stop)
        BY <1>3, <1>7
      <3> QED
        BY <3>1 DEF After
    <2>2. ops[s].obj = 0 => Tail(ops[s].todo) \in TodoNone /\ Tail(ops[s].todo) # <<>>
      BY <1>2, <1>7, TodoNoneIs
    <2>3. ops[s].obj # 0 => Tail(ops[s].todo) \in TodoOf /\ Tail(ops[s].todo) # <<>>
      BY <1>2, <1>7, TodoOfIs
    <2> QED
      BY <1>1, <1>2, <1>3, <1>4, <1>5, <1>7, <2>1, <2>2, <2>3
  <1> QED
    BY <1>6, <1>7

\* What rests on the plugin and its runtimes, when they stay.
LEMMA WorldStays ==
    ASSUME PlugTyped, UNCHANGED <<list, objs, rts>>
    PROVE  /\ Plugin!On' <=> Plugin!On
           /\ OneRuns' <=> OneRuns
           /\ Plugin!Bundle' = Plugin!Bundle /\ PlugState' = PlugState /\ Plugin!Live' = Plugin!Live
           /\ Plugin!KeptState' = Plugin!KeptState
  <1>1. /\ Plugin!On' <=> Plugin!On
        /\ Plugin!Bundle' = Plugin!Bundle
        /\ PlugState' = PlugState
    BY PluginStays
  <1>2. Plugin!Live' = Plugin!Live
    BY DEF Plugin!Live
  <1>3. OneRuns' <=> OneRuns
    BY <1>1, <1>2 DEF OneRuns
  <1>4. Plugin!KeptState' = Plugin!KeptState
    BY DEF Plugin!KeptState
  <1> QED
    BY <1>1, <1>2, <1>3, <1>4

\* The types, when plugin and runtimes stay.
LEMMA TypedStays ==
    ASSUME PlugTyped, NEW s \in Slots, OnlyMoves(s), UNCHANGED <<objs, rts, tornOff, overlapped, pluginCount>>,
           UNCHANGED <<pushes, applied, stale, syncErr, link, agent>>,
           list' \in 0..Len(objs),
           pluginDisk' = Plugin!None \/ pluginDisk' \in [ver: Versions, st: Plugin!States],
           ops'[s].obj <= Len(objs), ops'[s].stop <= Len(rts),
           ops'[s].todo \in (IF ops'[s].obj = 0 THEN TodoNone ELSE TodoOf),
           IsBool(raised'), IsBool(unsaved'), syncs' \in Nat
    PROVE  PlugTyped'
  <1>1. /\ objs' \in Seq(PlugObjs) /\ rts' \in Seq(PlugRuns) /\ Len(objs') >= Len(objs) /\ Len(rts') >= Len(rts)
        /\ \A o \in 1..Len(objs') : objs'[o].rt <= Len(rts')
        /\ IsBool(overlapped') /\ pluginCount' \in PlugCounts
    BY DEF PlugTyped
  <1> QED
    BY <1>1, TypedMoves

\* writeInstalled, whole or not.
LEMMA PlugWrite == ASSUME PlugInv, NEW s \in Slots, Plugin!Write(s) PROVE PlugInv'
  <1>1. PlugTyped /\ Plugin!At(s, "write") /\ Plugin!Busy(s)
    BY DEF PlugInv, Plugin!Write, Plugin!At
  <1>2. /\ ops[s] \in PlugOps /\ ops[s].obj # 0 /\ ops[s].todo # <<>> /\ Head(ops[s].todo) = "write"
        /\ Head(Tail(ops[s].todo)) = "swap" /\ Tail(ops[s].todo) # <<>> /\ ops[s].obj \in 1..Len(objs)
        /\ objs[ops[s].obj].ver \in Versions /\ objs[ops[s].obj].st \in Plugin!States
    <2>1. /\ ops[s] \in PlugOps /\ ops[s].obj # 0 /\ ops[s].todo # <<>> /\ Head(ops[s].todo) = "write"
          /\ Head(Tail(ops[s].todo)) = "swap" /\ Tail(ops[s].todo) # <<>> /\ ops[s].obj \in 1..Len(objs)
      BY <1>1, AtIs, TodoNoneIs, TodoOfIs
    <2>2. objs[ops[s].obj] \in PlugObjs
      BY <1>1, <2>1, OnIs
    <2> QED
      BY <2>1, <2>2 DEF PlugObjs
  <1>3. UNCHANGED <<list, objs, rts, raised, syncs, pushes, applied, stale, syncErr, link, agent, pluginCount, overlapped, tornOff>>
    BY DEF Plugin!Write, Plugin!server
  <1>4. /\ Plugin!On' <=> Plugin!On
        /\ OneRuns' <=> OneRuns
        /\ Plugin!Bundle' = Plugin!Bundle /\ PlugState' = PlugState /\ Plugin!KeptState' = Plugin!KeptState
    BY <1>1, <1>3, WorldStays
  <1>5. /\ list' \in 0..Len(objs) /\ syncs' \in Nat /\ IsBool(raised') /\ IsBool(unsaved)
        /\ pluginDisk = Plugin!None \/ pluginDisk \in [ver: Versions, st: Plugin!States]
    BY <1>1, <1>3 DEF PlugTyped
  <1>6. CASE /\ pluginDisk' = [ver |-> objs[ops[s].obj].ver, st |-> objs[ops[s].obj].st]
             /\ Plugin!Done(s) /\ UNCHANGED unsaved
    <2>1. /\ OnlyMoves(s) /\ ops'[s].obj <= Len(objs) /\ ops'[s].stop <= Len(rts)
          /\ ops'[s].todo \in (IF ops'[s].obj = 0 THEN TodoNone ELSE TodoOf)
          /\ ops'[s].todo = Tail(ops[s].todo)
          /\ ops'[s].obj = ops[s].obj /\ ops'[s].again = ops[s].again /\ ops'[s].off = ops[s].off
          /\ HasPush(ops[s].todo) <=> HasPush(ops'[s].todo)
      BY <1>1, <1>2, <1>6, DoneTyped
    <2>2. PlugTyped'
      <3>1. pluginDisk' \in [ver: Versions, st: Plugin!States]
        BY <1>2, <1>6
      <3> QED
        BY <1>1, <1>3, <1>5, <1>6, <2>1, <3>1, TypedStays
    <2>3. ASSUME AloneOK(ops[s]) PROVE AloneOK(ops[s])'
      <3>1. Before(ops[s])
        BY <1>2, <2>3, AloneAt
      <3>2. Before(ops[s])'
        BY <1>2, <1>3, <1>4, <1>6, <2>1, <3>1 DEF Before, Open
      <3> QED
        BY <1>2, <2>1, <3>2, AloneNext
    <2> QED
      BY <1>1, <1>2, <1>3, <1>4, <1>6, <2>1, <2>2, <2>3, Proceeds
  <1>7. CASE /\ pluginDisk' \in {pluginDisk, IF pluginDisk = Plugin!None THEN pluginDisk
                                             ELSE [pluginDisk EXCEPT !.ver = objs[ops[s].obj].ver]}
             /\ ops' = [ops EXCEPT ![s] = Plugin!Free] /\ unsaved' = TRUE
    <2>1. OnlyMoves(s) /\ ops'[s] = Plugin!Free
      BY <1>1, <1>7, FreeIs, OpsMove
    <2>2. ops'[s].obj = 0 /\ ops'[s].stop = 0 /\ ops'[s].todo = <<>> /\ ~HasPush(ops'[s].todo)
      BY <2>1, FreeIs
    <2>3. PlugTyped'
      <3>1. pluginDisk' = Plugin!None \/ pluginDisk' \in [ver: Versions, st: Plugin!States]
        BY <1>2, <1>5, <1>7
      <3>2. <<>> \in TodoNone /\ IsBool(unsaved') /\ Len(objs) \in Nat /\ Len(rts) \in Nat
        BY <1>1, <1>7 DEF TodoNone, IsBool, PlugTyped
      <3>3. ops'[s].obj <= Len(objs) /\ ops'[s].stop <= Len(rts)
        BY <2>2, <3>2
      <3> QED
        BY <1>1, <1>3, <1>5, <2>1, <2>2, <3>1, <3>2, <3>3, TypedStays
    <2>4. ASSUME AloneOK(ops[s]) PROVE Rest'
      <3>1. Before(ops[s])
        BY <1>2, <2>4, AloneAt
      <3> QED
        BY <1>3, <1>4, <1>7, <3>1 DEF Before, Rest, Kept, Open
    <2> QED
      BY <1>1, <1>3, <1>4, <1>7, <2>1, <2>2, <2>3, <2>4, Proceeds
  <1> QED
    BY <1>6, <1>7 DEF Plugin!Write

\* replace: the list, and the runtime that was in it.
LEMMA PlugSwap == ASSUME PlugInv, NEW s \in Slots, Plugin!Swap(s) PROVE PlugInv'
  <1>1. PlugTyped /\ Plugin!At(s, "swap") /\ Plugin!Busy(s)
    BY DEF PlugInv, Plugin!Swap, Plugin!At
  <1> DEFINE was == IF list = 0 THEN 0 ELSE objs[list].rt
  <1>2. /\ ops[s] \in PlugOps /\ ops[s].todo # <<>> /\ Head(ops[s].todo) = "swap"
        /\ Head(Tail(ops[s].todo)) = "close" /\ Tail(ops[s].todo) # <<>>
        /\ HasPush(ops[s].todo) /\ HasPush(Tail(ops[s].todo))
        /\ ops[s].obj = 0 => Tail(ops[s].todo) \in TodoNone
        /\ ops[s].obj # 0 => Tail(ops[s].todo) \in TodoOf /\ ops[s].obj \in 1..Len(objs)
    BY <1>1, AtIs, TodoNoneIs, TodoOfIs
  <1>3. /\ UNCHANGED <<objs, rts, pluginDisk, raised, syncs, pushes, applied, stale, syncErr, link, agent, pluginCount,
                       overlapped, unsaved, tornOff>>
        /\ list' = ops[s].obj
    BY DEF Plugin!Swap, Plugin!server, Plugin!history
  <1>4. was \in Nat /\ was <= Len(rts) /\ ops[s].obj \in Nat /\ Len(rts) \in Nat
    <2>1. Len(rts) \in Nat /\ ops[s].obj \in Nat
      BY <1>1, <1>2 DEF PlugTyped, PlugOps
    <2>2. list # 0 => objs[list].rt \in Nat /\ objs[list].rt <= Len(rts)
      BY <1>1, OnIs DEF PlugTyped, PlugObjs
    <2> QED
      BY <2>1, <2>2
  <1>5. OnlyMoves(s) /\ ops'[s] = After(ops[s], ops[s].obj, was)
    <2>1. ops' = [ops EXCEPT ![s] = After(ops[s], ops[s].obj, was)]
      <3>1. \A t, x : [ops[s] EXCEPT !.todo = t, !.stop = x] = [todo |-> t, obj |-> ops[s].obj, stop |-> x,
                                                                again |-> ops[s].again, off |-> ops[s].off]
        BY <1>2, OpStop
      <3> QED
        BY <3>1, Zenon DEF Plugin!Swap, Plugin!StepsLeft, After
    <2> QED
      BY <1>1, <1>2, <1>4, <2>1, AfterIs, OpsMove
  <1>6. /\ ops'[s].todo = Tail(ops[s].todo) /\ ops'[s].obj = ops[s].obj /\ ops'[s].stop = was
        /\ ops'[s].again = ops[s].again /\ ops'[s].off = ops[s].off
    BY <1>5 DEF After
  <1>7. PlugTyped'
    <2>1. /\ list' \in 0..Len(objs) /\ syncs' \in Nat /\ IsBool(raised') /\ IsBool(unsaved')
          /\ pluginDisk' = Plugin!None \/ pluginDisk' \in [ver: Versions, st: Plugin!States]
          /\ ops'[s].obj <= Len(objs)
      BY <1>1, <1>3, <1>6 DEF PlugTyped, PlugOps
    <2> QED
      BY <1>1, <1>2, <1>3, <1>4, <1>5, <1>6, <2>1, TypedStays
  <1>8. ASSUME AloneOK(ops[s]) PROVE AloneOK(ops[s])'
    <2>1. Before(ops[s])
      BY <1>2, <1>8, AloneAt
    <2>2. Plugin!Live' = Plugin!Live /\ Plugin!Live \subseteq {was} /\ (Plugin!Live # {} => Plugin!On) /\ (Open => Plugin!On)
      BY <1>1, <1>3, <2>1, OnIs DEF Before, OneRuns, Plugin!Live
    <2>3. Open' <=> Open
      BY <1>3 DEF Open
    <2>4. Plugin!On => list # 0 /\ objs[list].st.on = TRUE
      BY <1>1, OnIs
    <2>5. CASE ops[s].obj # 0
      <3>1. Kept'
        BY <1>2, <1>3, <2>1, <2>5 DEF Before, Kept, PlugState
      <3>2. Plugin!On => Plugin!On'
        <4>1. Plugin!On => objs[ops[s].obj].st.on = TRUE
          BY <2>1, <2>4, <2>5 DEF Before, Plugin!KeptState
        <4> QED
          BY <1>3, <2>5, <4>1 DEF Plugin!On
      <3>3. objs[list'].rt = 0 /\ ops[s].again = TRUE /\ ops[s].off = FALSE
        BY <1>3, <2>1, <2>5 DEF Before
      <3>4. Closing(ops[s])'
        BY <1>3, <1>6, <2>2, <2>3, <3>1, <3>2, <3>3 DEF Closing
      <3> QED
        BY <1>2, <1>6, <2>5, <3>4, AloneNext
    <2>6. CASE ops[s].obj = 0
      <3>1. unsaved' = FALSE /\ (Open' \/ Plugin!Live' # {}) => DiskOn'
        <4>1. SUFFICES ASSUME unsaved = FALSE, Plugin!On PROVE DiskOn
          BY <1>3, <2>2, <2>3 DEF DiskOn
        <4>2. pluginDisk = [ver |-> objs[list].ver, st |-> objs[list].st] /\ objs[list].st.on = TRUE
          BY <2>1, <2>4, <2>6, <4>1 DEF Before, Kept, PlugState
        <4>3. pluginDisk \in [ver: Versions, st: Plugin!States]
          BY <1>1, <2>4, <4>1, <4>2, OnIs DEF PlugObjs
        <4> QED
          BY <4>2, <4>3, NoneIsNone DEF DiskOn
      <3>2. Removing(ops[s])'
        BY <1>2, <1>3, <1>6, <2>2, <2>6, <3>1 DEF Removing
      <3> QED
        BY <1>2, <1>6, <2>6, <3>2, AloneNext
    <2> QED
      BY <2>5, <2>6
  <1> QED
    BY <1>1, <1>2, <1>3, <1>5, <1>6, <1>7, <1>8, Proceeds

\* Runtime.Close: the runtime that was replaced does not live on.
LEMMA CloseIs ==
    ASSUME PlugTyped, NEW s \in Slots, Plugin!Close(s)
    PROVE  /\ rts' \in Seq(PlugRuns) /\ Len(rts') = Len(rts)
           /\ \A r \in 1..Len(rts) : rts'[r].cfg = rts[r].cfg
           /\ Plugin!Live' = Plugin!Live \ {ops[s].stop}
           /\ ops[s].stop = 0 => rts' = rts
  <1>1. CASE ops[s].stop = 0
    <2>1. rts' = rts /\ rts \in Seq(PlugRuns)
      BY <1>1 DEF Plugin!Close, PlugTyped
    <2>2. 0 \notin DOMAIN rts
      BY <2>1
    <2>3. Plugin!Live' = Plugin!Live \ {ops[s].stop}
      BY <1>1, <2>1, <2>2 DEF Plugin!Live
    <2> QED
      BY <2>1, <2>3
  <1>2. CASE ops[s].stop # 0
    <2>1. PICK k : k = ops[s].stop
      OBVIOUS
    <2>2. k \in 1..Len(rts) /\ rts \in Seq(PlugRuns) /\ rts[k] \in PlugRuns
      BY <1>2, <2>1 DEF PlugTyped, PlugOps
    <2>3. PICK x : x = (IF rts[k].run = "call" THEN "waits" ELSE "closed")
      OBVIOUS
    <2>4. rts' = [rts EXCEPT ![k].run = x]
      BY <1>2, <2>1, <2>3 DEF Plugin!Close, Plugin!Closes
    <2>5. rts'[k] = [rts[k] EXCEPT !.run = x]
      BY <2>2, <2>4
    <2>6. x = "closed"
      BY <1>2, <2>1, <2>2, <2>3, <2>5 DEF Plugin!Close, PlugRuns
    <2>7. rts'[k] = [run |-> "closed", cfg |-> rts[k].cfg] /\ rts'[k] \in PlugRuns
      BY <2>2, <2>5, <2>6 DEF PlugRuns
    <2>8. rts' = [rts EXCEPT ![k] = [rts[k] EXCEPT !.run = x]]
      BY <2>2, <2>4
    <2>9. \A r \in 1..Len(rts) : r # k => rts'[r] = rts[r]
      BY <2>2, <2>8
    <2>10. rts' \in Seq(PlugRuns) /\ Len(rts') = Len(rts) /\ DOMAIN rts' = DOMAIN rts
      <3>1. [rts[k] EXCEPT !.run = x] \in PlugRuns
        BY <2>5, <2>7
      <3> QED
        BY <2>2, <2>8, <3>1, ExceptSeq
    <2>11. Plugin!Live' = Plugin!Live \ {k}
      <3>1. DOMAIN rts = 1..Len(rts)
        BY <2>2
      <3> QED
        BY <2>7, <2>9, <2>10, <3>1 DEF Plugin!Live
    <2> QED
      BY <1>2, <2>1, <2>7, <2>9, <2>10, <2>11
  <1> QED
    BY <1>1, <1>2

\* The runtime is closed before the next is started.
LEMMA PlugClose == ASSUME PlugInv, NEW s \in Slots, Plugin!Close(s) PROVE PlugInv'
  <1>1. PlugTyped /\ Plugin!At(s, "close") /\ Plugin!Busy(s) /\ Plugin!Done(s)
    BY DEF PlugInv, Plugin!Close, Plugin!At
  <1>2. /\ ops[s] \in PlugOps /\ ops[s].todo # <<>> /\ Head(ops[s].todo) = "close" /\ Tail(ops[s].todo) # <<>>
        /\ ops[s].obj = 0 => Head(Tail(ops[s].todo)) = "push"
        /\ ops[s].obj # 0 => Head(Tail(ops[s].todo)) = "start"
        /\ HasResolve(ops[s].todo) <=> HasResolve(Tail(ops[s].todo))
    <2>1. /\ ops[s] \in PlugOps /\ ops[s].todo # <<>> /\ Head(ops[s].todo) = "close" /\ Tail(ops[s].todo) # <<>>
          /\ ops[s].obj = 0 => Head(Tail(ops[s].todo)) = "push"
          /\ ops[s].obj # 0 => Head(Tail(ops[s].todo)) = "start"
      BY <1>1, AtIs, TodoNoneIs, TodoOfIs
    <2> QED
      BY <2>1, PushLater DEF PlugOps
  <1>3. UNCHANGED <<list, objs, pluginDisk, raised, syncs, pushes, applied, stale, syncErr, link, agent, pluginCount,
                    overlapped, unsaved, tornOff>>
    BY DEF Plugin!Close, Plugin!server, Plugin!history
  <1>4. /\ rts' \in Seq(PlugRuns) /\ Len(rts') = Len(rts)
        /\ \A r \in 1..Len(rts) : rts'[r].cfg = rts[r].cfg
        /\ Plugin!Live' = Plugin!Live \ {ops[s].stop}
        /\ ops[s].stop = 0 => rts' = rts
    BY <1>1, CloseIs
  <1>5. /\ OnlyMoves(s) /\ ops'[s].obj <= Len(objs) /\ ops'[s].stop <= Len(rts)
        /\ ops'[s].todo \in (IF ops'[s].obj = 0 THEN TodoNone ELSE TodoOf)
        /\ ops'[s].todo = Tail(ops[s].todo)
        /\ ops'[s].obj = ops[s].obj /\ ops'[s].again = ops[s].again /\ ops'[s].off = ops[s].off
        /\ HasPush(ops[s].todo) <=> HasPush(ops'[s].todo)
    BY <1>1, <1>2, DoneTyped
  <1>6. PlugTyped'
    <2>1. /\ objs' \in Seq(PlugObjs) /\ Len(objs') >= Len(objs) /\ Len(rts') >= Len(rts) /\ list' \in 0..Len(objs')
          /\ \A o \in 1..Len(objs') : objs'[o].rt <= Len(rts')
          /\ pluginDisk' = Plugin!None \/ pluginDisk' \in [ver: Versions, st: Plugin!States]
          /\ IsBool(raised') /\ IsBool(overlapped') /\ IsBool(unsaved') /\ syncs' \in Nat /\ pluginCount' \in PlugCounts
          /\ ops'[s].obj <= Len(objs') /\ ops'[s].stop <= Len(rts')
      BY <1>1, <1>3, <1>4, <1>5 DEF PlugTyped
    <2> QED
      BY <1>1, <1>3, <1>4, <1>5, <2>1, TypedMoves
  <1>7. /\ Plugin!On' <=> Plugin!On
        /\ Plugin!Bundle' = Plugin!Bundle
        /\ PlugState' = PlugState
    BY <1>1, <1>3, PluginStays
  <1>8. ASSUME AloneOK(ops[s]) PROVE AloneOK(ops[s])'
    <2>1. CASE ops[s].obj # 0
      <3>1. Closing(ops[s])
        BY <1>2, <1>8, <2>1, AloneAt
      <3>2. Kept' /\ (Open' <=> Open)
        BY <1>3, <1>7, <3>1 DEF Closing, Kept, Open
      <3>3. ops[s].again = TRUE => Plugin!Live' = {}
        BY <1>4, <3>1 DEF Closing
      <3>4. ops[s].again # TRUE => OneRuns'
        <4>1. SUFFICES ASSUME ops[s].again # TRUE PROVE OneRuns'
          OBVIOUS
        <4>2. rts' = rts /\ OneRuns
          BY <1>4, <3>1, <4>1 DEF Closing
        <4> QED
          BY <1>1, <1>3, <4>2, WorldStays
      <3>5. Starting(ops[s])'
        BY <1>2, <1>3, <1>5, <1>7, <3>1, <3>2, <3>3, <3>4 DEF Starting, Closing
      <3> QED
        BY <1>2, <1>5, <2>1, <3>5, AloneNext
    <2>2. CASE ops[s].obj = 0
      <3>1. Removing(ops[s])
        BY <1>2, <1>8, <2>2, AloneAt
      <3>2. Plugin!Live' = {} /\ list' = 0 /\ Head(ops'[s].todo) = "push"
        BY <1>2, <1>3, <1>4, <1>5, <2>2, <3>1 DEF Removing
      <3>3. unsaved' = FALSE /\ Open' => DiskOn'
        BY <1>3, <3>1 DEF Removing, DiskOn, Open
      <3>4. Removing(ops[s])'
        BY <3>2, <3>3 DEF Removing
      <3> QED
        BY <1>2, <1>5, <2>2, <3>4, AloneNext
    <2> QED
      BY <2>1, <2>2
  <1> QED
    BY <1>1, <1>2, <1>3, <1>5, <1>6, <1>7, <1>8, Proceeds

\* startBackend: a new runtime with the settings of now, or none.
LEMMA StartIs ==
    ASSUME PlugTyped, NEW s \in Slots, Plugin!StartBackend(s), ops[s].obj # 0
    PROVE  /\ objs' \in Seq(PlugObjs) /\ rts' \in Seq(PlugRuns) /\ Len(objs') = Len(objs) /\ Len(rts') >= Len(rts)
           /\ \A o \in 1..Len(objs) : /\ objs'[o].rt <= Len(rts')
                                      /\ objs'[o].ver = objs[o].ver /\ objs'[o].st = objs[o].st
           /\ ops[s].again = TRUE /\ objs[ops[s].obj].st.on = TRUE =>
                 /\ objs'[ops[s].obj].rt = Len(rts) + 1
                 /\ rts'[Len(rts) + 1].cfg = objs[ops[s].obj].st.cfg
                 /\ Plugin!Live' = Plugin!Live \cup {Len(rts) + 1}
           /\ ~(ops[s].again = TRUE /\ objs[ops[s].obj].st.on = TRUE) => objs' = objs /\ rts' = rts
  <1>1. PICK o : o = ops[s].obj
    OBVIOUS
  <1>2. /\ o \in 1..Len(objs) /\ objs \in Seq(PlugObjs) /\ rts \in Seq(PlugRuns) /\ objs[o] \in PlugObjs
        /\ Len(rts) \in Nat /\ Len(objs) \in Nat /\ \A n \in 1..Len(objs) : objs[n].rt <= Len(rts) /\ objs[n].rt \in Nat
    <2>1. objs \in Seq(PlugObjs) /\ rts \in Seq(PlugRuns) /\ Len(rts) \in Nat /\ Len(objs) \in Nat
      BY DEF PlugTyped
    <2>2. o \in 1..Len(objs)
      BY <1>1 DEF PlugTyped, PlugOps
    <2>3. \A n \in 1..Len(objs) : objs[n] \in PlugObjs /\ objs[n].rt <= Len(rts)
      BY <2>1 DEF PlugTyped
    <2> QED
      BY <2>1, <2>2, <2>3 DEF PlugObjs
  <1>3. /\ ops[s].again <=> ops[s].again = TRUE
        /\ objs[o].st.on <=> objs[o].st.on = TRUE
    <2>1. ops[s].again \in BOOLEAN /\ objs[o].st.on \in BOOLEAN
      BY <1>2 DEF PlugTyped, PlugOps, PlugObjs, Plugin!States
    <2> QED
      BY <2>1, Zenon
  <1>4. CASE ops[s].again = TRUE /\ objs[o].st.on = TRUE
    <2>1. PICK n, e : n = Len(rts) + 1 /\ e = [run |-> "run", cfg |-> objs[o].st.cfg]
      OBVIOUS
    <2>2. rts' = Append(rts, e) /\ objs' = [objs EXCEPT ![o].rt = n]
      <3>1. IF o # 0 /\ ops[s].again /\ objs[o].st.on
            THEN rts' = Append(rts, e) /\ objs' = [objs EXCEPT ![o].rt = n]
            ELSE UNCHANGED <<rts, objs>>
        BY <1>1, <2>1 DEF Plugin!StartBackend
      <3> QED
        BY <1>1, <1>3, <1>4, <3>1, Zenon
    <2>3. e \in PlugRuns /\ e.run = "run" /\ e.cfg = objs[o].st.cfg
      BY <1>2, <2>1 DEF PlugRuns, PlugObjs, Plugin!States
    <2>4. /\ rts' \in Seq(PlugRuns) /\ Len(rts') = n /\ \A r \in 1..Len(rts) : rts'[r] = rts[r]
          /\ rts'[n] = e
      BY <1>2, <2>1, <2>2, <2>3, AppendProperties
    <2>5. PICK x : x = [objs[o] EXCEPT !.rt = n]
      OBVIOUS
    <2>6. x = [ver |-> objs[o].ver, st |-> objs[o].st, rt |-> n] /\ x \in PlugObjs
      BY <1>2, <2>1, <2>5 DEF PlugObjs
    <2>7. objs' = [objs EXCEPT ![o] = x]
      BY <1>2, <2>2, <2>5
    <2>8. objs' \in Seq(PlugObjs) /\ Len(objs') = Len(objs) /\ \A k \in 1..Len(objs) : objs'[k] = IF k = o THEN x ELSE objs[k]
      BY <1>2, <2>6, <2>7, ExceptSeq
    <2>9. Plugin!Live' = Plugin!Live \cup {n}
      <3>1. DOMAIN rts = 1..Len(rts) /\ DOMAIN rts' = 1..n
        BY <1>2, <2>4
      <3> QED
        BY <1>2, <2>1, <2>3, <2>4, <3>1 DEF Plugin!Live
    <2>10. \A k \in 1..Len(objs) : objs'[k].rt <= Len(rts') /\ objs'[k].ver = objs[k].ver /\ objs'[k].st = objs[k].st
      <3>1. TAKE k \in 1..Len(objs)
      <3>2. CASE k = o
        BY <1>2, <2>1, <2>4, <2>6, <2>8, <3>2
      <3>3. CASE k # o
        <4>1. objs'[k] = objs[k] /\ objs[k].rt <= Len(rts) /\ objs[k].rt \in Nat
          BY <1>2, <2>8, <3>3
        <4> QED
          BY <1>2, <2>1, <2>4, <4>1
      <3> QED
        BY <3>2, <3>3
    <2>11. objs'[o].rt = n
      BY <1>2, <2>6, <2>8
    <2>12. Len(rts') >= Len(rts)
      BY <1>2, <2>1, <2>4
    <2> QED
      BY <1>1, <1>4, <2>1, <2>3, <2>4, <2>8, <2>9, <2>10, <2>11, <2>12
  <1>5. CASE ~(ops[s].again = TRUE /\ objs[o].st.on = TRUE)
    <2>1. objs' = objs /\ rts' = rts
      <3>1. (o # 0 /\ ops[s].again /\ objs[o].st.on) \/ UNCHANGED <<rts, objs>>
        BY <1>1 DEF Plugin!StartBackend
      <3> QED
        BY <1>3, <1>5, <3>1, Zenon
    <2> QED
      BY <1>1, <1>2, <1>5, <2>1
  <1> QED
    BY <1>1, <1>4, <1>5

\* One runtime is started, after the other was closed.
LEMMA PlugStart == ASSUME PlugInv, NEW s \in Slots, Plugin!StartBackend(s) PROVE PlugInv'
  <1>1. PlugTyped /\ Plugin!At(s, "start") /\ Plugin!Busy(s) /\ Plugin!Done(s)
    BY DEF PlugInv, Plugin!StartBackend, Plugin!At
  <1>2. /\ ops[s] \in PlugOps /\ ops[s].obj # 0 /\ ops[s].todo # <<>> /\ Head(ops[s].todo) = "start"
        /\ Tail(ops[s].todo) # <<>> /\ Tail(ops[s].todo) \in TodoOf /\ Head(Tail(ops[s].todo)) \in {"resolve", "push"}
        /\ ops[s].obj \in 1..Len(objs)
    BY <1>1, AtIs, TodoNoneIs, TodoOfIs
  <1>3. HasResolve(ops[s].todo) => Head(Tail(ops[s].todo)) = "resolve"
    <2>1. HasResolve(ops[s].todo) => HasResolve(Tail(ops[s].todo))
      BY <1>2, PushLater DEF PlugOps
    <2>2. Tail(ops[s].todo) \in Seq(Plugin!Steps)
      BY <1>2, HeadTailProperties DEF PlugOps
    <2>3. PICK t : t = Tail(ops[s].todo)
      OBVIOUS
    <2>4. Head(t) = "push" => ~HasResolve(t)
      BY <1>2, <2>2, <2>3, TodoOfIs, PushLater
    <2> QED
      BY <1>2, <2>1, <2>3, <2>4
  <1>4. UNCHANGED <<list, pluginDisk, raised, syncs, pushes, applied, stale, syncErr, link, agent, pluginCount,
                    overlapped, unsaved, tornOff>>
    BY DEF Plugin!StartBackend, Plugin!server, Plugin!history
  <1>5. /\ objs' \in Seq(PlugObjs) /\ rts' \in Seq(PlugRuns) /\ Len(objs') = Len(objs) /\ Len(rts') >= Len(rts)
        /\ \A o \in 1..Len(objs) : /\ objs'[o].rt <= Len(rts')
                                   /\ objs'[o].ver = objs[o].ver /\ objs'[o].st = objs[o].st
        /\ ops[s].again = TRUE /\ objs[ops[s].obj].st.on = TRUE =>
              /\ objs'[ops[s].obj].rt = Len(rts) + 1
              /\ rts'[Len(rts) + 1].cfg = objs[ops[s].obj].st.cfg
              /\ Plugin!Live' = Plugin!Live \cup {Len(rts) + 1}
        /\ ~(ops[s].again = TRUE /\ objs[ops[s].obj].st.on = TRUE) => objs' = objs /\ rts' = rts
    BY <1>1, <1>2, StartIs
  <1>6. /\ OnlyMoves(s) /\ ops'[s].obj <= Len(objs) /\ ops'[s].stop <= Len(rts)
        /\ ops'[s].todo \in (IF ops'[s].obj = 0 THEN TodoNone ELSE TodoOf)
        /\ ops'[s].todo = Tail(ops[s].todo)
        /\ ops'[s].obj = ops[s].obj /\ ops'[s].again = ops[s].again /\ ops'[s].off = ops[s].off
        /\ HasPush(ops[s].todo) <=> HasPush(ops'[s].todo)
    BY <1>1, <1>2, DoneTyped
  <1>7. PlugTyped'
    <2>1. /\ Len(objs') >= Len(objs) /\ list' \in 0..Len(objs')
          /\ \A o \in 1..Len(objs') : objs'[o].rt <= Len(rts')
          /\ pluginDisk' = Plugin!None \/ pluginDisk' \in [ver: Versions, st: Plugin!States]
          /\ IsBool(raised') /\ IsBool(overlapped') /\ IsBool(unsaved') /\ syncs' \in Nat /\ pluginCount' \in PlugCounts
      <3>1. Len(objs) \in Nat /\ list \in 0..Len(objs)
        BY <1>1 DEF PlugTyped
      <3>2. /\ pluginDisk' = Plugin!None \/ pluginDisk' \in [ver: Versions, st: Plugin!States]
            /\ IsBool(raised') /\ IsBool(overlapped') /\ IsBool(unsaved') /\ syncs' \in Nat /\ pluginCount' \in PlugCounts
        BY <1>1, <1>4 DEF PlugTyped
      <3> QED
        BY <1>4, <1>5, <3>1, <3>2
    <2>2. ops'[s].obj <= Len(objs') /\ ops'[s].stop <= Len(rts')
      <3>1. ops'[s].stop \in Nat /\ Len(rts) \in Nat /\ Len(rts') \in Nat
        BY <1>1, <1>5, <1>6 DEF PlugTyped, OnlyMoves, PlugOps
      <3> QED
        BY <1>5, <1>6, <3>1
    <2> QED
      BY <1>1, <1>4, <1>5, <1>6, <2>1, <2>2, TypedMoves
  <1>8. /\ Plugin!On' <=> Plugin!On
        /\ Plugin!Bundle' = Plugin!Bundle
        /\ PlugState' = PlugState
    BY <1>1, <1>4, <1>5, PluginStays, OnIs
  <1>9. ASSUME AloneOK(ops[s]) PROVE AloneOK(ops[s])'
    <2>1. Starting(ops[s])
      BY <1>2, <1>9, AloneAt
    <2>2. Kept' /\ (Open' <=> Open) /\ list' = ops'[s].obj
      BY <1>4, <1>6, <1>8, <2>1 DEF Starting, Kept, Open
    <2>3. Plugin!On <=> objs[ops[s].obj].st.on = TRUE
      BY <1>1, <1>2, <2>1, OnIs DEF Starting
    <2>4. OneRuns'
      <3>1. CASE ops[s].again = TRUE /\ objs[ops[s].obj].st.on = TRUE
        <4>1. Plugin!Live' = {Len(rts) + 1} /\ objs'[list'].rt = Len(rts) + 1 /\ Len(rts) + 1 # 0
          BY <1>1, <1>4, <1>5, <2>1, <3>1 DEF Starting, PlugTyped
        <4>2. rts'[objs'[list'].rt].cfg = objs'[list'].st.cfg
          BY <1>2, <1>4, <1>5, <2>1, <3>1, <4>1 DEF Starting
        <4> QED
          BY <1>8, <2>3, <3>1, <4>1, <4>2 DEF OneRuns
      <3>2. CASE ops[s].again = TRUE /\ objs[ops[s].obj].st.on # TRUE
        <4>1. ~Plugin!On' /\ rts' = rts /\ Plugin!Live = {}
          BY <1>5, <1>8, <2>1, <2>3, <3>2 DEF Starting
        <4>2. Plugin!Live' = {}
          BY <4>1 DEF Plugin!Live
        <4> QED
          BY <4>1, <4>2 DEF OneRuns
      <3>3. CASE ops[s].again # TRUE
        <4>1. objs' = objs /\ rts' = rts /\ OneRuns
          BY <1>5, <2>1, <3>3 DEF Starting
        <4> QED
          BY <1>1, <1>4, <4>1, WorldStays
      <3> QED
        BY <3>1, <3>2, <3>3
    <2>5. CASE Head(Tail(ops[s].todo)) = "resolve"
      <3>1. Resolving(ops[s])'
        BY <1>6, <1>8, <2>1, <2>2, <2>4 DEF Resolving, Starting
      <3> QED
        BY <1>2, <1>6, <2>5, <3>1, AloneNext
    <2>6. CASE Head(Tail(ops[s].todo)) = "push"
      <3>1. Open => Plugin!On
        BY <1>3, <2>1, <2>6 DEF Starting
      <3>2. Pushes(ops[s])'
        BY <1>6, <1>8, <2>2, <2>4, <3>1 DEF Pushes
      <3> QED
        BY <1>2, <1>6, <2>6, <3>2, AloneNext
    <2> QED
      BY <1>2, <2>5, <2>6
  <1> QED
    BY <1>1, <1>2, <1>4, <1>6, <1>7, <1>8, <1>9, Proceeds

\* The plugin that was removed or turned off has its alerts resolved.
LEMMA PlugResolve == ASSUME PlugInv, NEW s \in Slots, Plugin!ResolvePluginAll(s) PROVE PlugInv'
  <1>1. PlugTyped /\ Plugin!At(s, "resolve") /\ Plugin!Busy(s) /\ Plugin!Done(s)
    BY DEF PlugInv, Plugin!ResolvePluginAll, Plugin!At
  <1>2. /\ ops[s] \in PlugOps /\ ops[s].todo # <<>> /\ Head(ops[s].todo) = "resolve"
        /\ ops[s].obj = 0 => Head(Tail(ops[s].todo)) = "delete" /\ Tail(ops[s].todo) # <<>>
        /\ ops[s].obj # 0 => /\ Len(ops[s].todo) = 1 \/ Head(Tail(ops[s].todo)) = "push"
                             /\ ops[s].obj \in 1..Len(objs)
    BY <1>1, AtIs, TodoNoneIs, TodoOfIs
  <1>3. UNCHANGED <<list, objs, rts, pluginDisk, syncs, pushes, applied, stale, syncErr, link, agent, pluginCount,
                    overlapped, unsaved, tornOff>>
    BY DEF Plugin!ResolvePluginAll, Plugin!server, Plugin!history
  <1>4. /\ OnlyMoves(s) /\ ops'[s].obj <= Len(objs) /\ ops'[s].stop <= Len(rts)
        /\ ops'[s].todo \in (IF ops'[s].obj = 0 THEN TodoNone ELSE TodoOf)
        /\ ops'[s].todo = Tail(ops[s].todo) /\ (ops'[s].todo = <<>> <=> Len(ops[s].todo) = 1)
        /\ ops'[s].todo # <<>> => ops'[s].obj = ops[s].obj /\ ops'[s].again = ops[s].again /\ ops'[s].off = ops[s].off
        /\ HasPush(ops[s].todo) <=> HasPush(ops'[s].todo)
    BY <1>1, <1>2, DoneTyped
  <1>5. /\ IsBool(raised') /\ (raised' = TRUE => raised = TRUE /\ ~Plugin!Resolves(s))
    <2>1. raised' = (raised /\ ~Plugin!Resolves(s)) /\ IsBool(raised)
      BY <1>1 DEF Plugin!ResolvePluginAll, PlugTyped
    <2> QED
      BY <2>1, Zenon DEF IsBool
  <1>6. PlugTyped'
    <2>1. /\ list' \in 0..Len(objs) /\ syncs' \in Nat /\ IsBool(unsaved')
          /\ pluginDisk' = Plugin!None \/ pluginDisk' \in [ver: Versions, st: Plugin!States]
      BY <1>1, <1>3 DEF PlugTyped
    <2> QED
      BY <1>1, <1>3, <1>4, <1>5, <2>1, TypedStays
  <1>7. /\ Plugin!On' <=> Plugin!On
        /\ OneRuns' <=> OneRuns
        /\ Plugin!Bundle' = Plugin!Bundle /\ PlugState' = PlugState /\ Plugin!Live' = Plugin!Live
    BY <1>1, <1>3, WorldStays
  <1>8. Open' => Open /\ ~Plugin!Resolves(s)
    BY <1>3, <1>5 DEF Open
  <1>9. ASSUME AloneOK(ops[s]), ops[s].obj # 0 PROVE list' = ops[s].obj /\ Rest'
    <2>1. Resolving(ops[s])
      BY <1>2, <1>9, AloneAt
    <2>2. Open' => Plugin!On
      <3>1. ops[s].off = TRUE /\ ~Plugin!On => Plugin!Resolves(s)
        <4>1. Plugin!On <=> objs[ops[s].obj].st.on = TRUE
          BY <1>1, <1>9, <2>1, OnIs DEF Resolving
        <4>2. objs[ops[s].obj].st.on \in BOOLEAN
          BY <1>1, <1>2, <1>9, OnIs DEF PlugObjs, Plugin!States
        <4> QED
          BY <4>1, <4>2, Zenon DEF Plugin!Resolves
      <3> QED
        BY <1>8, <2>1, <3>1 DEF Resolving
    <2> QED
      BY <1>3, <1>7, <2>1, <2>2 DEF Resolving, Rest, Kept
  <1>10. ASSUME AloneOK(ops[s]), ops'[s].todo # <<>> PROVE AloneOK(ops[s])'
    <2>1. CASE ops[s].obj # 0
      <3>1. Pushes(ops[s])'
        BY <1>4, <1>9, <1>10, <2>1 DEF Pushes, Rest
      <3> QED
        BY <1>2, <1>4, <1>10, <2>1, <3>1, AloneNext
    <2>2. CASE ops[s].obj = 0
      <3>1. Removing(ops[s])
        BY <1>2, <1>10, <2>2, AloneAt
      <3>2. raised' = FALSE
        <4>1. Plugin!Resolves(s)
          BY <2>2 DEF Plugin!Resolves
        <4> QED
          BY <1>5, <4>1 DEF IsBool
      <3>3. Removing(ops[s])'
        BY <1>2, <1>3, <1>4, <1>7, <3>1, <3>2 DEF Removing, DiskOn, Open
      <3> QED
        BY <1>2, <1>4, <1>10, <2>2, <3>3, AloneNext
    <2> QED
      BY <2>1, <2>2
  <1>11. ASSUME AloneOK(ops[s]), ops'[s].todo = <<>> PROVE Rest'
    BY <1>2, <1>4, <1>9, <1>11
  <1> QED
    BY <1>1, <1>3, <1>4, <1>6, <1>7, <1>10, <1>11, Proceeds

\* Remove: the files go last.
LEMMA PlugDelete == ASSUME PlugInv, NEW s \in Slots, Plugin!RemoveAll(s) PROVE PlugInv'
  <1>1. PlugTyped /\ Plugin!At(s, "delete") /\ Plugin!Busy(s) /\ Plugin!Done(s)
    BY DEF PlugInv, Plugin!RemoveAll, Plugin!At
  <1>2. /\ ops[s] \in PlugOps /\ ops[s].todo # <<>> /\ Head(ops[s].todo) = "delete"
        /\ ops[s].obj = 0 /\ Len(ops[s].todo) = 1
    BY <1>1, AtIs, TodoNoneIs, TodoOfIs
  <1>3. /\ UNCHANGED <<list, objs, rts, raised, syncs, pushes, applied, stale, syncErr, link, agent, pluginCount,
                       overlapped, unsaved, tornOff>>
        /\ pluginDisk' = Plugin!None
    BY DEF Plugin!RemoveAll, Plugin!Deleted, Plugin!server, Plugin!history
  <1>4. /\ OnlyMoves(s) /\ ops'[s].obj <= Len(objs) /\ ops'[s].stop <= Len(rts)
        /\ ops'[s].todo \in (IF ops'[s].obj = 0 THEN TodoNone ELSE TodoOf)
        /\ ops'[s].todo = <<>>
        /\ HasPush(ops[s].todo) <=> HasPush(ops'[s].todo)
    BY <1>1, <1>2, DoneTyped
  <1>5. PlugTyped'
    <2>1. list' \in 0..Len(objs) /\ syncs' \in Nat /\ IsBool(unsaved') /\ IsBool(raised')
      BY <1>1, <1>3 DEF PlugTyped
    <2> QED
      BY <1>1, <1>3, <1>4, <2>1, TypedStays
  <1>6. /\ Plugin!On' <=> Plugin!On
        /\ Plugin!Bundle' = Plugin!Bundle /\ Plugin!Live' = Plugin!Live
    BY <1>1, <1>3, WorldStays
  <1>7. ASSUME AloneOK(ops[s]) PROVE Rest'
    <2>1. Removing(ops[s])
      BY <1>2, <1>7, AloneAt
    <2>2. list' = 0 /\ Plugin!Live' = {} /\ raised' = FALSE
      BY <1>2, <1>3, <1>6, <2>1 DEF Removing
    <2>3. ~Plugin!On'
      BY <2>2, Zenon DEF Plugin!On
    <2> QED
      BY <1>3, <2>2, <2>3 DEF Rest, OneRuns, Kept, PlugState, Open
  <1> QED
    BY <1>1, <1>3, <1>4, <1>5, <1>6, <1>7, Proceeds

\* changed: a list is to be built.
LEMMA PlugChanged == ASSUME PlugInv, NEW s \in Slots, Plugin!Changed(s) PROVE PlugInv'
  <1>1. PlugTyped /\ Plugin!At(s, "push") /\ Plugin!Busy(s) /\ Plugin!Done(s)
    BY DEF PlugInv, Plugin!Changed, Plugin!At
  <1>2. /\ ops[s] \in PlugOps /\ ops[s].todo # <<>> /\ Head(ops[s].todo) = "push"
        /\ ops[s].obj = 0 => Head(Tail(ops[s].todo)) = "resolve" /\ Len(ops[s].todo) # 1
        /\ ops[s].obj # 0 => Len(ops[s].todo) = 1
    BY <1>1, AtIs, TodoNoneIs, TodoOfIs
  <1>3. /\ UNCHANGED <<list, objs, rts, pluginDisk, raised, pushes, applied, stale, syncErr, link, agent, pluginCount,
                       overlapped, unsaved, tornOff>>
        /\ syncs' = syncs + 1
    BY DEF Plugin!Changed, Plugin!server, Plugin!history
  <1>4. /\ OnlyMoves(s) /\ ops'[s].obj <= Len(objs) /\ ops'[s].stop <= Len(rts)
        /\ ops'[s].todo \in (IF ops'[s].obj = 0 THEN TodoNone ELSE TodoOf)
        /\ ops'[s].todo = Tail(ops[s].todo) /\ (ops'[s].todo = <<>> <=> Len(ops[s].todo) = 1)
        /\ ops'[s].todo # <<>> => ops'[s].obj = ops[s].obj
        /\ HasPush(ops[s].todo) /\ ~HasPush(ops'[s].todo)
    BY <1>1, <1>2, DoneTyped
  <1>5. PlugTyped' /\ syncs \in Nat
    <2>1. /\ list' \in 0..Len(objs) /\ syncs \in Nat /\ syncs' \in Nat /\ IsBool(unsaved') /\ IsBool(raised')
          /\ pluginDisk' = Plugin!None \/ pluginDisk' \in [ver: Versions, st: Plugin!States]
      BY <1>1, <1>3 DEF PlugTyped
    <2> QED
      BY <1>1, <1>3, <1>4, <2>1, TypedStays
  <1>6. /\ Plugin!On' <=> Plugin!On
        /\ OneRuns' <=> OneRuns
        /\ Plugin!Bundle' = Plugin!Bundle /\ PlugState' = PlugState /\ Plugin!Live' = Plugin!Live
    BY <1>1, <1>3, WorldStays
  <1>7. ASSUME AloneOK(ops[s]), ops'[s].todo # <<>> PROVE AloneOK(ops[s])'
    <2>1. ops[s].obj = 0 /\ ops'[s].obj = 0 /\ Head(ops'[s].todo) = "resolve"
      BY <1>2, <1>4, <1>7
    <2>2. Removing(ops[s])
      BY <1>2, <1>7, <2>1, AloneAt
    <2>3. Removing(ops[s])'
      BY <1>2, <1>3, <1>6, <2>1, <2>2 DEF Removing, DiskOn, Open
    <2> QED
      BY <1>7, <2>1, <2>3, AloneNext
  <1>8. ASSUME AloneOK(ops[s]), ops'[s].todo = <<>> PROVE Rest'
    <2>1. Pushes(ops[s])
      BY <1>2, <1>4, <1>8, AloneAt
    <2> QED
      BY <1>3, <1>6, <2>1 DEF Pushes, Rest, Kept, Open
  <1>9. syncs' \in {syncs, syncs + 1} /\ syncs' # syncs
    BY <1>3, <1>5
  <1> QED
    BY <1>1, <1>3, <1>4, <1>5, <1>6, <1>7, <1>8, <1>9, Proceeds

-----------------------------------------------------------------------------
(* A request begins.                                                       *)

\* It is counted, and it overlaps with those in progress.
LEMMA BeginsIs ==
    ASSUME PlugTyped, NEW s \in Slots, NEW q \in PlugOps, Plugin!Begins(s, q)
    PROVE  /\ OnlyMoves(s) /\ ops'[s] = q /\ ops[s].todo = <<>>
           /\ pluginCount' \in PlugCounts /\ pluginCount'.built = pluginCount.built
           /\ pluginCount'.drops = pluginCount.drops /\ pluginCount'.restarts = pluginCount.restarts
           /\ pluginCount'.ops = pluginCount.ops + 1
           /\ IsBool(overlapped') /\ (overlapped' = FALSE => overlapped = FALSE /\ Plugin!Idle)
  <1>1. OnlyMoves(s) /\ ops'[s] = q
    BY OpsMove DEF Plugin!Begins
  <1>2. ops[s].todo = <<>>
    BY DEF Plugin!Begins, Plugin!Busy
  <1>3. pluginCount \in PlugCounts /\ pluginCount.ops < MaxPluginOps /\ pluginCount' = [pluginCount EXCEPT !.ops = @ + 1]
    BY DEF Plugin!Begins, Plugin!Counts, PlugTyped
  <1>4. /\ pluginCount' \in PlugCounts /\ pluginCount'.built = pluginCount.built
        /\ pluginCount'.drops = pluginCount.drops /\ pluginCount'.restarts = pluginCount.restarts
        /\ pluginCount'.ops = pluginCount.ops + 1
    BY <1>3, HostAssumption DEF PlugCounts
  <1>5. IsBool(overlapped') /\ (overlapped' = FALSE => overlapped = FALSE /\ Plugin!Idle)
    <2>1. overlapped' = (overlapped \/ ~Plugin!Idle) /\ IsBool(overlapped)
      BY DEF Plugin!Begins, PlugTyped
    <2> QED
      BY <2>1, Zenon DEF IsBool
  <1> QED
    BY <1>1, <1>2, <1>4, <1>5

\* A request: what has to be shown of it.
LEMMA Requests ==
    ASSUME PlugInv, PlugTyped', NEW s \in Slots, NEW q \in PlugOps, Plugin!Begins(s, q), q.todo # <<>>,
           UNCHANGED <<pushes, applied, stale, syncErr, link, agent, syncs>>, unsaved = TRUE => unsaved' = TRUE,
           Plugin!Bundle' = Plugin!Bundle \/ HasPush(q.todo) \/ unsaved' = TRUE,
           Rest => AloneOK(ops[s])'
    PROVE  PlugInv'
  <1>1. PlugTyped /\ PlugCounted /\ PlugAges /\ PlugCurrent /\ PlugAlone
    BY DEF PlugInv
  <1>2. /\ OnlyMoves(s) /\ ops'[s] = q /\ ops[s].todo = <<>>
        /\ pluginCount' \in PlugCounts /\ pluginCount'.built = pluginCount.built
        /\ pluginCount'.drops = pluginCount.drops /\ pluginCount'.restarts = pluginCount.restarts
        /\ pluginCount'.ops = pluginCount.ops + 1
        /\ IsBool(overlapped') /\ (overlapped' = FALSE => overlapped = FALSE /\ Plugin!Idle)
    BY <1>1, BeginsIs
  <1>3. syncs \in Nat /\ syncs' \in Nat /\ pluginCount.ops \in Nat
    BY <1>1 DEF PlugTyped, PlugCounts
  <1>4. PlugCounted' /\ PlugAges'
    <2>1. PICK a, b : a = Cardinality(Pushing) /\ b = Cardinality(Pushing')
      OBVIOUS
    <2>2. a \in Nat /\ b \in Nat /\ b <= a + 1
      BY <1>1, <1>2, <2>1, PushingMoves
    <2>3. b + syncs' + pluginCount.ops <= a + syncs + pluginCount'.ops
      BY <1>2, <1>3, <2>2
    <2> QED
      BY <1>1, <1>2, <1>3, <2>1, <2>2, <2>3, CountedMoves
  <1>5. PlugCurrent'
    <2>1. ~HasPush(ops[s].todo)
      BY <1>2 DEF HasPush
    <2>2. (Pushing # {} => Pushing' # {}) /\ (HasPush(q.todo) => Pushing' # {})
      BY <1>1, <1>2, <2>1, PushingMoves
    <2>3. syncs' >= syncs
      BY <1>3
    <2> QED
      BY <1>1, <1>2, <1>3, <2>2, <2>3, CurrentMoves
  <1>6. PlugAlone'
    <2>1. overlapped' = FALSE => overlapped = FALSE /\ (\A t \in Slots : ~Plugin!Busy(t)) /\ Rest
      BY <1>1, <1>2 DEF PlugAlone, Plugin!Idle
    <2> QED
      BY <1>1, <1>2, <2>1, AloneMoves
  <1> QED
    BY <1>4, <1>5, <1>6 DEF PlugInv

\* The first steps of the three requests.
LEMMA FirstSteps ==
    /\ \A t \in {Inst1, Rem1, Set1, Unsaved1} : t \in Seq(Plugin!Steps) /\ t # <<>>
    /\ Head(Inst1) = "copy" /\ Head(Rem1) = "swap" /\ Head(Set1) = "close" /\ Head(Unsaved1) = "close"
    /\ Plugin!SetSteps(TRUE) = Set1 /\ Plugin!SetSteps(FALSE) = Unsaved1
    /\ HasPush(Set1) /\ HasResolve(Set1) /\ HasResolve(Unsaved1)
    /\ Inst1 \in TodoNone /\ Rem1 \in TodoNone /\ Set1 \in TodoOf /\ Unsaved1 \in TodoOf /\ <<>> \in TodoNone
  <1>1. Inst1 \in Seq(Plugin!Steps) /\ Inst1 # <<>> /\ Head(Inst1) = "copy"
    BY DEF Inst1, Plugin!Steps
  <1>2. Rem1 \in Seq(Plugin!Steps) /\ Rem1 # <<>> /\ Head(Rem1) = "swap"
    BY DEF Rem1, Plugin!Steps
  <1>3. Set1 \in Seq(Plugin!Steps) /\ Set1 # <<>> /\ Head(Set1) = "close"
    BY DEF Set1, Plugin!Steps
  <1>4. Unsaved1 \in Seq(Plugin!Steps) /\ Unsaved1 # <<>> /\ Head(Unsaved1) = "close"
    BY DEF Unsaved1, Plugin!Steps
  <1>5. Plugin!SetSteps(TRUE) = Set1
    BY DEF Plugin!SetSteps, Set1
  <1>6. Plugin!SetSteps(FALSE) = Unsaved1
    BY DEF Plugin!SetSteps, Unsaved1
  <1>7. HasPush(Set1) /\ HasResolve(Set1)
    <2>1. Len(Set1) = 4 /\ Set1[3] = "resolve" /\ Set1[4] = "push"
      BY DEF Set1
    <2>2. 3 \in 1..Len(Set1) /\ 4 \in 1..Len(Set1)
      BY <2>1
    <2> QED
      BY <2>1, <2>2 DEF HasPush, HasResolve
  <1>8. HasResolve(Unsaved1)
    <2>1. Len(Unsaved1) = 3 /\ Unsaved1[3] = "resolve"
      BY DEF Unsaved1
    <2>2. 3 \in 1..Len(Unsaved1)
      BY <2>1
    <2> QED
      BY <2>1, <2>2 DEF HasResolve
  <1>9. Inst1 \in TodoNone /\ Rem1 \in TodoNone /\ Set1 \in TodoOf /\ Unsaved1 \in TodoOf /\ <<>> \in TodoNone
    BY DEF TodoNone, TodoOf
  <1> QED
    BY <1>1, <1>2, <1>3, <1>4, <1>5, <1>6, <1>7, <1>8, <1>9, Zenon

\* Install and Remove only begin.
LEMMA PlugBegins == ASSUME PlugInv, NEW s \in Slots, Plugin!InstallFiles(s) \/ Plugin!Remove(s) PROVE PlugInv'
  <1> DEFINE inst == [todo |-> Inst1, obj |-> 0, stop |-> 0, again |-> TRUE, off |-> FALSE]
             rem == [todo |-> Rem1, obj |-> 0, stop |-> 0, again |-> FALSE, off |-> FALSE]
  <1>1. PlugTyped
    BY DEF PlugInv
  <1>2. UNCHANGED <<list, objs, rts, pluginDisk, raised, syncs, pushes, applied, stale, syncErr, link, agent, unsaved, tornOff>>
    BY DEF Plugin!InstallFiles, Plugin!Remove, Plugin!server
  <1>3. PICK q \in {inst, rem} : Plugin!Begins(s, q)
    <2>1. [Plugin!Free EXCEPT !.todo = Inst1, !.again = TRUE] = inst
      <3>1. \A x : [Plugin!Free EXCEPT !.todo = Inst1, !.again = x] = [todo |-> Inst1, obj |-> Plugin!Free.obj,
                       stop |-> Plugin!Free.stop, again |-> x, off |-> Plugin!Free.off]
        BY FreeIs, OpAgain, Zenon
      <3> QED
        BY <3>1, FreeIs, Zenon
    <2>2. [Plugin!Free EXCEPT !.todo = Rem1] = rem
      <3>1. \A p \in PlugOps : [p EXCEPT !.todo = Rem1]
                               = [todo |-> Rem1, obj |-> p.obj, stop |-> p.stop, again |-> p.again, off |-> p.off]
        BY DEF PlugOps
      <3> QED
        BY <3>1, FreeIs
    <2>3. \/ Plugin!Begins(s, [Plugin!Free EXCEPT !.todo = Inst1, !.again = TRUE])
          \/ Plugin!Begins(s, [Plugin!Free EXCEPT !.todo = Rem1])
      BY DEF Plugin!InstallFiles, Plugin!Remove, Inst1, Rem1
    <2> QED
      BY <2>1, <2>2, <2>3, Zenon
  <1>4. /\ q \in PlugOps /\ q.todo # <<>> /\ q.obj = 0 /\ q.stop = 0 /\ q.todo \in TodoNone
        /\ Head(q.todo) = "copy" \/ Head(q.todo) = "swap"
        /\ Head(q.todo) = "copy" => q.again = TRUE /\ q.off = FALSE
    <2>1. CASE q = inst
      <3>1. q.todo = Inst1 /\ q.obj = 0 /\ q.stop = 0 /\ q.again = TRUE /\ q.off = FALSE
        BY <2>1
      <3>2. q \in PlugOps
        BY <2>1, FirstSteps DEF PlugOps
      <3> QED
        BY <3>1, <3>2, FirstSteps
    <2>2. CASE q = rem
      <3>1. q.todo = Rem1 /\ q.obj = 0 /\ q.stop = 0
        BY <2>2
      <3>2. q \in PlugOps
        BY <2>2, FirstSteps DEF PlugOps
      <3> QED
        BY <3>1, <3>2, FirstSteps
    <2> QED
      BY <1>3, <2>1, <2>2
  <1>5. /\ OnlyMoves(s) /\ ops'[s] = q /\ pluginCount' \in PlugCounts /\ IsBool(overlapped')
    BY <1>1, <1>3, <1>4, BeginsIs
  <1>6. PlugTyped'
    <2>1. /\ objs' \in Seq(PlugObjs) /\ rts' \in Seq(PlugRuns) /\ Len(objs') >= Len(objs) /\ Len(rts') >= Len(rts)
          /\ list' \in 0..Len(objs') /\ Len(objs') \in Nat /\ Len(rts') \in Nat
          /\ \A o \in 1..Len(objs') : objs'[o].rt <= Len(rts')
          /\ pluginDisk' = Plugin!None \/ pluginDisk' \in [ver: Versions, st: Plugin!States]
          /\ IsBool(raised') /\ IsBool(unsaved') /\ syncs' \in Nat
      BY <1>1, <1>2 DEF PlugTyped
    <2>2. ops'[s].obj <= Len(objs') /\ ops'[s].stop <= Len(rts')
      BY <1>4, <1>5, <2>1
    <2> QED
      BY <1>1, <1>2, <1>4, <1>5, <2>1, <2>2, TypedMoves
  <1>7. /\ Plugin!On' <=> Plugin!On
        /\ OneRuns' <=> OneRuns
        /\ Plugin!Bundle' = Plugin!Bundle /\ PlugState' = PlugState
    BY <1>1, <1>2, WorldStays
  <1>8. ASSUME Rest PROVE AloneOK(ops[s])'
    <2>1. Before(ops[s])'
      BY <1>2, <1>4, <1>5, <1>7, <1>8 DEF Rest, Before, Kept, Open
    <2> QED
      BY <1>4, <1>5, <2>1, AloneNext
  <1> QED
    BY <1>2, <1>3, <1>4, <1>6, <1>7, <1>8, Requests

\* SetState: the object, its runtime and state.json change under one lock.
LEMMA PlugSetState ==
    ASSUME PlugInv, NEW s \in Slots, NEW st \in Plugin!States, NEW saves \in BOOLEAN, Plugin!SetState(s, st, saves)
    PROVE  PlugInv'
  <1> DEFINE old == objs[list]
             toggle == st.on # old.st.on
             restart == toggle \/ (st.cfg # old.st.cfg /\ st.on)
             q == [todo |-> Plugin!SetSteps(saves), obj |-> list, stop |-> IF restart THEN old.rt ELSE 0,
                   again |-> restart, off |-> toggle]
             x == [ver |-> old.ver, st |-> st, rt |-> IF restart THEN 0 ELSE old.rt]
  <1>1. PlugTyped
    BY DEF PlugInv
  <1>2. /\ list \in 1..Len(objs) /\ list # 0 /\ old \in PlugObjs /\ old.st \in Plugin!States /\ old.rt \in Nat /\ old.rt <= Len(rts)
        /\ Len(objs) \in Nat /\ Len(rts) \in Nat /\ objs \in Seq(PlugObjs) /\ old.ver \in Versions
    <2>1. list # 0
      BY DEF Plugin!SetState
    <2>2. list \in 1..Len(objs) /\ old \in PlugObjs /\ old.st \in Plugin!States
      BY <1>1, <2>1, OnIs
    <2> QED
      BY <1>1, <2>1, <2>2 DEF PlugTyped, PlugObjs
  <1>3. (st.on = TRUE \/ st.on = FALSE) /\ (old.st.on = TRUE \/ old.st.on = FALSE)
    <2>1. st.on \in BOOLEAN /\ old.st.on \in BOOLEAN
      BY <1>2 DEF Plugin!States
    <2> QED
      BY <2>1, Zenon
  <1>4. /\ Plugin!Begins(s, q)
        /\ objs' = [objs EXCEPT ![list] = [old EXCEPT !.st = st, !.rt = IF restart THEN 0 ELSE old.rt]]
        /\ pluginDisk' = (IF saves /\ pluginDisk # Plugin!None THEN [pluginDisk EXCEPT !.st = st] ELSE pluginDisk)
        /\ unsaved' = (unsaved \/ ~saves)
        /\ UNCHANGED <<list, rts, raised, syncs, pushes, applied, stale, syncErr, link, agent, tornOff>>
    BY DEF Plugin!SetState, Plugin!server
  <1>5. PICK again, off : /\ again \in BOOLEAN /\ off \in BOOLEAN /\ q.again = again /\ q.off = off
                          /\ again = TRUE <=> restart
                          /\ off = TRUE <=> toggle
    <2>1. q.again = restart /\ q.off = toggle
      BY Zenon
    <2>2. restart \in BOOLEAN /\ toggle \in BOOLEAN /\ (restart = TRUE <=> restart) /\ (toggle = TRUE <=> toggle)
      BY Zenon
    <2> QED
      BY <2>1, <2>2, Zenon
  <1>6. toggle <=> (st.on = TRUE /\ old.st.on = FALSE) \/ (st.on = FALSE /\ old.st.on = TRUE)
    BY <1>3
  <1>7. restart <=> toggle \/ (st.cfg # old.st.cfg /\ st.on = TRUE)
    BY <1>3, Zenon
  <1> HIDE DEF toggle, restart
  <1>8. /\ q.todo = Plugin!SetSteps(saves) /\ q.obj = list /\ q.stop = (IF restart THEN old.rt ELSE 0) /\ q.stop \in Nat
        /\ q.stop <= Len(rts)
        /\ q.todo \in {Set1, Unsaved1} /\ (saves = TRUE => q.todo = Set1)
    <2>1. saves = TRUE \/ saves = FALSE
      BY Zenon
    <2>2. q.todo = Plugin!SetSteps(saves) /\ q.obj = list /\ q.stop = (IF restart THEN old.rt ELSE 0)
      BY Zenon
    <2>3. q.todo \in {Set1, Unsaved1} /\ (saves = TRUE => q.todo = Set1)
      <3>1. saves = TRUE => Plugin!SetSteps(saves) = Set1
        BY FirstSteps
      <3>2. saves = FALSE => Plugin!SetSteps(saves) = Unsaved1
        BY FirstSteps
      <3> QED
        BY <2>1, <2>2, <3>1, <3>2
    <2> QED
      BY <1>2, <2>2, <2>3
  <1>9. q \in PlugOps /\ q.todo # <<>> /\ q.todo \in TodoOf /\ Head(q.todo) = "close" /\ HasResolve(q.todo)
    <2>1. q.todo \in Seq(Plugin!Steps) /\ q.todo # <<>> /\ q.todo \in TodoOf /\ Head(q.todo) = "close" /\ HasResolve(q.todo)
      BY <1>8, FirstSteps
    <2>2. PICK a, b, c : a = q.todo /\ b = q.obj /\ c = q.stop
      OBVIOUS
    <2>3. q = [todo |-> a, obj |-> b, stop |-> c, again |-> again, off |-> off]
      BY <1>5, <2>2, Zenon
    <2>4. a \in Seq(Plugin!Steps) /\ b \in Nat /\ c \in Nat
      BY <1>2, <1>8, <2>1, <2>2
    <2> HIDE DEF q
    <2>5. q \in PlugOps
      BY <1>5, <2>3, <2>4 DEF PlugOps
    <2> QED
      BY <2>1, <2>5
  <1> HIDE DEF q
  <1>10. /\ objs' \in Seq(PlugObjs) /\ Len(objs') = Len(objs)
         /\ \A o \in 1..Len(objs) : objs'[o] = IF o = list THEN x ELSE objs[o]
         /\ x \in PlugObjs
    <2>1. PICK n : n = IF restart THEN 0 ELSE old.rt
      OBVIOUS
    <2>2. PICK y : y = [old EXCEPT !.st = st]
      OBVIOUS
    <2>3. y = [ver |-> old.ver, st |-> st, rt |-> old.rt]
      BY <1>2, <2>2 DEF PlugObjs
    <2>4. y \in PlugObjs
      BY <1>2, <2>3 DEF PlugObjs
    <2>5. [y EXCEPT !.rt = n] = [ver |-> y.ver, st |-> y.st, rt |-> n]
      BY <2>4 DEF PlugObjs
    <2>6. [old EXCEPT !.st = st, !.rt = n] = [y EXCEPT !.rt = n]
      BY <2>2
    <2>7. y.ver = old.ver /\ y.st = st
      BY <2>3
    <2>8. [old EXCEPT !.st = st, !.rt = n] = x
      BY <2>1, <2>5, <2>6, <2>7
    <2>9. x \in PlugObjs
      BY <1>2, <2>1 DEF PlugObjs
    <2>10. objs' = [objs EXCEPT ![list] = x]
      BY <1>4, <2>1, <2>8, Zenon
    <2> QED
      BY <1>2, <2>9, <2>10, ExceptSeq
  <1>11. objs'[list] = x /\ x.ver = old.ver /\ x.st = st /\ x.rt = (IF restart THEN 0 ELSE old.rt)
    BY <1>2, <1>10
  <1>12. /\ IsBool(unsaved') /\ (unsaved = TRUE => unsaved' = TRUE) /\ (saves = FALSE => unsaved' = TRUE)
         /\ unsaved' = FALSE => unsaved = FALSE /\ saves = TRUE
    <2>1. IsBool(unsaved) /\ (saves = TRUE \/ saves = FALSE)
      BY <1>1, Zenon DEF PlugTyped
    <2> QED
      BY <1>4, <2>1, Zenon DEF IsBool
  <1>13. /\ pluginDisk' = Plugin!None \/ pluginDisk' \in [ver: Versions, st: Plugin!States]
         /\ saves = TRUE /\ pluginDisk # Plugin!None => pluginDisk' = [ver |-> pluginDisk.ver, st |-> st]
    <2>1. pluginDisk = Plugin!None \/ pluginDisk \in [ver: Versions, st: Plugin!States]
      BY <1>1 DEF PlugTyped
    <2>2. pluginDisk \in [ver: Versions, st: Plugin!States] => [pluginDisk EXCEPT !.st = st] = [ver |-> pluginDisk.ver, st |-> st]
      OBVIOUS
    <2>3. pluginDisk \in [ver: Versions, st: Plugin!States] => [ver |-> pluginDisk.ver, st |-> st] \in [ver: Versions, st: Plugin!States]
      OBVIOUS
    <2>4. pluginDisk' = pluginDisk \/ (pluginDisk # Plugin!None /\ pluginDisk' = [pluginDisk EXCEPT !.st = st])
      BY <1>4, Zenon
    <2>5. saves = TRUE /\ pluginDisk # Plugin!None => pluginDisk' = [pluginDisk EXCEPT !.st = st]
      BY <1>4, Zenon
    <2> QED
      BY <2>1, <2>2, <2>3, <2>4, <2>5, Zenon
  <1>14. /\ OnlyMoves(s) /\ ops'[s] = q /\ pluginCount' \in PlugCounts /\ IsBool(overlapped')
    BY <1>1, <1>4, <1>9, BeginsIs
  <1>15. PlugTyped'
    <2>1. rts' \in Seq(PlugRuns) /\ Len(objs') >= Len(objs) /\ Len(rts') >= Len(rts) /\ list' \in 0..Len(objs')
      BY <1>1, <1>2, <1>4, <1>10 DEF PlugTyped
    <2>2. \A o \in 1..Len(objs') : objs'[o].rt <= Len(rts')
      BY <1>1, <1>2, <1>4, <1>10, <1>11 DEF PlugTyped
    <2>3. IsBool(raised') /\ syncs' \in Nat
      BY <1>1, <1>4 DEF PlugTyped
    <2>4. ops'[s].obj <= Len(objs') /\ ops'[s].stop <= Len(rts') /\ ops'[s].todo \in (IF ops'[s].obj = 0 THEN TodoNone ELSE TodoOf)
      BY <1>2, <1>4, <1>8, <1>9, <1>10, <1>14
    <2> QED
      BY <1>1, <1>4, <1>10, <1>12, <1>13, <1>14, <2>1, <2>2, <2>3, <2>4, TypedMoves
  <1>16. HasPush(q.todo) \/ unsaved' = TRUE
    <2>1. saves = TRUE \/ saves = FALSE
      BY Zenon
    <2> QED
      BY <1>8, <1>12, <2>1, FirstSteps
  <1>17. ASSUME Rest PROVE AloneOK(ops[s])'
    <2>1. Plugin!On <=> old.st.on = TRUE
      BY <1>1, <1>2, OnIs
    <2>2. Plugin!On' <=> st.on = TRUE
      <3>1. objs'[list'].st.on = st.on /\ list' # 0
        BY <1>2, <1>4, <1>11
      <3> QED
        BY <1>3, <3>1, Zenon DEF Plugin!On
    <2>3. Plugin!Live' = Plugin!Live
      BY <1>4 DEF Plugin!Live
    <2>4. Plugin!On => Plugin!On' \/ toggle
      BY <1>3, <1>6, <2>1, <2>2
    <2>5. Kept'
      <3>1. SUFFICES ASSUME unsaved' = FALSE PROVE pluginDisk' = PlugState'
        BY DEF Kept
      <3>2. unsaved = FALSE /\ saves = TRUE
        BY <1>12, <3>1
      <3>3. pluginDisk = [ver |-> old.ver, st |-> old.st]
        BY <1>2, <1>17, <3>2 DEF Rest, Kept, PlugState
      <3>4. pluginDisk \in [ver: Versions, st: Plugin!States] /\ pluginDisk.ver = old.ver
        BY <1>2, <3>3
      <3>5. pluginDisk' = [ver |-> old.ver, st |-> st]
        BY <1>13, <3>2, <3>4, NoneIsNone
      <3> QED
        BY <1>2, <1>4, <1>11, <3>5 DEF PlugState
    <2>6. OneRuns /\ (Open => Plugin!On) /\ (Open' <=> Open)
      BY <1>4, <1>17 DEF Rest, Open
    <2>7. restart => objs'[list'].rt = 0 /\ Plugin!Live \subseteq {q.stop} /\ (Plugin!Live # {} => Plugin!On' \/ toggle)
      BY <1>4, <1>8, <1>11, <2>4, <2>6 DEF OneRuns
    <2>8. ~restart => q.stop = 0 /\ OneRuns'
      <3>1. SUFFICES ASSUME ~restart PROVE q.stop = 0 /\ OneRuns'
        OBVIOUS
      <3>2. (Plugin!On' <=> Plugin!On) /\ (Plugin!On => st.cfg = old.st.cfg) /\ objs'[list'].rt = old.rt /\ objs'[list'].st.cfg = st.cfg
        BY <1>3, <1>4, <1>6, <1>7, <1>11, <2>1, <2>2, <3>1
      <3> QED
        BY <1>4, <1>8, <2>3, <2>6, <3>1, <3>2 DEF OneRuns
    <2>9. list' = q.obj /\ (Open' => Plugin!On' \/ q.off = TRUE) /\ (q.off = TRUE => HasResolve(q.todo))
      BY <1>4, <1>5, <1>8, <1>9, <2>4, <2>6
    <2>10. IF q.again = TRUE
           THEN objs'[list'].rt = 0 /\ Plugin!Live' \subseteq {q.stop} /\ (Plugin!Live' # {} => Plugin!On' \/ q.off = TRUE)
           ELSE q.stop = 0 /\ OneRuns'
      BY <1>5, <2>3, <2>7, <2>8
    <2>11. Closing(ops[s])'
      BY <1>14, <2>5, <2>9, <2>10 DEF Closing
    <2> QED
      BY <1>2, <1>8, <1>9, <1>14, <2>11, AloneNext
  <1> QED
    BY <1>4, <1>9, <1>12, <1>15, <1>16, <1>17, Requests

-----------------------------------------------------------------------------
(* Steps that are no request's.                                            *)

\* Requests stay where they are when runtimes can only end and only a live one
\* raises an alert.
LEMMA AloneStays ==
    ASSUME PlugTyped, PlugAlone, UNCHANGED <<list, objs, pluginDisk, ops, overlapped, unsaved, tornOff>>,
           Plugin!Live' \subseteq Plugin!Live, \A r \in 1..Len(rts) : rts'[r].cfg = rts[r].cfg,
           IsBool(raised'), raised' = TRUE => raised = TRUE \/ Plugin!Live # {}
    PROVE  PlugAlone'
  <1>1. (Plugin!On' <=> Plugin!On) /\ PlugState' = PlugState /\ Plugin!KeptState' = Plugin!KeptState
    <2>1. Plugin!KeptState' = Plugin!KeptState
      BY DEF Plugin!KeptState
    <2> QED
      BY <2>1, PluginStays
  <1>2. /\ OneRuns => OneRuns' /\ (Plugin!Live # {} => Plugin!On)
        /\ Kept => Kept'
        /\ Open' => Open \/ Plugin!Live # {}
        /\ DiskOn => DiskOn'
    <2>1. OneRuns => OneRuns' /\ (Plugin!Live # {} => Plugin!On)
      <3>1. Plugin!On => objs[list].rt \in 0..Len(rts)
        <4>1. Plugin!On => list \in 1..Len(objs) /\ objs[list] \in PlugObjs
          BY OnIs
        <4>2. Plugin!On => objs[list].rt \in Nat /\ objs[list].rt <= Len(rts) /\ Len(rts) \in Nat
          BY <4>1 DEF PlugTyped, PlugObjs
        <4> QED
          BY <4>2
      <3>2. Plugin!On /\ objs[list].rt # 0 => rts'[objs[list].rt].cfg = rts[objs[list].rt].cfg
        <4>1. \A k \in 0..Len(rts) : k # 0 => k \in 1..Len(rts)
          OBVIOUS
        <4> QED
          BY <3>1, <4>1
      <3> QED
        BY <1>1, <3>2 DEF OneRuns
    <2>2. (Kept => Kept') /\ (DiskOn => DiskOn')
      BY <1>1 DEF Kept, DiskOn
    <2>3. Open' => Open \/ Plugin!Live # {}
      BY DEF Open
    <2> QED
      BY <2>1, <2>2, <2>3
  <1>3. ASSUME NEW s \in Slots, Plugin!Busy(s), AloneOK(ops[s]) PROVE AloneOK(ops[s])'
    <2>1. ops[s].todo # <<>> /\ ops'[s] = ops[s]
      BY <1>3 DEF Plugin!Busy
    <2>2. Before(ops[s]) => Before(ops[s])'
      BY <1>1, <1>2, <2>1 DEF Before
    <2>3. Closing(ops[s]) => Closing(ops[s])'
      BY <1>1, <1>2, <2>1 DEF Closing
    <2>4. Starting(ops[s]) => Starting(ops[s])'
      BY <1>1, <1>2, <2>1 DEF Starting
    <2>5. Resolving(ops[s]) => Resolving(ops[s])'
      BY <1>1, <1>2, <2>1 DEF Resolving
    <2>6. Pushes(ops[s]) => Pushes(ops[s])'
      BY <1>1, <1>2, <2>1 DEF Pushes
    <2>7. Removing(ops[s]) => Removing(ops[s])'
      <3>1. SUFFICES ASSUME Removing(ops[s]) PROVE Removing(ops[s])'
        OBVIOUS
      <3>2. IF Head(ops'[s].todo) = "close" THEN Plugin!Live' \subseteq {ops'[s].stop} ELSE Plugin!Live' = {}
        BY <2>1, <3>1 DEF Removing
      <3>3. unsaved' = FALSE /\ (Open' \/ Plugin!Live' # {}) => DiskOn'
        BY <1>2, <3>1 DEF Removing
      <3>4. Head(ops'[s].todo) = "delete" => raised' = FALSE
        BY <2>1, <3>1 DEF Removing, IsBool
      <3> QED
        BY <3>1, <3>2, <3>3, <3>4 DEF Removing
    <2>8. \A h : StandsAt(ops[s], h)' <=> StandsAt(ops[s], h)
      BY <2>1 DEF StandsAt
    <2> QED
      BY <1>3, <2>1, <2>2, <2>3, <2>4, <2>5, <2>6, <2>7, <2>8, Zenon DEF AloneOK
  <1>4. Rest => Rest'
    BY <1>1, <1>2 DEF Rest
  <1>5. (\A s \in Slots : Plugin!Busy(s)' <=> Plugin!Busy(s)) /\ (Plugin!Idle' <=> Plugin!Idle)
    BY DEF Plugin!Busy, Plugin!Idle
  <1> QED
    BY <1>3, <1>4, <1>5 DEF PlugAlone

\* A call of a runtime begins or ends.
LEMMA CallIs ==
    ASSUME PlugTyped, NEW r \in DOMAIN rts, rts[r].run # "closed",
           NEW x \in {"run", "call", "closed"}, rts' = [rts EXCEPT ![r].run = x]
    PROVE  /\ rts' \in Seq(PlugRuns) /\ Len(rts') = Len(rts)
           /\ Plugin!Live' \subseteq Plugin!Live /\ r \in Plugin!Live
           /\ \A k \in 1..Len(rts) : rts'[k].cfg = rts[k].cfg
           /\ \A k : k \notin 1..Len(rts) => k \notin Plugin!Live
  <1>1. rts \in Seq(PlugRuns) /\ r \in 1..Len(rts) /\ rts[r] \in PlugRuns /\ DOMAIN rts = 1..Len(rts)
    BY DEF PlugTyped
  <1>2. PICK y : y = [rts[r] EXCEPT !.run = x]
    OBVIOUS
  <1>3. y = [run |-> x, cfg |-> rts[r].cfg] /\ y \in PlugRuns
    BY <1>1, <1>2 DEF PlugRuns
  <1>4. rts' = [rts EXCEPT ![r] = y]
    BY <1>1, <1>2
  <1>5. rts' \in Seq(PlugRuns) /\ Len(rts') = Len(rts) /\ \A k \in 1..Len(rts) : rts'[k] = IF k = r THEN y ELSE rts[k]
    <2>1. PICK q : q = [rts EXCEPT ![r] = y]
      OBVIOUS
    <2>2. q \in Seq(PlugRuns) /\ Len(q) = Len(rts) /\ \A k \in 1..Len(rts) : q[k] = IF k = r THEN y ELSE rts[k]
      BY ONLY <1>1, <1>3, <2>1, ExceptSeq
    <2> QED
      BY <1>4, <2>1, <2>2
  <1>6. DOMAIN rts' = 1..Len(rts)
    BY <1>5
  <1>7. r \in Plugin!Live /\ Plugin!Live' \subseteq Plugin!Live /\ \A k : k \notin 1..Len(rts) => k \notin Plugin!Live
    BY <1>1, <1>5, <1>6 DEF Plugin!Live
  <1> QED
    BY <1>3, <1>5, <1>7

\* A task, a handler or the chunk runs.
LEMMA PlugCalls == ASSUME PlugInv, NEW r \in DOMAIN rts, Plugin!CallBegins(r) \/ Plugin!CallEnds(r) PROVE PlugInv'
  <1>1. PlugTyped /\ PlugCounted /\ PlugAges /\ PlugCurrent /\ PlugAlone
    BY DEF PlugInv
  <1>2. /\ UNCHANGED <<list, objs, pluginDisk, ops, syncs, pushes, applied, stale, syncErr, link, agent,
                       overlapped, unsaved, tornOff>>
        /\ rts[r].run # "closed"
        /\ \E x \in {"run", "call", "closed"} : rts' = [rts EXCEPT ![r].run = x]
        /\ raised' = raised \/ raised' \in BOOLEAN
    BY DEF Plugin!CallBegins, Plugin!CallEnds, Plugin!server, Plugin!history
  <1>3. /\ rts' \in Seq(PlugRuns) /\ Len(rts') = Len(rts)
        /\ Plugin!Live' \subseteq Plugin!Live /\ r \in Plugin!Live
        /\ \A k \in 1..Len(rts) : rts'[k].cfg = rts[k].cfg
        /\ \A k : k \notin 1..Len(rts) => k \notin Plugin!Live
    BY <1>1, <1>2, CallIs
  <1>4. /\ pluginCount' \in PlugCounts /\ pluginCount'.built = pluginCount.built
        /\ pluginCount'.drops = pluginCount.drops /\ pluginCount'.restarts = pluginCount.restarts
        /\ pluginCount'.ops = pluginCount.ops
    <2>1. pluginCount \in PlugCounts /\ (pluginCount' = pluginCount \/ pluginCount' = [pluginCount EXCEPT !.calls = @ + 1])
      BY <1>1 DEF Plugin!CallBegins, Plugin!CallEnds, Plugin!Counts, PlugTyped
    <2> QED
      BY <2>1 DEF PlugCounts
  <1>5. IsBool(raised')
    <2>1. IsBool(raised)
      BY <1>1 DEF PlugTyped
    <2> QED
      BY <1>2, <2>1, Zenon DEF IsBool
  <1>6. PlugTyped'
    <2>1. PlugFlow'
      BY <1>1, <1>2 DEF PlugTyped, PlugFlow
    <2> QED
      BY <1>1, <1>2, <1>3, <1>4, <1>5, <2>1 DEF PlugTyped
  <1>7. Pushing' = Pushing
    BY <1>2 DEF Pushing
  <1>8. PlugCounted'
    BY <1>1, <1>2, <1>4, <1>7 DEF PlugCounted
  <1>9. PlugAges'
    BY <1>1, <1>2, <1>4 DEF PlugAges
  <1>10. PlugCurrent'
    <2>1. Plugin!Bundle' = Plugin!Bundle
      BY <1>1, <1>2, PluginStays
    <2> QED
      BY <1>1, <1>2, <1>4, <1>7, <2>1 DEF PlugCurrent, Newest
  <1>11. PlugAlone'
    BY <1>1, <1>2, <1>3, <1>5, AloneStays
  <1> QED
    BY <1>6, <1>8, <1>9, <1>10, <1>11 DEF PlugInv

\* The server's steps leave the requests, the plugin and its runtimes.
LEMMA ServerSteps ==
    ASSUME PlugInv, UNCHANGED <<list, objs, rts, pluginDisk, ops, raised, overlapped, unsaved, tornOff>>,
           IsBool(stale'), IsBool(syncErr'), link' \in {"up", "lost"}, syncs' \in Nat, applied' \in Nat,
           pushes' \in Seq(PlugPushes), pluginCount' \in PlugCounts
    PROVE  PlugTyped' /\ PlugAlone' /\ Plugin!Bundle' = Plugin!Bundle /\ Pushing' = Pushing /\ Cardinality(Pushing) \in Nat
  <1>1. PlugTyped /\ PlugAlone
    BY DEF PlugInv
  <1>2. PlugFlow'
    BY <1>1 DEF PlugTyped, PlugFlow
  <1>3. PlugTyped'
    BY <1>1, <1>2 DEF PlugTyped
  <1>4. Plugin!Live' = Plugin!Live /\ IsBool(raised')
    BY <1>1 DEF Plugin!Live, PlugTyped
  <1>5. PlugAlone'
    BY <1>1, <1>4, AloneStays
  <1>6. Plugin!Bundle' = Plugin!Bundle
    BY <1>1, PluginStays
  <1>7. Pushing' = Pushing /\ Pushing \subseteq Slots
    BY DEF Pushing
  <1>8. Cardinality(Pushing) \in Nat
    BY <1>7, HostAssumption, FS_Subset, FS_CardinalityType
  <1> QED
    BY <1>3, <1>5, <1>6, <1>7, <1>8

\* What the panel wants of the server is a bundle or none.
LEMMA BundleIs == PlugTyped => Plugin!Bundle \in {Plugin!None} \cup [ver: Versions, cfg: {0, 1}]
  <1> SUFFICES ASSUME PlugTyped PROVE Plugin!Bundle \in {Plugin!None} \cup [ver: Versions, cfg: {0, 1}]
    OBVIOUS
  <1>1. Plugin!On => [ver |-> objs[list].ver, cfg |-> objs[list].st.cfg] \in [ver: Versions, cfg: {0, 1}]
    BY OnIs DEF PlugObjs, Plugin!States
  <1>2. Plugin!Bundle = Plugin!None \/ (Plugin!On /\ Plugin!Bundle = [ver |-> objs[list].ver, cfg |-> objs[list].st.cfg])
    BY Zenon DEF Plugin!Bundle
  <1> QED
    BY <1>1, <1>2

\* SyncAgent builds a list of what is wanted now.
LEMMA PlugSyncAgent == PlugInv /\ Plugin!SyncAgent => PlugInv'
  <1> SUFFICES ASSUME PlugInv, Plugin!SyncAgent PROVE PlugInv'
    OBVIOUS
  <1>1. PlugTyped /\ PlugCounted /\ PlugAges /\ PlugCurrent
    BY DEF PlugInv
  <1>2. /\ UNCHANGED <<list, objs, rts, pluginDisk, ops, raised, overlapped, unsaved, tornOff>>
        /\ UNCHANGED <<applied, stale, syncErr, link, agent>>
        /\ syncs > 0 /\ syncs' = syncs - 1
    BY DEF Plugin!SyncAgent, Plugin!history
  <1>3. /\ syncs \in Nat /\ syncs' \in Nat /\ IsBool(stale') /\ IsBool(syncErr') /\ link' \in {"up", "lost"} /\ applied' \in Nat
        /\ pushes \in Seq(PlugPushes) /\ pluginCount \in PlugCounts /\ Len(pushes) \in Nat
        /\ pluginCount.ops \in Nat /\ pluginCount.built \in Nat /\ pluginCount.drops \in Nat /\ pluginCount.restarts \in Nat
    BY <1>1, <1>2 DEF PlugTyped, PlugCounts
  <1>4. CASE link = "lost"
    <2>1. UNCHANGED <<pushes, pluginCount>>
      BY <1>4 DEF Plugin!SyncAgent
    <2>2. PlugTyped' /\ PlugAlone' /\ Pushing' = Pushing /\ Cardinality(Pushing) \in Nat
      BY <1>2, <1>3, <2>1, ServerSteps
    <2>3. PlugCounted' /\ PlugAges'
      <3>1. Cardinality(Pushing') + syncs' + pluginCount.ops <= Cardinality(Pushing) + syncs + pluginCount'.ops
        BY <1>2, <1>3, <2>1, <2>2
      <3> QED
        BY <1>1, <1>2, <1>3, <2>1, <2>2, <3>1, CountedMoves
    <2>4. PlugCurrent'
      BY <1>2, <1>4 DEF PlugCurrent
    <2> QED
      BY <2>2, <2>3, <2>4 DEF PlugInv
  <1>5. CASE link # "lost"
    <2>1. PICK n, e : n = pluginCount.built + 1 /\ e = [n |-> n, want |-> Plugin!Bundle]
      OBVIOUS
    <2>2. pushes' = Append(pushes, e) /\ pluginCount' = [pluginCount EXCEPT !.built = @ + 1]
      BY <1>5, <2>1 DEF Plugin!SyncAgent, Plugin!Counts
    <2>3. e \in PlugPushes /\ e.n = n /\ e.want = Plugin!Bundle
      BY <1>1, <1>3, <2>1, BundleIs DEF PlugPushes
    <2>4. /\ pushes' \in Seq(PlugPushes) /\ Len(pushes') = Len(pushes) + 1
          /\ \A i \in 1..Len(pushes) : pushes'[i] = pushes[i]
          /\ pushes'[Len(pushes) + 1] = e
      BY <1>3, <2>2, <2>3, AppendProperties
    <2>5. /\ pluginCount' \in PlugCounts /\ pluginCount'.built = n /\ pluginCount'.ops = pluginCount.ops
          /\ pluginCount'.drops = pluginCount.drops /\ pluginCount'.restarts = pluginCount.restarts
      <3>1. pluginCount' = [pluginCount EXCEPT !.built = n]
        BY <2>1, <2>2
      <3>2. n \in Nat
        BY <1>3, <2>1
      <3> QED
        BY <1>3, <3>1, <3>2 DEF PlugCounts
    <2>6. PlugTyped' /\ PlugAlone' /\ Plugin!Bundle' = Plugin!Bundle /\ Pushing' = Pushing /\ Cardinality(Pushing) \in Nat
      BY <1>2, <1>3, <2>4, <2>5, ServerSteps
    <2>7. PlugCounted'
      <3>1. PICK a : a = Cardinality(Pushing) /\ a \in Nat
        BY <2>6
      <3>2. a + syncs + 0 + pluginCount.built <= pluginCount.ops + pluginCount.drops + pluginCount.restarts
        BY <1>1, <1>5, <3>1 DEF PlugCounted
      <3>3. a + syncs' + 0 + n <= pluginCount.ops + pluginCount.drops + pluginCount.restarts
        BY <1>2, <1>3, <2>1, <3>1, <3>2
      <3>4. Len(pushes') <= n
        BY <1>1, <1>3, <2>1, <2>4 DEF PlugCounted
      <3> QED
        BY <1>2, <1>5, <2>5, <2>6, <3>1, <3>3, <3>4 DEF PlugCounted
    <2>8. PlugAges'
      <3>1. \A i \in 1..Len(pushes') : i \in 1..Len(pushes) \/ i = Len(pushes) + 1
        BY <1>3, <2>4
      <3>2. \A i \in 1..Len(pushes) : pushes[i].n \in Nat /\ pushes[i].n <= pluginCount.built
        <4>1. \A i \in 1..Len(pushes) : pushes[i] \in PlugPushes
          BY <1>3
        <4> QED
          BY <1>1, <4>1 DEF PlugAges, PlugPushes
      <3>3. applied \in Nat /\ applied <= pluginCount.built
        BY <1>1, <1>2, <1>3 DEF PlugAges
      <3>4. \A i \in 1..Len(pushes') : pushes'[i].n <= n /\ pushes'[i].n # applied
        BY <1>1, <1>3, <2>1, <2>3, <2>4, <3>1, <3>2, <3>3 DEF PlugAges
      <3>5. \A i, j \in 1..Len(pushes') : pushes'[i].n = pushes'[j].n => i = j
        <4>1. \A i \in 1..Len(pushes) : pushes'[i].n # n
          BY <1>3, <2>1, <2>4, <3>2
        <4>2. \A i, j \in 1..Len(pushes) : pushes'[i].n = pushes'[j].n => i = j
          BY <1>1, <2>4 DEF PlugAges
        <4>3. pushes'[Len(pushes) + 1].n = n
          BY <2>3, <2>4
        <4> QED
          BY <3>1, <4>1, <4>2, <4>3
      <3> QED
        BY <1>2, <1>3, <2>1, <2>5, <3>3, <3>4, <3>5 DEF PlugAges
    <2>9. Newest'
      <3>1. Len(pushes) + 1 \in 1..Len(pushes')
        BY <1>3, <2>4
      <3> QED
        BY <2>3, <2>4, <2>5, <2>6, <3>1 DEF Newest
    <2> QED
      BY <2>6, <2>7, <2>8, <2>9 DEF PlugInv, PlugCurrent
  <1> QED
    BY <1>4, <1>5

\* The lists without the one that was applied.
Without(rs, n) == SubSeq(rs, 1, n - 1) \o SubSeq(rs, n + 1, Len(rs))

\* One list less on the way, the others in their order.
LEMMA ListGone ==
    ASSUME NEW S, NEW rs \in Seq(S), NEW n \in 1..Len(rs)
    PROVE  /\ Without(rs, n) \in Seq(S) /\ Len(Without(rs, n)) = Len(rs) - 1
           /\ \A j \in 1..Len(Without(rs, n)) : Without(rs, n)[j] = rs[IF j < n THEN j ELSE j + 1]
  <1>0. PICK r : r = SubSeq(rs, 1, n - 1) \o SubSeq(rs, n + 1, Len(rs)) /\ r = Without(rs, n)
    BY DEF Without
  <1>1. PICK l \in Nat : l = Len(rs)
    OBVIOUS
  <1>s. SubSeq(rs, n + 1, Len(rs)) = SubSeq(rs, n + 1, l)
    BY <1>1
  <1>d. DOMAIN rs = 1..l /\ n \in 1..l /\ \A j \in 1..l : rs[j] \in S
    BY <1>1
  <1>i. PICK i \in Nat : i = n - 1
    BY <1>d
  <1>2. PICK u : u = SubSeq(rs, 1, i)
    OBVIOUS
  <1>3. PICK v : v = SubSeq(rs, n + 1, l)
    OBVIOUS
  <1>4. u \in Seq(S) /\ Len(u) = i /\ \A j \in 1..i : u[j] = rs[j]
    <2>1. 1 \in Int /\ i \in Int /\ \A j \in 1..i : rs[j] \in S
      BY <1>d, <1>i
    <2>2. /\ SubSeq(rs, 1, i) \in Seq(S) /\ Len(SubSeq(rs, 1, i)) = IF 1 <= i THEN i - 1 + 1 ELSE 0
          /\ \A j \in 1..(i - 1 + 1) : SubSeq(rs, 1, i)[j] = rs[1 + j - 1]
      BY <2>1, SubSeqProperties
    <2>3. (i - 1) + 1 = i /\ \A j \in 1..i : 1 + j - 1 = j
      OBVIOUS
    <2>4. (IF 1 <= i THEN i - 1 + 1 ELSE 0) = i
      OBVIOUS
    <2> QED
      BY <1>2, <2>2, <2>3, <2>4
  <1>5. v \in Seq(S) /\ Len(v) = l - n /\ \A j \in 1..(l - n) : v[j] = rs[n + j]
    <2>1. n + 1 \in Int /\ l \in Int /\ \A j \in (n + 1)..l : rs[j] \in S
      BY <1>d
    <2>2. /\ SubSeq(rs, n + 1, l) \in Seq(S)
          /\ Len(SubSeq(rs, n + 1, l)) = IF n + 1 <= l THEN l - (n + 1) + 1 ELSE 0
          /\ \A j \in 1..(l - (n + 1) + 1) : SubSeq(rs, n + 1, l)[j] = rs[(n + 1) + j - 1]
      BY <2>1, SubSeqProperties
    <2>3. l - (n + 1) + 1 = l - n /\ \A j \in 1..(l - n) : (n + 1) + j - 1 = n + j
      BY <1>d
    <2>4. (IF n + 1 <= l THEN l - (n + 1) + 1 ELSE 0) = l - n
      BY <1>d
    <2> QED
      BY <1>3, <2>2, <2>3, <2>4
  <1>6. /\ r \in Seq(S) /\ Len(r) = Len(u) + Len(v)
        /\ \A j \in 1..(Len(u) + Len(v)) : r[j] = IF j <= Len(u) THEN u[j] ELSE v[j - Len(u)]
    <2>1. r = u \o v
      BY <1>0, <1>s, <1>i, <1>2, <1>3
    <2>2. /\ u \o v \in Seq(S) /\ Len(u \o v) = Len(u) + Len(v)
          /\ \A j \in 1..(Len(u) + Len(v)) : (u \o v)[j] = IF j <= Len(u) THEN u[j] ELSE v[j - Len(u)]
      <3>1. u \in Seq(S) /\ v \in Seq(S)
        BY <1>4, <1>5
      <3> QED
        BY ONLY <3>1, ConcatProperties
    <2> QED
      BY ONLY <2>1, <2>2
  <1>k. PICK k \in Nat : k = l - n
    BY <1>d
  <1>m. Len(u) = i /\ Len(v) = k
    BY <1>4, <1>5, <1>k
  <1>w. Len(r) = i + k /\ \A j \in 1..(i + k) : r[j] = IF j <= i THEN u[j] ELSE v[j - i]
    BY ONLY <1>6, <1>m
  <1>x. i + k = l - 1 /\ n = i + 1
    BY <1>d, <1>i, <1>k
  <1>7. Len(r) = l - 1
    BY <1>w, <1>x
  <1>8. ASSUME NEW j \in 1..Len(r) PROVE r[j] = rs[IF j < n THEN j ELSE j + 1]
    <2>0. j \in 1..(i + k)
      BY <1>w
    <2>1. CASE j < n
      <3>1. j \in 1..i /\ j <= i
        BY <2>0, <1>x, <2>1
      <3>2. r[j] = u[j]
        BY <1>w, <2>0, <3>1
      <3> QED
        BY <1>4, <2>1, <3>1, <3>2
    <2>2. CASE ~(j < n)
      <3>1. ~(j <= i) /\ j - i \in 1..k /\ n + (j - i) = j + 1
        BY ONLY <2>0, <1>x, <2>2, i \in Nat, k \in Nat, n \in Nat
      <3>2. r[j] = v[j - i]
        BY <1>w, <2>0, <3>1
      <3>3. v[j - i] = rs[n + (j - i)]
        BY <1>5, <1>k, <3>1
      <3> QED
        BY <2>2, <3>1, <3>2, <3>3
    <2> QED
      BY <2>1, <2>2
  <1> QED
    BY <1>0, <1>1, <1>6, <1>7, <1>8

\* PluginHost.Sync takes one list, the newest or an older one.
LEMMA PlugSync == ASSUME PlugInv, NEW n \in DOMAIN pushes, Plugin!Sync(n) PROVE PlugInv'
  <1>1. PlugTyped /\ PlugCounted /\ PlugAges /\ PlugCurrent
    BY DEF PlugInv
  <1>2. /\ UNCHANGED <<list, objs, rts, pluginDisk, ops, raised, overlapped, unsaved, tornOff>>
        /\ UNCHANGED <<syncs, link, pluginCount>> /\ link = "up"
    BY DEF Plugin!Sync, Plugin!history
  <1>3. /\ pushes \in Seq(PlugPushes) /\ Len(pushes) \in Nat /\ n \in 1..Len(pushes)
        /\ applied \in Nat /\ syncs' \in Nat /\ link' \in {"up", "lost"} /\ pluginCount' \in PlugCounts
        /\ pluginCount.built \in Nat
    BY <1>1, <1>2 DEF PlugTyped, PlugCounts
  <1>4. \A i \in 1..Len(pushes) : pushes[i].n \in Nat /\ pushes[i].n <= pluginCount.built /\ pushes[i].n # applied
    <2>1. \A i \in 1..Len(pushes) : pushes[i] \in PlugPushes
      BY <1>3
    <2> QED
      BY <1>1, <2>1 DEF PlugAges, PlugPushes
  <1> DEFINE at(j) == IF j < n THEN j ELSE j + 1
  <1>5. /\ pushes' \in Seq(PlugPushes) /\ Len(pushes') = Len(pushes) - 1
        /\ \A j \in 1..Len(pushes') : pushes'[j] = pushes[at(j)] /\ at(j) \in 1..Len(pushes) /\ at(j) # n
    <2>1. pushes' = SubSeq(pushes, 1, n - 1) \o SubSeq(pushes, n + 1, Len(pushes))
      BY DEF Plugin!Sync
    <2>2. /\ pushes' \in Seq(PlugPushes) /\ Len(pushes') = Len(pushes) - 1
          /\ \A j \in 1..Len(pushes') : pushes'[j] = pushes[at(j)]
      <3>1. /\ pushes' \in Seq(PlugPushes) /\ Len(pushes') = Len(pushes) - 1
            /\ \A j \in 1..Len(pushes') : pushes'[j] = pushes[IF j < n THEN j ELSE j + 1]
        <4>1. pushes \in Seq(PlugPushes) /\ n \in 1..Len(pushes)
          BY <1>3
        <4>2. pushes' = Without(pushes, n)
          BY <2>1 DEF Without
        <4>4. /\ Without(pushes, n) \in Seq(PlugPushes) /\ Len(Without(pushes, n)) = Len(pushes) - 1
              /\ \A j \in 1..Len(Without(pushes, n)) : Without(pushes, n)[j] = pushes[IF j < n THEN j ELSE j + 1]
          BY ONLY <4>1, ListGone
        <4> QED
          BY <4>2, <4>4
      <3> QED
        BY <3>1
    <2>3. \A j \in 1..Len(pushes') : at(j) \in 1..Len(pushes) /\ at(j) # n
      BY <1>3, <2>2
    <2> QED
      BY <2>2, <2>3
  <1>6. PICK k : k = pushes[n].n /\ k \in Nat /\ k <= pluginCount.built /\ k # applied
    BY <1>3, <1>4
  <1>7. /\ IsBool(stale') /\ (stale' = TRUE <=> k < applied)
        /\ applied' = (IF k < applied THEN applied ELSE k) /\ applied' \in Nat
    <2>1. stale' = (k < applied) /\ applied' = (IF stale' THEN applied ELSE k)
      BY <1>6, Zenon DEF Plugin!Sync
    <2>2. IsBool(stale') /\ (stale' = TRUE <=> k < applied) /\ applied' = (IF k < applied THEN applied ELSE k)
      <3>1. CASE k < applied
        <4>1. stale' = TRUE
          BY <2>1, <3>1, Zenon
        <4> QED
          BY <2>1, <3>1, <4>1, Zenon DEF IsBool
      <3>2. CASE ~(k < applied)
        <4>0. (k < applied) = FALSE
          BY <3>2
        <4>1. stale' = FALSE
          BY <2>1, <4>0
        <4> QED
          BY <2>1, <3>2, <4>1, Zenon DEF IsBool
      <3> QED
        BY <3>1, <3>2
    <2> QED
      BY <1>3, <1>6, <2>2
  <1>8. IsBool(syncErr') /\ (syncErr' = TRUE \/ agent'.runs = pushes[n].want)
    <2>1. PICK w : w = pushes[n].want
      OBVIOUS
    <2>2. PICK r \in Plugin!Synced(w) : agent' = r.agent /\ syncErr' = r.err
      BY <2>1 DEF Plugin!Sync
    <2>3. \/ w = agent.runs /\ r = [agent |-> agent, err |-> FALSE]
          \/ r = [agent |-> [runs |-> w, disk |-> w], err |-> FALSE]
          \/ r = [agent |-> [agent EXCEPT !.runs = Plugin!None], err |-> TRUE]
      BY <2>2, Zenon DEF Plugin!Synced
    <2>4. (r.err = FALSE /\ r.agent.runs = w) \/ r.err = TRUE
      BY <2>3
    <2> QED
      BY <2>1, <2>2, <2>4 DEF IsBool
  <1>9. PlugTyped' /\ PlugAlone' /\ Plugin!Bundle' = Plugin!Bundle /\ Pushing' = Pushing /\ Cardinality(Pushing) \in Nat
    BY <1>2, <1>3, <1>5, <1>7, <1>8, ServerSteps
  <1>10. PlugCounted'
    <2>1. Len(pushes') <= pluginCount.built
      BY <1>1, <1>3, <1>5 DEF PlugCounted
    <2> QED
      BY <1>1, <1>2, <1>9, <2>1 DEF PlugCounted
  <1>11. PlugAges'
    <2>1. applied' <= pluginCount'.built
      BY <1>1, <1>2, <1>6, <1>7 DEF PlugAges
    <2>2. \A i \in 1..Len(pushes') : pushes'[i].n <= pluginCount'.built /\ pushes'[i].n # applied'
      <3>1. \A i \in 1..Len(pushes) : i # n => pushes[i].n # k
        BY <1>1, <1>3, <1>6 DEF PlugAges
      <3> QED
        BY <1>2, <1>4, <1>5, <1>7, <3>1
    <2>3. \A i, j \in 1..Len(pushes') : pushes'[i].n = pushes'[j].n => i = j
      <3>1. \A i, j \in 1..Len(pushes') : pushes'[i].n = pushes'[j].n => at(i) = at(j)
        BY <1>1, <1>5 DEF PlugAges
      <3>2. \A i, j \in 1..Len(pushes') : at(i) = at(j) => i = j
        BY <1>3, <1>5
      <3> QED
        BY <3>1, <3>2
    <2> QED
      BY <2>1, <2>2, <2>3 DEF PlugAges
  <1>12. PlugCurrent'
    <2>1. CASE unsaved = TRUE \/ link = "lost" \/ Pushing # {} \/ syncs > 0
      BY <1>2, <1>9, <2>1 DEF PlugCurrent
    <2>2. CASE \E i \in 1..Len(pushes) : pushes[i].n = pluginCount.built /\ pushes[i].want = Plugin!Bundle
      <3>1. PICK i \in 1..Len(pushes) : pushes[i].n = pluginCount.built /\ pushes[i].want = Plugin!Bundle
        BY <2>2
      <3>2. CASE i = n
        <4>1. applied <= pluginCount.built
          BY <1>1 DEF PlugAges
        <4>2. applied' = pluginCount'.built
          BY <1>2, <1>3, <1>6, <1>7, <3>1, <3>2, <4>1
        <4> QED
          BY <1>8, <1>9, <3>1, <3>2, <4>2 DEF PlugCurrent, Newest
      <3>3. CASE i # n
        <4>1. PICK j \in 1..Len(pushes') : at(j) = i
          <5>1. (IF i < n THEN i ELSE i - 1) \in 1..Len(pushes') /\ at(IF i < n THEN i ELSE i - 1) = i
            BY <1>3, <1>5, <3>3
          <5> QED
            BY <5>1
        <4>2. pushes'[j] = pushes[i]
          BY <1>5, <4>1
        <4> QED
          BY <1>2, <1>9, <3>1, <4>2 DEF PlugCurrent, Newest
      <3> QED
        BY <3>2, <3>3
    <2>3. CASE applied = pluginCount.built
      <3>1. k < applied
        BY <1>3, <1>6, <2>3
      <3> QED
        BY <1>2, <1>7, <2>3, <3>1 DEF PlugCurrent, Newest
    <2> QED
      BY <1>1, <2>1, <2>2, <2>3 DEF PlugCurrent, Newest
  <1> QED
    BY <1>9, <1>10, <1>11, <1>12 DEF PlugInv

\* The socket goes: what was on the way is lost.
LEMMA PlugLinkLost == PlugInv /\ Plugin!LinkLost => PlugInv'
  <1> SUFFICES ASSUME PlugInv, Plugin!LinkLost PROVE PlugInv'
    OBVIOUS
  <1>1. PlugTyped /\ PlugCounted /\ PlugAges
    BY DEF PlugInv
  <1>2. /\ UNCHANGED <<list, objs, rts, pluginDisk, ops, raised, overlapped, unsaved, tornOff>>
        /\ UNCHANGED <<syncs, applied, stale>> /\ link = "up" /\ link' = "lost" /\ pushes' = <<>>
        /\ pluginCount.drops < MaxDrops /\ pluginCount' = [pluginCount EXCEPT !.drops = @ + 1]
    BY DEF Plugin!LinkLost, Plugin!history, Plugin!Counts
  <1>3. /\ syncs' \in Nat /\ IsBool(stale') /\ link' \in {"up", "lost"} /\ applied' \in Nat /\ pushes' \in Seq(PlugPushes)
        /\ Len(pushes') = 0 /\ pluginCount \in PlugCounts
    BY <1>1, <1>2 DEF PlugTyped
  <1>4. IsBool(syncErr')
    <2>1. syncErr' = (syncErr \/ pushes # <<>>)
      BY DEF Plugin!LinkLost
    <2> QED
      BY <2>1 DEF IsBool
  <1>5. /\ pluginCount' \in PlugCounts /\ pluginCount'.built = pluginCount.built /\ pluginCount'.ops = pluginCount.ops
        /\ pluginCount'.drops = pluginCount.drops + 1 /\ pluginCount'.restarts = pluginCount.restarts
    <2>1. PICK d : d = pluginCount.drops + 1
      OBVIOUS
    <2>2. d \in 0..MaxDrops
      BY <1>2, <1>3, <2>1, HostAssumption, SMTT(30) DEF PlugCounts
    <2>3. pluginCount' = [pluginCount EXCEPT !.drops = d]
      BY <1>2, <2>1
    <2> QED
      BY <1>3, <2>1, <2>2, <2>3 DEF PlugCounts
  <1>6. PlugTyped' /\ PlugAlone' /\ Pushing' = Pushing /\ Cardinality(Pushing) \in Nat
    BY <1>2, <1>3, <1>4, <1>5, ServerSteps
  <1>7. PlugCounted'
    <2>1. /\ pluginCount.ops \in Nat /\ pluginCount.built \in Nat /\ pluginCount.drops \in Nat /\ pluginCount.restarts \in Nat
          /\ syncs \in Nat
      BY <1>1, <1>3 DEF PlugCounts, PlugTyped
    <2>2. PICK a : a = Cardinality(Pushing) /\ a \in Nat
      BY <1>6
    <2>3. a + syncs + 0 + pluginCount.built <= pluginCount.ops + pluginCount.drops + pluginCount.restarts
      BY <1>1, <1>2, <2>2 DEF PlugCounted
    <2>4. a + syncs' + 1 + pluginCount'.built <= pluginCount'.ops + pluginCount'.drops + pluginCount'.restarts
      BY <1>2, <1>5, <2>1, <2>2, <2>3, SMTT(30)
    <2> QED
      BY <1>2, <1>3, <1>5, <1>6, <2>1, <2>2, <2>4 DEF PlugCounted
  <1>8. PlugAges'
    BY <1>1, <1>2, <1>3, <1>5 DEF PlugAges
  <1>9. PlugCurrent'
    BY <1>2 DEF PlugCurrent
  <1> QED
    BY <1>6, <1>7, <1>8, <1>9 DEF PlugInv

\* The server connects, and is to have its list.
LEMMA PlugConnects == PlugInv /\ Plugin!Connects => PlugInv'
  <1> SUFFICES ASSUME PlugInv, Plugin!Connects PROVE PlugInv'
    OBVIOUS
  <1>1. PlugTyped /\ PlugCounted /\ PlugAges
    BY DEF PlugInv
  <1>2. /\ UNCHANGED <<list, objs, rts, pluginDisk, ops, raised, overlapped, unsaved, tornOff>>
        /\ UNCHANGED <<pushes, applied, stale, syncErr, pluginCount>> /\ link = "lost" /\ link' = "up" /\ syncs' = syncs + 1
    BY DEF Plugin!Connects, Plugin!history, Plugin!AfterConnect
  <1>3. /\ syncs \in Nat /\ syncs' \in Nat /\ syncs' > 0 /\ IsBool(stale') /\ IsBool(syncErr') /\ link' \in {"up", "lost"}
        /\ applied' \in Nat /\ pushes' \in Seq(PlugPushes) /\ pluginCount' \in PlugCounts
        /\ pluginCount.built \in Nat
    BY <1>1, <1>2 DEF PlugTyped, PlugCounts
  <1>4. PlugTyped' /\ PlugAlone' /\ Pushing' = Pushing /\ Cardinality(Pushing) \in Nat
    BY <1>2, <1>3, ServerSteps
  <1>5. PlugCounted'
    <2>2. PICK a : a = Cardinality(Pushing) /\ a \in Nat
      BY <1>4
    <2>3. a + syncs + 1 + pluginCount.built <= pluginCount.ops + pluginCount.drops + pluginCount.restarts
      BY <1>1, <1>2, <2>2 DEF PlugCounted
    <2>4. a + syncs' + 0 + pluginCount.built = a + syncs + 1 + pluginCount.built
      BY <1>2, <1>3, <2>2
    <2> QED
      BY <1>1, <1>2, <1>3, <1>4, <2>2, <2>3, <2>4 DEF PlugCounted
  <1>6. PlugAges'
    BY <1>1, <1>2 DEF PlugAges
  <1>7. PlugCurrent'
    BY <1>3 DEF PlugCurrent
  <1> QED
    BY <1>4, <1>5, <1>6, <1>7 DEF PlugInv

\* The panel starts with what it finds on disk: one object, and a runtime of it
\* when it is on.
LEMMA RestartIs ==
    ASSUME PlugTyped, Plugin!PanelRestarts
    PROVE  /\ objs' \in Seq(PlugObjs) /\ rts' \in Seq(PlugRuns) /\ list' \in 0..Len(objs')
           /\ \A o \in 1..Len(objs') : objs'[o].rt <= Len(rts')
           /\ PlugState' = pluginDisk /\ (Plugin!On' <=> DiskOn) /\ OneRuns'
  <1>1. /\ objs \in Seq(PlugObjs) /\ rts \in Seq(PlugRuns) /\ Len(objs) \in Nat /\ Len(rts) \in Nat
        /\ DOMAIN rts = 1..Len(rts) /\ \A o \in 1..Len(objs) : objs[o] \in PlugObjs /\ objs[o].rt \in Nat /\ objs[o].rt <= Len(rts)
        /\ pluginDisk = Plugin!None \/ pluginDisk \in [ver: Versions, st: Plugin!States]
    <2>1. objs \in Seq(PlugObjs) /\ rts \in Seq(PlugRuns)
      BY DEF PlugTyped
    <2>2. \A o \in 1..Len(objs) : objs[o] \in PlugObjs
      BY <2>1
    <2> QED
      BY <2>1, <2>2 DEF PlugTyped, PlugObjs
  <1>2. PICK l, m : l = Len(rts) + 1 /\ m = Len(objs) + 1 /\ l \in Nat /\ m \in Nat
    BY <1>1
  <1>3. PICK dead : dead = [r \in DOMAIN rts |-> [rts[r] EXCEPT !.run = "closed"]]
    OBVIOUS
  <1>4. /\ dead \in Seq(PlugRuns) /\ Len(dead) = Len(rts) /\ DOMAIN dead = 1..Len(rts)
        /\ \A r \in 1..Len(rts) : dead[r].run = "closed"
    <2>1. \A r \in 1..Len(rts) : [rts[r] EXCEPT !.run = "closed"] \in PlugRuns /\ [rts[r] EXCEPT !.run = "closed"].run = "closed"
      <3>1. \A r \in 1..Len(rts) : rts[r] \in PlugRuns
        BY <1>1
      <3> QED
        BY <3>1 DEF PlugRuns
    <2>2. /\ dead \in [1..Len(rts) -> PlugRuns] /\ \A r \in 1..Len(rts) : dead[r].run = "closed"
      BY <1>1, <1>3, <2>1
    <2> QED
      BY <1>1, <2>2
  <1>5. CASE pluginDisk = Plugin!None
    <2>1. rts' = dead /\ list' = 0 /\ objs' = objs
      BY <1>3, <1>5 DEF Plugin!PanelRestarts
    <2>2. ~Plugin!On' /\ ~DiskOn
      BY <1>5, <2>1 DEF Plugin!On, DiskOn
    <2>3. Plugin!Live' = {}
      BY <1>4, <2>1 DEF Plugin!Live
    <2>4. OneRuns'
      BY <2>2, <2>3 DEF OneRuns
    <2>5. PlugState' = pluginDisk
      BY <1>5, <2>1 DEF PlugState
    <2> QED
      BY <1>1, <1>4, <2>1, <2>2, <2>4, <2>5
  <1>6. CASE pluginDisk # Plugin!None
    <2>1. /\ pluginDisk \in [ver: Versions, st: Plugin!States] /\ pluginDisk.ver \in Versions /\ pluginDisk.st \in Plugin!States
          /\ pluginDisk.st.on \in BOOLEAN /\ pluginDisk.st.cfg \in {0, 1}
          /\ pluginDisk = [ver |-> pluginDisk.ver, st |-> pluginDisk.st]
      BY <1>1, <1>6 DEF Plugin!States
    <2>2. PICK k, o, e : /\ k = (IF pluginDisk.st.on = TRUE THEN l ELSE 0)
                         /\ o = [ver |-> pluginDisk.ver, st |-> pluginDisk.st, rt |-> k]
                         /\ e = [run |-> "run", cfg |-> pluginDisk.st.cfg]
      OBVIOUS
    <2>3. /\ list' = m /\ objs' = Append(objs, o)
          /\ rts' = IF pluginDisk.st.on = TRUE THEN Append(dead, e) ELSE dead
      <3>1. CASE pluginDisk.st.on = TRUE
        BY <1>2, <1>3, <1>6, <2>2, <3>1 DEF Plugin!PanelRestarts
      <3>2. CASE pluginDisk.st.on = FALSE
        BY <1>2, <1>3, <1>6, <2>2, <3>2 DEF Plugin!PanelRestarts
      <3> QED
        BY <2>1, <3>1, <3>2
    <2>4. o \in PlugObjs /\ e \in PlugRuns /\ o.rt = k /\ o.st = pluginDisk.st /\ o.ver = pluginDisk.ver
          /\ e.run = "run" /\ e.cfg = pluginDisk.st.cfg /\ k \in Nat
      <3>1. k \in Nat
        BY <1>2, <2>2
      <3> QED
        BY <2>1, <2>2, <3>1 DEF PlugObjs, PlugRuns
    <2>5. /\ objs' \in Seq(PlugObjs) /\ Len(objs') = m /\ objs'[m] = o
          /\ \A i \in 1..Len(objs) : objs'[i] = objs[i]
      BY <1>1, <1>2, <2>3, <2>4, AppendProperties
    <2>6. m \in 1..m /\ m # 0 /\ m \in 0..m
      BY <1>1, <1>2
    <2>7. Plugin!On' <=> pluginDisk.st.on = TRUE
      <3>1. objs'[list'].st.on = pluginDisk.st.on /\ list' # 0
        BY <2>3, <2>4, <2>5, <2>6
      <3> QED
        BY <2>1, <3>1, Zenon DEF Plugin!On
    <2>8. PlugState' = pluginDisk /\ (DiskOn <=> pluginDisk.st.on = TRUE)
      <3>1. PlugState' = [ver |-> objs'[m].ver, st |-> objs'[m].st]
        BY <2>3, <2>6 DEF PlugState
      <3> QED
        BY <1>6, <2>1, <2>4, <2>5, <3>1 DEF DiskOn
    <2>9. CASE pluginDisk.st.on = TRUE
      <3>1. /\ rts' \in Seq(PlugRuns) /\ Len(rts') = l /\ rts'[l] = e
            /\ \A r \in 1..Len(rts) : rts'[r] = dead[r]
        BY <1>2, <1>4, <2>3, <2>4, <2>9, AppendProperties
      <3>2. DOMAIN rts' = 1..l /\ \A r \in 1..l : r \in 1..Len(rts) \/ r = l
        BY <1>1, <1>2, <3>1
      <3>3. Plugin!Live' \subseteq {l}
        BY <1>4, <3>1, <3>2 DEF Plugin!Live
      <3>4. objs'[list'].rt = l /\ l # 0 /\ objs'[list'].st.cfg = pluginDisk.st.cfg
        BY <1>1, <1>2, <2>2, <2>3, <2>4, <2>5, <2>9
      <3>5. OneRuns'
        BY <2>4, <2>7, <2>9, <3>1, <3>3, <3>4 DEF OneRuns
      <3>6. \A i \in 1..Len(objs') : objs'[i].rt <= Len(rts')
        <4>1. \A i \in 1..m : i \in 1..Len(objs) \/ i = m
          BY <1>1, <1>2
        <4>2. objs'[m].rt = l /\ \A i \in 1..Len(objs) : objs'[i].rt \in Nat /\ objs'[i].rt <= Len(rts)
          BY <1>1, <2>3, <2>5, <3>4
        <4>3. \A i \in 1..m : objs'[i].rt <= l
          BY <1>1, <1>2, <4>1, <4>2
        <4> QED
          BY <2>5, <3>1, <4>3
      <3> QED
        BY <2>3, <2>5, <2>6, <2>7, <2>8, <3>1, <3>5, <3>6
    <2>10. CASE pluginDisk.st.on = FALSE
      <3>1. rts' = dead /\ k = 0
        BY <2>2, <2>3, <2>10
      <3>2. Plugin!Live' = {}
        BY <1>4, <3>1 DEF Plugin!Live
      <3>3. OneRuns'
        BY <2>7, <2>10, <3>2 DEF OneRuns
      <3>4. \A i \in 1..Len(objs') : objs'[i].rt <= Len(rts')
        <4>1. \A i \in 1..m : i \in 1..Len(objs) \/ i = m
          BY <1>1, <1>2
        <4>2. objs'[m].rt = 0 /\ \A i \in 1..Len(objs) : objs'[i].rt \in Nat /\ objs'[i].rt <= Len(rts)
          BY <1>1, <2>4, <2>5, <3>1
        <4>3. \A i \in 1..m : objs'[i].rt <= Len(rts)
          BY <1>1, <1>2, <4>1, <4>2
        <4> QED
          BY <1>4, <2>5, <3>1, <4>3
      <3> QED
        BY <1>4, <2>3, <2>5, <2>6, <2>7, <2>8, <3>1, <3>3, <3>4
    <2> QED
      BY <2>1, <2>9, <2>10
  <1> QED
    BY <1>5, <1>6

\* The owner of an open alert is on disk, but for a request that switches it and
\* a save that failed.
LEMMA OwnerSaved ==
    ASSUME PlugTyped, PlugAlone, overlapped = FALSE, unsaved = FALSE, Open,
           \A s \in Slots : Plugin!Busy(s) => ops[s].off = FALSE
    PROVE  DiskOn
  <1>1. Plugin!On => list # 0 /\ objs[list].st.on = TRUE /\ objs[list] \in PlugObjs
    BY OnIs
  <1>2. Plugin!On /\ Kept => DiskOn
    <2>1. SUFFICES ASSUME Plugin!On, Kept PROVE DiskOn
      OBVIOUS
    <2>2. pluginDisk = [ver |-> objs[list].ver, st |-> objs[list].st]
      BY <1>1, <2>1 DEF Kept, PlugState
    <2>3. pluginDisk \in [ver: Versions, st: Plugin!States] /\ pluginDisk.st = objs[list].st
      BY <1>1, <2>1, <2>2 DEF PlugObjs
    <2> QED
      BY <1>1, <2>1, <2>3, NoneIsNone DEF DiskOn
  <1>3. CASE Plugin!Idle
    BY <1>2, <1>3 DEF PlugAlone, Rest
  <1>4. ASSUME NEW s \in Slots, Plugin!Busy(s) PROVE DiskOn
    <2>1. PICK p : p = ops[s]
      OBVIOUS
    <2>2. AloneOK(p) /\ p.todo # <<>> /\ p.off = FALSE /\ p \in PlugOps
      BY <1>4, <2>1 DEF PlugAlone, Plugin!Busy, PlugTyped
    <2>3. /\ p.obj = 0 => Head(p.todo) \in {"copy", "swap", "close", "push", "resolve", "delete"}
          /\ p.obj # 0 => Head(p.todo) \in {"write", "swap", "close", "start", "resolve", "push"}
      <3>1. p.todo \in (IF p.obj = 0 THEN TodoNone ELSE TodoOf)
        BY <2>1 DEF PlugTyped, PlugFlow
      <3> QED
        BY <2>2, <3>1, TodoNoneIs, TodoOfIs
    <2>4. CASE Before(p)
      <3>1. Plugin!On
        BY <2>4 DEF Before
      <3>2. CASE Head(p.todo) # "swap" \/ p.obj = 0
        BY <1>2, <2>4, <3>1, <3>2 DEF Before
      <3>3. CASE Head(p.todo) = "swap" /\ p.obj # 0
        <4>1. pluginDisk = [ver |-> objs[p.obj].ver, st |-> objs[p.obj].st] /\ objs[p.obj].st = Plugin!KeptState
          BY <2>4, <3>3 DEF Before
        <4>2. Plugin!KeptState = objs[list].st
          BY <1>1, <3>1 DEF Plugin!KeptState
        <4>3. objs[p.obj] \in PlugObjs
          <5>1. p.obj \in Nat /\ p.obj <= Len(objs) /\ objs \in Seq(PlugObjs)
            BY <2>1 DEF PlugTyped, PlugOps
          <5> QED
            BY <3>3, <5>1
        <4>4. pluginDisk \in [ver: Versions, st: Plugin!States] /\ pluginDisk.st = objs[list].st
          BY <4>1, <4>2, <4>3 DEF PlugObjs
        <4> QED
          BY <1>1, <3>1, <4>4, NoneIsNone DEF DiskOn
      <3> QED
        BY <3>2, <3>3
    <2>5. CASE Closing(p)
      BY <1>2, <2>2, <2>5 DEF Closing
    <2>6. CASE Starting(p)
      BY <1>2, <2>2, <2>6 DEF Starting
    <2>7. CASE Resolving(p)
      BY <1>2, <2>2, <2>7 DEF Resolving
    <2>8. CASE Pushes(p)
      BY <1>2, <2>2, <2>8 DEF Pushes
    <2>9. CASE Removing(p)
      BY <2>9 DEF Removing
    <2>10. Before(p) \/ Closing(p) \/ Starting(p) \/ Resolving(p) \/ Pushes(p) \/ Removing(p)
      BY <2>1, <2>2, <2>3, AloneAt
    <2> QED
      BY <2>4, <2>5, <2>6, <2>7, <2>8, <2>9, <2>10
  <1> QED
    BY <1>3, <1>4 DEF Plugin!Idle

\* The panel dies and starts.
LEMMA PlugRestarts == PlugInv /\ Plugin!PanelRestarts => PlugInv'
  <1> SUFFICES ASSUME PlugInv, Plugin!PanelRestarts PROVE PlugInv'
    OBVIOUS
  <1>1. PlugTyped /\ PlugCounted /\ PlugAges /\ PlugAlone
    BY DEF PlugInv
  <1>2. /\ UNCHANGED <<pluginDisk, raised, applied, stale, overlapped>> /\ unsaved' = FALSE
        /\ syncs' = 0 /\ pushes' = <<>> /\ syncErr' = FALSE /\ link' = "lost"
        /\ ops' = [s \in Slots |-> Plugin!Free]
        /\ pluginCount.restarts < MaxPanelRestarts /\ pluginCount' = [pluginCount EXCEPT !.restarts = @ + 1]
    BY DEF Plugin!PanelRestarts, Plugin!Counts
  <1>3. /\ objs' \in Seq(PlugObjs) /\ rts' \in Seq(PlugRuns) /\ list' \in 0..Len(objs')
        /\ \A o \in 1..Len(objs') : objs'[o].rt <= Len(rts')
        /\ PlugState' = pluginDisk /\ (Plugin!On' <=> DiskOn) /\ OneRuns'
    BY <1>1, RestartIs
  <1>4. /\ ops' \in [Slots -> PlugOps] /\ \A s \in Slots : ops'[s].todo = <<>> /\ ops'[s].obj = 0 /\ ops'[s].stop = 0
        /\ ~HasPush(<<>>)
    BY <1>2, FreeIs
  <1>5. /\ pluginCount' \in PlugCounts /\ pluginCount'.built = pluginCount.built /\ pluginCount'.ops = pluginCount.ops
        /\ pluginCount'.drops = pluginCount.drops /\ pluginCount'.restarts = pluginCount.restarts + 1
        /\ pluginCount \in PlugCounts
    <2>1. PICK d : d = pluginCount.restarts + 1
      OBVIOUS
    <2>2. d \in 0..MaxPanelRestarts /\ pluginCount \in PlugCounts
      <3>1. pluginCount \in PlugCounts
        BY <1>1 DEF PlugTyped
      <3>2. pluginCount.restarts \in 0..MaxPanelRestarts
        BY <3>1 DEF PlugCounts
      <3> QED
        BY <1>2, <2>1, <3>1, <3>2, HostAssumption
    <2>3. pluginCount' = [pluginCount EXCEPT !.restarts = d]
      BY <1>2, <2>1
    <2> QED
      BY <2>1, <2>2, <2>3 DEF PlugCounts
  <1>6. PICK a, b : /\ a = (\E s \in Slots : Plugin!Busy(s) /\ ops[s].off)
                    /\ b = (unsaved /\ ~(pluginDisk # Plugin!None /\ pluginDisk.st.on))
                    /\ tornOff' = (tornOff \/ a \/ b)
    BY Zenon DEF Plugin!PanelRestarts
  <1>7. IsBool(tornOff') /\ (tornOff' = FALSE => tornOff = FALSE /\ ~a /\ ~b)
    <2>1. tornOff = TRUE \/ tornOff = FALSE
      BY <1>1 DEF PlugTyped, IsBool
    <2>2. CASE tornOff = TRUE
      BY <1>6, <2>2 DEF IsBool
    <2>3. CASE tornOff = FALSE
      BY <1>6, <2>3 DEF IsBool
    <2> QED
      BY <2>1, <2>2, <2>3
  <1>8. PlugTyped'
    <2>1. Len(objs') \in Nat /\ Len(rts') \in Nat
      BY <1>3
    <2>2. \A s \in Slots : ops'[s].obj <= Len(objs') /\ ops'[s].stop <= Len(rts')
      BY <1>4, <2>1
    <2>3. PlugFlow'
      BY <1>4 DEF PlugFlow, TodoNone
    <2>4. pushes' \in Seq(PlugPushes)
      BY <1>2, EmptySeq
    <2>5. IsBool(raised') /\ IsBool(stale') /\ IsBool(syncErr') /\ IsBool(overlapped') /\ IsBool(unsaved')
      BY <1>1, <1>2 DEF PlugTyped, IsBool
    <2>6. applied' \in Nat /\ syncs' \in Nat /\ link' \in {"up", "lost"}
          /\ (pluginDisk' = Plugin!None \/ pluginDisk' \in [ver: Versions, st: Plugin!States])
      BY <1>1, <1>2 DEF PlugTyped
    <2> QED
      BY <1>3, <1>4, <1>5, <1>7, <2>2, <2>3, <2>4, <2>5, <2>6 DEF PlugTyped
  <1>9. Pushing' = {}
    BY <1>4 DEF Pushing
  <1>10. PlugCounted'
    <2>1. Pushing \subseteq Slots
      BY DEF Pushing
    <2>2. PICK c : c = Cardinality(Pushing) /\ c \in Nat
      BY <2>1, HostAssumption, FS_Subset, FS_CardinalityType
    <2>3. /\ pluginCount.ops \in Nat /\ pluginCount.built \in Nat /\ pluginCount.drops \in Nat /\ pluginCount.restarts \in Nat
          /\ syncs \in Nat
      BY <1>1, <1>5 DEF PlugCounts, PlugTyped
    <2>4. PICK k \in {0, 1} : c + syncs + k + pluginCount.built <= pluginCount.ops + pluginCount.drops + pluginCount.restarts
      BY <1>1, <2>2 DEF PlugCounted
    <2>5. 0 + 0 + 1 + pluginCount.built <= pluginCount.ops + pluginCount.drops + (pluginCount.restarts + 1)
      BY <2>2, <2>3, <2>4
    <2>6. Cardinality(Pushing') = 0 /\ Len(pushes') = 0
      BY <1>2, <1>9, FS_EmptySet
    <2> QED
      BY <1>2, <1>5, <2>3, <2>5, <2>6 DEF PlugCounted
  <1>11. PlugAges'
    <2>1. Len(pushes') = 0
      BY <1>2
    <2> QED
      BY <1>1, <1>2, <1>5, <2>1 DEF PlugAges
  <1>12. PlugCurrent'
    BY <1>2 DEF PlugCurrent
  <1>13. PlugAlone'
    <2>1. SUFFICES ASSUME overlapped = FALSE PROVE (\A s \in Slots : ~Plugin!Busy(s)') /\ Rest'
      BY <1>2 DEF PlugAlone
    <2>2. \A s \in Slots : ~Plugin!Busy(s)'
      BY <1>4 DEF Plugin!Busy
    <2>3. Open' => Plugin!On'
      <3>1. SUFFICES ASSUME Open' PROVE DiskOn
        BY <1>3
      <3>2. Open /\ ~a /\ ~b
        BY <1>2, <1>7, <3>1 DEF Open
      <3>3. \A s \in Slots : Plugin!Busy(s) => ops[s].off = FALSE
        <4>1. \A s \in Slots : Plugin!Busy(s) => ~ops[s].off
          BY <1>6, <3>2
        <4>2. \A s \in Slots : ops[s].off \in BOOLEAN
          BY <1>1 DEF PlugTyped, PlugOps
        <4> QED
          BY <4>1, <4>2, Zenon
      <3>4. CASE unsaved = FALSE
        BY <1>1, <2>1, <3>2, <3>3, <3>4, OwnerSaved
      <3>5. CASE unsaved = TRUE
        <4>1. pluginDisk # Plugin!None /\ pluginDisk.st.on
          BY <1>6, <3>2, <3>5, Zenon
        <4>2. pluginDisk.st.on \in BOOLEAN
          BY <1>1, <4>1 DEF PlugTyped, Plugin!States
        <4>3. pluginDisk.st.on = TRUE
          BY <4>1, <4>2, Zenon
        <4> QED
          BY <4>1, <4>3 DEF DiskOn
      <3> QED
        BY <1>1, <3>4, <3>5 DEF PlugTyped, IsBool
    <2>4. Kept'
      BY <1>2, <1>3 DEF Kept
    <2> QED
      BY <1>3, <2>2, <2>3, <2>4 DEF Rest
  <1> QED
    BY <1>8, <1>10, <1>11, <1>12, <1>13 DEF PlugInv

\* What the invariant says is left alone by the other parts of the server.
LEMMA PlugStutters == PlugInv /\ UNCHANGED pluginVars => PlugInv'
  <1> SUFFICES ASSUME PlugInv, UNCHANGED pluginVars PROVE PlugInv'
    OBVIOUS
  <1>1. /\ UNCHANGED <<list, objs, rts, pluginDisk, ops, raised, overlapped, unsaved, tornOff>>
        /\ UNCHANGED <<syncs, pushes, applied, stale, syncErr, link, agent, pluginCount>>
    BY DEF pluginVars
  <1>2. PlugTyped /\ PlugCounted /\ PlugAges /\ PlugCurrent
    BY DEF PlugInv
  <1>3. PlugTyped' /\ PlugAlone' /\ Plugin!Bundle' = Plugin!Bundle /\ Pushing' = Pushing
    <2>1. /\ IsBool(stale') /\ IsBool(syncErr') /\ link' \in {"up", "lost"} /\ syncs' \in Nat /\ applied' \in Nat
          /\ pushes' \in Seq(PlugPushes) /\ pluginCount' \in PlugCounts
      BY <1>1, <1>2 DEF PlugTyped
    <2> QED
      BY <1>1, <2>1, ServerSteps
  <1>4. PlugCounted' /\ PlugAges'
    BY <1>1, <1>2, <1>3 DEF PlugCounted, PlugAges
  <1>5. PlugCurrent'
    BY <1>1, <1>2, <1>3 DEF PlugCurrent, Newest
  <1> QED
    BY <1>3, <1>4, <1>5 DEF PlugInv

\* Every step of a plugin keeps the invariant.
LEMMA PlugStep == PlugInv /\ Plugin!Next => PlugInv'
  <1>1. ASSUME PlugInv, NEW s \in Slots, Plugin!Request(s) PROVE PlugInv'
    BY <1>1, PlugBegins, PlugSetState DEF Plugin!Request
  <1>2. ASSUME PlugInv, NEW s \in Slots, Plugin!Proceed(s) PROVE PlugInv'
    BY <1>2, PlugWrite, PlugSwap, PlugClose, PlugStart, PlugResolve, PlugDelete, PlugChanged, PlugCopy
       DEF Plugin!Proceed
  <1> QED
    BY <1>1, <1>2, PlugCalls, PlugSync, PlugSyncAgent, PlugLinkLost, PlugConnects, PlugRestarts DEF Plugin!Next

\* A plugin at rest runs as it was saved, an open alert has its owner, and a
\* connected server runs what the panel wants or the panel shows an error, for
\* every number of requests, versions, lost sockets and restarts (InstallFiles,
\* SetState, Remove, SyncAgent, PluginHost.Sync).
THEOREM HostPluginsSound == HostSpec => []PluginsSound
  <1> DEFINE hostVars == <<focus, jobVars, pluginVars, fwVars, siteVars, updateVars, fileVars, cronVars, unitVars>>
  <1>1. HostInit => PlugInv
    BY PlugInit DEF HostInit
  <1>2. PlugInv /\ [HostNext]_hostVars => PlugInv'
    BY PlugStep, PlugStutters DEF HostNext
  <1>3. PlugInv => PluginsSound
    <2> SUFFICES ASSUME PlugInv
                 PROVE  Plugin!TypeOK /\ Plugin!RunsAsSaved /\ Plugin!AlertHasOwner /\ Plugin!InStep
      BY DEF PluginsSound
    <2>0. PlugTyped /\ PlugCounted /\ PlugCurrent /\ PlugAlone
      BY DEF PlugInv
    <2>1. Plugin!TypeOK
      <3>1. list \in 0..Len(objs) /\ link \in {"up", "lost"}
        BY <2>0 DEF PlugTyped
      <3>2. \A o \in DOMAIN objs : objs[o].ver \in Versions /\ objs[o].st \in Plugin!States /\ objs[o].rt \in 0..Len(rts)
        <4>1. DOMAIN objs = 1..Len(objs) /\ Len(rts) \in Nat /\ \A o \in 1..Len(objs) : objs[o] \in PlugObjs /\ objs[o].rt <= Len(rts)
          BY <2>0 DEF PlugTyped
        <4> QED
          BY <4>1 DEF PlugObjs
      <3>3. \A r \in DOMAIN rts : rts[r].run \in {"run", "call", "closed"}
        <4>1. \A r \in DOMAIN rts : rts[r] \in PlugRuns
          BY <2>0 DEF PlugTyped
        <4> QED
          BY <4>1 DEF PlugRuns
      <3>4. pluginDisk = Plugin!None \/ (pluginDisk.ver \in Versions /\ pluginDisk.st \in Plugin!States)
        BY <2>0 DEF PlugTyped
      <3>5. \A s \in Slots : \A n \in DOMAIN ops[s].todo : ops[s].todo[n] \in Plugin!Steps
        <4>1. \A s \in Slots : ops[s].todo \in Seq(Plugin!Steps)
          BY <2>0 DEF PlugTyped, PlugOps
        <4> QED
          BY <4>1
      <3>6. {raised, stale, syncErr, overlapped, unsaved, tornOff} \subseteq BOOLEAN
        BY <2>0, Booleans, Zenon DEF PlugTyped
      <3>7. syncs + Len(pushes) <= MaxPluginOps + MaxDrops + MaxPanelRestarts
        <4>1. Pushing \subseteq Slots
          BY DEF Pushing
        <4>2. PICK c : c = Cardinality(Pushing) /\ c \in Nat
          BY <4>1, HostAssumption, FS_Subset, FS_CardinalityType
        <4>3. PICK k \in {0, 1} : c + syncs + k + pluginCount.built <= pluginCount.ops + pluginCount.drops + pluginCount.restarts
          BY <2>0, <4>2 DEF PlugCounted
        <4>4. /\ pluginCount.ops \in 0..MaxPluginOps /\ pluginCount.drops \in 0..MaxDrops
              /\ pluginCount.restarts \in 0..MaxPanelRestarts /\ pluginCount.built \in Nat /\ syncs \in Nat /\ Len(pushes) \in Nat
          BY <2>0 DEF PlugTyped, PlugCounts
        <4>5. Len(pushes) <= pluginCount.built
          BY <2>0 DEF PlugCounted
        <4>6. PICK o, d, r, b, l : /\ o = pluginCount.ops /\ d = pluginCount.drops /\ r = pluginCount.restarts
                                   /\ b = pluginCount.built /\ l = Len(pushes)
          OBVIOUS
        <4>7. /\ c + syncs + k + b <= o + d + r /\ l <= b
              /\ o \in Nat /\ d \in Nat /\ r \in Nat /\ b \in Nat /\ l \in Nat /\ syncs \in Nat
              /\ o <= MaxPluginOps /\ d <= MaxDrops /\ r <= MaxPanelRestarts
          BY <4>3, <4>4, <4>5, <4>6
        <4>8. syncs + l <= o + d + r
          BY ONLY <4>2, <4>7, k \in {0, 1}
        <4>9. o + d + r <= MaxPluginOps + MaxDrops + MaxPanelRestarts
          BY <4>7, HostAssumption
        <4>10. syncs + l <= MaxPluginOps + MaxDrops + MaxPanelRestarts
          BY <4>7, <4>8, <4>9, HostAssumption
        <4> QED
          BY <4>6, <4>10
      <3> QED
        BY <3>1, <3>2, <3>3, <3>4, <3>5, <3>6, <3>7, Zenon DEF Plugin!TypeOK
    <2>2. Plugin!RunsAsSaved
      <3>1. (~overlapped => overlapped = FALSE) /\ (~unsaved => unsaved = FALSE)
        BY <2>0, Zenon DEF PlugTyped, IsBool
      <3>2. Plugin!Idle /\ ~overlapped => OneRuns /\ Kept
        BY <2>0, <3>1 DEF PlugAlone, Rest
      <3> QED
        BY <3>1, <3>2, Zenon DEF Plugin!RunsAsSaved, OneRuns, Kept, PlugState
    <2>3. Plugin!AlertHasOwner
      <3>1. (~overlapped => overlapped = FALSE) /\ (~tornOff => tornOff = FALSE) /\ (raised => raised = TRUE)
        BY <2>0, Zenon DEF PlugTyped, IsBool
      <3>2. Plugin!Idle /\ ~overlapped => (Open => Plugin!On)
        BY <2>0, <3>1 DEF PlugAlone, Rest
      <3> QED
        BY <3>1, <3>2, Zenon DEF Plugin!AlertHasOwner, Open
    <2>4. Plugin!InStep
      <3>1. SUFFICES ASSUME link = "up", Plugin!Idle, syncs = 0, pushes = <<>>, ~stale, ~unsaved
                     PROVE  agent.runs = Plugin!Bundle \/ syncErr
        BY DEF Plugin!InStep
      <3>2. Pushing = {}
        <4>1. \A s \in Slots : ops[s].todo = <<>> /\ ~HasPush(<<>>)
          BY <3>1, FreeIs DEF Plugin!Idle, Plugin!Busy
        <4> QED
          BY <4>1 DEF Pushing
      <3>3. unsaved # TRUE /\ stale # TRUE
        BY <3>1, Zenon
      <3>4. Newest
        BY <2>0, <3>1, <3>2, <3>3 DEF PlugCurrent
      <3>5. syncErr = TRUE \/ agent.runs = Plugin!Bundle
        BY <3>1, <3>3, <3>4 DEF Newest
      <3> QED
        BY <3>5, Zenon
    <2> QED
      BY <2>1, <2>2, <2>3, <2>4, Zenon
  <1> QED
    BY <1>1, <1>2, <1>3, PTL DEF HostSpec


-----------------------------------------------------------------------------
(* The crontab (Crontab).                                                  *)

CronTop == MaxEdits + MaxCrontabEdits + 3
CronLines == 0..CronTop
CronReqs == [do: {"none", "create", "update", "delete"}, id: Nat, meant: Nat, lines: Seq(CronLines), raced: BOOLEAN]

\* The request in progress works on the crontab as it is, unless somebody has
\* been at it since; a line it adds is one no line has had.
CronInv ==
    /\ tab \in Seq(CronLines)
    /\ DOMAIN seen \subseteq Nat /\ \A n \in DOMAIN seen : seen[n] \in Nat \ {0}
    /\ cron \in CronReqs
    /\ cron.do # "none" /\ cron.raced = FALSE => cron.lines = tab
    /\ cronCount \in [edits: 0..MaxEdits, outside: 0..MaxCrontabEdits, fresh: Nat]
    /\ cronCount.fresh >= 3
    /\ cronCount.fresh + (IF cron.do = "none" THEN 0 ELSE 1) <= 3 + cronCount.edits + cronCount.outside

\* The bounds are numbers.
LEMMA CronTopIs == MaxEdits \in Nat /\ MaxCrontabEdits \in Nat /\ CronTop \in Nat /\ CronTop >= 3
                   /\ CronLines = Cron!Entries \cup {Cron!Note, Cron!Reboot}
                   /\ 0 \in CronLines /\ 1 \in CronLines /\ 2 \in CronLines /\ 3 \in CronLines
  BY HostAssumption DEF CronTop, CronLines, Cron!Entries, Cron!Note, Cron!Reboot

\* Crontab counts as the theorems about finite sets do.
LEMMA CronCard == \A S : Cron!Cardinality(S) = Cardinality(S)
  BY DEF Cron!Cardinality, Cardinality

\* Every number of an entry is the number of one.
LEMMA LineOfIs ==
    ASSUME NEW lines \in Seq(CronLines), NEW id \in 1..Cardinality(Cron!EntryLines(lines))
    PROVE  Cron!LineOf(lines, id) \in Cron!EntryLines(lines)
  <1> DEFINE E == Cron!EntryLines(lines)
  <1>1. E \subseteq DOMAIN lines
    BY DEF Cron!EntryLines
  <1>2. PICK l \in Nat : l = Len(lines) /\ DOMAIN lines = 1..l
    OBVIOUS
  <1>3. E \subseteq 1..l
    BY <1>1, <1>2
  <1>4. IsFiniteSet(E) /\ Cardinality(E) \in Nat /\ id \in Nat /\ id > 0 /\ id <= Cardinality(E)
    <2>1. IsFiniteSet(1..l)
      BY FS_Interval
    <2>2. IsFiniteSet(E)
      BY <1>3, <2>1, FS_Subset
    <2>3. Cardinality(E) \in Nat
      BY <2>2, FS_CardinalityType
    <2> QED
      BY <1>1, <2>2, <2>3
  <1> DEFINE Up(k) == {m \in E : m <= k}
  <1>5. \A k : IsFiniteSet(Up(k)) /\ Cardinality(Up(k)) \in Nat
    <2> TAKE k
    <2>1. Up(k) \subseteq E
      OBVIOUS
    <2>2. IsFiniteSet(Up(k))
      BY <1>4, <2>1, FS_Subset
    <2> QED
      BY <2>2, FS_CardinalityType
  <1>6. Up(l) = E /\ Up(0) = {}
    <2>1. \A m \in E : m \in Nat /\ m <= l /\ ~(m <= 0)
      BY <1>3
    <2> QED
      BY <2>1
  <1> DEFINE S == {k \in Nat : Cardinality(Up(k)) >= id}
  <1>7. l \in S
    BY <1>4, <1>6
  <1>8. PICK k \in S : \A j \in S : k <= j
    <2>1. S \subseteq Nat /\ S # {}
      BY <1>7
    <2> HIDE DEF S
    <2> QED
      BY <2>1, LeastExists
  <1>9. k \in Nat /\ Cardinality(Up(k)) >= id
    BY <1>8
  <1>10. k # 0
    <2>1. SUFFICES ASSUME k = 0 PROVE FALSE
      OBVIOUS
    <2>2. Up(k) = {}
      BY <1>6, <2>1
    <2>3. Cardinality(Up(k)) = 0
      BY <2>2, FS_EmptySet
    <2> HIDE DEF Up
    <2> QED
      BY <1>4, <1>9, <2>3
  <1>11. PICK j \in Nat : j = k - 1 /\ k = j + 1
    BY <1>9, <1>10
  <1>12. ~(Cardinality(Up(j)) >= id)
    <2>1. j \notin S
      BY <1>8, <1>9, <1>11
    <2> QED
      BY <2>1
  <1>13. k \in E
    <2>1. SUFFICES ASSUME k \notin E PROVE FALSE
      OBVIOUS
    <2>2. \A m \in E : m <= k <=> m <= j
      BY <1>3, <1>11, <2>1
    <2>3. Up(k) = Up(j)
      BY <2>2
    <2> QED
      BY <1>9, <1>12, <2>3
  <1>14. Cardinality(Up(k)) = id
    <2>1. \A m \in E : m <= k <=> m = k \/ m <= j
      BY <1>3, <1>11
    <2>2. Up(k) = Up(j) \cup {k} /\ k \notin Up(j)
      <3>1. ~(k <= j)
        BY <1>11
      <3>2. Up(k) \subseteq Up(j) \cup {k} /\ Up(j) \subseteq Up(k)
        BY <2>1
      <3>3. k \in Up(k)
        BY <1>13, <2>1
      <3> QED
        BY <3>1, <3>2, <3>3
    <2>3. Cardinality(Up(k)) = Cardinality(Up(j)) + 1
      <3>1. PICK U : U = Up(j)
        OBVIOUS
      <3>2. IsFiniteSet(U) /\ k \notin U /\ Up(k) = U \cup {k}
        BY <1>5, <2>2, <3>1
      <3>3. Cardinality(U \cup {k}) = Cardinality(U) + 1
        BY <3>2, FS_AddElement
      <3> QED
        BY <3>1, <3>2, <3>3
    <2>4. PICK a, b : a = Cardinality(Up(j)) /\ b = Cardinality(Up(k)) /\ a \in Nat /\ b \in Nat
      BY <1>5
    <2>5. b = a + 1 /\ b >= id /\ ~(a >= id)
      BY <1>9, <1>12, <2>3, <2>4
    <2>6. b = id
      BY <1>4, <2>4, <2>5
    <2> QED
      BY <2>4, <2>6
  <1>15. \E n \in E : Cron!Cardinality({m \in E : m <= n}) = id
    <2>1. Cron!Cardinality(Up(k)) = id
      BY <1>14, CronCard
    <2> QED
      BY <1>13, <2>1
  <1>16. (CHOOSE n \in E : Cron!Cardinality({m \in E : m <= n}) = id) \in E
    BY <1>15, Zenon
  <1>17. Cron!LineOf(lines, id) =
           CHOOSE n \in Cron!EntryLines(lines) : Cron!Cardinality({m \in Cron!EntryLines(lines) : m <= n}) = id
    BY Zenon DEF Cron!LineOf
  <1> QED
    BY <1>1, <1>16, <1>17, Zenon

\* An entry is a line, and no comment.
LEMMA EntryIs ==
    ASSUME NEW lines \in Seq(CronLines), NEW n \in Cron!EntryLines(lines)
    PROVE  n \in 1..Len(lines) /\ lines[n] \in CronLines /\ lines[n] # 0
  BY DEF Cron!EntryLines, Cron!IsEntry, Cron!Note

\* The listing is of entries.
LEMMA ListedIs ==
    ASSUME NEW lines \in Seq(CronLines)
    PROVE  /\ DOMAIN Cron!Listed(lines) \subseteq Nat
           /\ \A n \in DOMAIN Cron!Listed(lines) : Cron!Listed(lines)[n] \in Nat \ {0}
  <1>1. PICK c : c = Cardinality(Cron!EntryLines(lines))
    OBVIOUS
  <1>2. Cron!Listed(lines) = [id \in 1..c |-> lines[Cron!LineOf(lines, id)]]
    <2>1. Cron!Listed(lines) = [id \in 1..Cron!Cardinality(Cron!EntryLines(lines)) |-> lines[Cron!LineOf(lines, id)]]
      BY Zenon DEF Cron!Listed
    <2> QED
      BY <1>1, <2>1, CronCard
  <1>3. DOMAIN Cron!Listed(lines) = 1..c
    BY <1>2
  <1>4. ASSUME NEW id \in 1..c PROVE lines[Cron!LineOf(lines, id)] \in Nat \ {0}
    <2>1. Cron!LineOf(lines, id) \in Cron!EntryLines(lines)
      BY <1>1, LineOfIs
    <2>2. lines[Cron!LineOf(lines, id)] \in CronLines /\ lines[Cron!LineOf(lines, id)] # 0
      BY <2>1, EntryIs
    <2> QED
      BY <2>2 DEF CronLines
  <1> QED
    BY <1>2, <1>3, <1>4

\* A set within one element is of one at most.
LEMMA OneAtMost ==
    ASSUME NEW S, NEW x, S \subseteq {x}
    PROVE  Cardinality(S) <= 1
  <1>1. S = {} \/ S = {x}
    OBVIOUS
  <1>2. Cardinality({}) = 0 /\ Cardinality({x}) = 1
    BY FS_EmptySet, FS_Singleton
  <1> QED
    BY <1>1, <1>2

\* What a save may do to the lines: as many comments, one line less at most.
KeepsLines(old, new, x) ==
    /\ Cardinality(Cron!Notes(new)) = Cardinality(Cron!Notes(old))
    /\ Cron!Lines(old) \ Cron!Lines(new) \subseteq {x}

\* One more entry.
LEMMA AddsLine ==
    ASSUME NEW lines \in Seq(CronLines), NEW x \in CronLines, x # 0, NEW y
    PROVE  Append(lines, x) \in Seq(CronLines) /\ KeepsLines(lines, Append(lines, x), y)
  <1>1. PICK q : q = Append(lines, x)
    OBVIOUS
  <1>2. PICK l \in Nat : l = Len(lines) /\ DOMAIN lines = 1..l
    OBVIOUS
  <1>3. q \in Seq(CronLines) /\ Len(q) = l + 1 /\ (\A j \in 1..l : q[j] = lines[j]) /\ q[l + 1] = x
    BY <1>1, <1>2, AppendProperties
  <1>4. DOMAIN q = 1..(l + 1) /\ \A j \in 1..(l + 1) : j \in 1..l \/ j = l + 1
    BY <1>3
  <1>5. Cron!Notes(q) = Cron!Notes(lines)
    BY <1>2, <1>3, <1>4 DEF Cron!Notes, Cron!Note
  <1>6. Cron!Lines(lines) \subseteq Cron!Lines(q)
    <2> SUFFICES ASSUME NEW j \in DOMAIN lines PROVE lines[j] \in Cron!Lines(q)
      BY Zenon DEF Cron!Lines
    <2>1. j \in DOMAIN q /\ q[j] = lines[j]
      BY <1>2, <1>3, <1>4
    <2> QED
      BY <2>1, Zenon DEF Cron!Lines
  <1> QED
    BY <1>1, <1>3, <1>5, <1>6 DEF KeepsLines

\* One entry changed.
LEMMA ChangesLine ==
    ASSUME NEW lines \in Seq(CronLines), NEW n \in 1..Len(lines), lines[n] # 0, NEW x \in CronLines, x # 0
    PROVE  [lines EXCEPT ![n] = x] \in Seq(CronLines) /\ KeepsLines(lines, [lines EXCEPT ![n] = x], lines[n])
  <1>1. PICK q : q = [lines EXCEPT ![n] = x]
    OBVIOUS
  <1>2. PICK l \in Nat : l = Len(lines) /\ DOMAIN lines = 1..l
    OBVIOUS
  <1>3. q \in Seq(CronLines) /\ Len(q) = l /\ \A j \in 1..l : q[j] = IF j = n THEN x ELSE lines[j]
    BY <1>1, <1>2, ExceptSeq
  <1>4. DOMAIN q = 1..l
    BY <1>3
  <1>5. Cron!Notes(q) = Cron!Notes(lines)
    BY <1>2, <1>3, <1>4 DEF Cron!Notes, Cron!Note
  <1>6. Cron!Lines(lines) \ Cron!Lines(q) \subseteq {lines[n]}
    <2> SUFFICES ASSUME NEW j \in DOMAIN lines, lines[j] # lines[n] PROVE lines[j] \in Cron!Lines(q)
      BY Zenon DEF Cron!Lines
    <2>1. j \in DOMAIN q /\ q[j] = lines[j]
      BY <1>2, <1>3, <1>4
    <2> QED
      BY <2>1, Zenon DEF Cron!Lines
  <1> QED
    BY <1>1, <1>3, <1>5, <1>6 DEF KeepsLines

\* One line less.
LEMMA DropsLine ==
    ASSUME NEW lines \in Seq(CronLines), NEW n \in 1..Len(lines)
    PROVE  /\ Cron!Dropped(lines, n) \in Seq(CronLines)
           /\ lines[n] # 0 => KeepsLines(lines, Cron!Dropped(lines, n), lines[n])
  <1>1. PICK q : q = Cron!Dropped(lines, n) /\ q = Without(lines, n)
    BY DEF Cron!Dropped, Without
  <1>2. PICK l \in Nat : l = Len(lines) /\ DOMAIN lines = 1..l /\ n \in 1..l
    OBVIOUS
  <1> DEFINE at(j) == IF j < n THEN j ELSE j + 1
  <1>3. q \in Seq(CronLines) /\ Len(q) = l - 1 /\ \A j \in 1..Len(q) : q[j] = lines[IF j < n THEN j ELSE j + 1]
    BY <1>1, <1>2, ListGone
  <1>4. DOMAIN q = 1..(l - 1) /\ \A j \in 1..(l - 1) : q[j] = lines[at(j)] /\ at(j) \in 1..l /\ at(j) # n
    <2>1. \A j \in 1..(l - 1) : at(j) \in 1..l /\ at(j) # n
      BY <1>2
    <2>2. DOMAIN q = 1..(l - 1) /\ \A j \in 1..(l - 1) : q[j] = lines[IF j < n THEN j ELSE j + 1]
      BY <1>2, <1>3
    <2> QED
      BY <2>1, <2>2
  <1>5. \A i \in 1..l : i # n => \E j \in 1..(l - 1) : at(j) = i
    <2> TAKE i \in 1..l
    <2>1. CASE i < n
      <3>1. i \in 1..(l - 1) /\ at(i) = i
        BY <1>2, <2>1
      <3> QED
        BY <3>1
    <2>2. CASE i > n
      <3>1. i - 1 \in 1..(l - 1) /\ at(i - 1) = i
        BY <1>2, <2>2
      <3> QED
        BY <3>1
    <2> QED
      BY <1>2, <2>1, <2>2
  <1>6. \A i, j \in 1..(l - 1) : at(i) = at(j) => i = j
    BY <1>2
  <1> HIDE DEF at
  <1>7. ASSUME lines[n] # 0 PROVE Cardinality(Cron!Notes(q)) = Cardinality(Cron!Notes(lines))
    <2>1. PICK A, B : A = Cron!Notes(q) /\ B = Cron!Notes(lines)
      OBVIOUS
    <2>2. A = {j \in 1..(l - 1) : lines[at(j)] = 0} /\ B = {i \in 1..l : lines[i] = 0}
      BY <1>2, <1>4, <2>1 DEF Cron!Notes, Cron!Note
    <2>3. PICK f : f = [j \in A |-> at(j)]
      OBVIOUS
    <2>4. f \in [A -> B]
      BY <1>4, <2>2, <2>3
    <2>5. \A i, j \in A : f[i] = f[j] => i = j
      BY <1>6, <2>2, <2>3
    <2>6. \A i \in B : \E j \in A : f[j] = i
      <3> TAKE i \in B
      <3>1. i \in 1..l /\ lines[i] = 0 /\ i # n
        BY <1>7, <2>2
      <3>2. PICK j \in 1..(l - 1) : at(j) = i
        BY <1>5, <3>1
      <3>3. j \in A
        BY <2>2, <3>1, <3>2
      <3> QED
        BY <2>3, <3>2, <3>3
    <2>7. f \in Bijection(A, B)
      BY <2>4, <2>5, <2>6 DEF Bijection, Injection, Surjection, IsInjective
    <2>8. IsFiniteSet(A)
      <3>1. IsFiniteSet(1..(l - 1)) /\ A \subseteq 1..(l - 1)
        BY <2>2, FS_Interval
      <3> QED
        BY <3>1, FS_Subset
    <2>9. ExistsBijection(A, B)
      BY <2>7 DEF ExistsBijection
    <2>10. Cardinality(A) = Cardinality(B)
      BY <2>8, <2>9, FS_Bijection
    <2> QED
      BY <2>1, <2>10
  <1>8. Cron!Lines(lines) \ Cron!Lines(q) \subseteq {lines[n]}
    <2> SUFFICES ASSUME NEW i \in DOMAIN lines, lines[i] # lines[n] PROVE lines[i] \in Cron!Lines(q)
      BY Zenon DEF Cron!Lines
    <2>1. PICK j \in 1..(l - 1) : at(j) = i
      BY <1>2, <1>5
    <2>2. j \in DOMAIN q /\ q[j] = lines[i]
      BY <1>4, <2>1
    <2> QED
      BY <2>2, Zenon DEF Cron!Lines
  <1> QED
    BY <1>1, <1>3, <1>7, <1>8 DEF KeepsLines

\* What KeepsOthers says of one step.
CronKeeps ==
    cron # Cron!Free /\ cron' = Cron!Free /\ ~cron.raced =>
        /\ Cron!Cardinality(Cron!Notes(tab')) = Cron!Cardinality(Cron!Notes(tab))
        /\ Cron!Cardinality(Cron!Lines(tab) \ Cron!Lines(tab')) <= 1
        /\ Cron!Reboot \in Cron!Lines(tab) \ Cron!Lines(tab') => cron.do = "delete"

\* It follows from what a save does to the lines.
LEMMA KeptBy ==
    ASSUME NEW x, KeepsLines(tab, tab', x), x = 1 => cron.do = "delete"
    PROVE  CronKeeps
  <1>1. Cardinality(Cron!Lines(tab) \ Cron!Lines(tab')) <= 1
    <2>1. PICK D : D = Cron!Lines(tab) \ Cron!Lines(tab')
      OBVIOUS
    <2>2. D \subseteq {x}
      BY <2>1 DEF KeepsLines
    <2> QED
      BY <2>1, <2>2, OneAtMost
  <1>2. Cron!Reboot \in Cron!Lines(tab) \ Cron!Lines(tab') => cron.do = "delete"
    BY DEF KeepsLines, Cron!Reboot
  <1> QED
    BY <1>1, <1>2, CronCard, Zenon DEF CronKeeps, KeepsLines

\* A request that is no more.
LEMMA CronFreeIs == /\ Cron!Free \in CronReqs /\ Cron!Free.do = "none" /\ Cron!Free.raced = FALSE
  <1>1. <<>> \in Seq(CronLines)
    BY EmptySeq
  <1> QED
    BY <1>1 DEF Cron!Free, Cron!Note, CronReqs

\* The crontabs it may start from.
LEMMA CronStarts == Cron!Init => CronInv
  <1> SUFFICES ASSUME Cron!Init PROVE CronInv
    OBVIOUS
  <1>1. tab \in Seq(CronLines)
    <2>1. tab = <<0, 2, 1, 3>> \/ tab = <<2, 0, 3>> \/ tab = <<>>
      BY DEF Cron!Init, Cron!Note, Cron!Reboot
    <2>2. 0 \in CronLines /\ 1 \in CronLines /\ 2 \in CronLines /\ 3 \in CronLines
      BY CronTopIs
    <2>3. <<0, 2, 1, 3>> \in Seq(CronLines)
      BY ONLY <2>2
    <2>4. <<2, 0, 3>> \in Seq(CronLines)
      BY ONLY <2>2
    <2>5. <<>> \in Seq(CronLines)
      BY EmptySeq
    <2> QED
      BY ONLY <2>1, <2>3, <2>4, <2>5
  <1>2. seen = Cron!Listed(tab) /\ cron = Cron!Free /\ cronCount = [edits |-> 0, outside |-> 0, fresh |-> 3]
    BY DEF Cron!Init
  <1>3. DOMAIN seen \subseteq Nat /\ \A n \in DOMAIN seen : seen[n] \in Nat \ {0}
    BY <1>1, <1>2, ListedIs
  <1>4. cronCount \in [edits: 0..MaxEdits, outside: 0..MaxCrontabEdits, fresh: Nat]
    BY <1>2, CronTopIs
  <1> QED
    BY <1>1, <1>2, <1>3, <1>4, CronFreeIs DEF CronInv

\* A save that took a new line, or none.
LEMMA CronSaves ==
    ASSUME CronInv, NEW lines \in Seq(CronLines), Cron!Saves(lines), cron.do # "none",
           cronCount' = cronCount \/ cronCount' = [cronCount EXCEPT !.fresh = @ + 1]
    PROVE  CronInv'
  <1>1. tab' = lines /\ cron' = Cron!Free /\ seen' = seen
    BY DEF Cron!Saves
  <1>2. /\ cronCount \in [edits: 0..MaxEdits, outside: 0..MaxCrontabEdits, fresh: Nat]
        /\ cronCount.fresh >= 3 /\ cronCount.fresh + 1 <= 3 + cronCount.edits + cronCount.outside
    BY DEF CronInv
  <1>3. /\ cronCount' \in [edits: 0..MaxEdits, outside: 0..MaxCrontabEdits, fresh: Nat]
        /\ cronCount'.fresh >= 3 /\ cronCount'.fresh <= 3 + cronCount'.edits + cronCount'.outside
    <2>1. CASE cronCount' = cronCount
      BY <1>2, <2>1
    <2>2. CASE cronCount' = [cronCount EXCEPT !.fresh = @ + 1]
      <3>1. PICK f : f = cronCount.fresh + 1 /\ f \in Nat
        BY <1>2
      <3>2. cronCount' = [cronCount EXCEPT !.fresh = f]
        BY <2>2, <3>1
      <3>3. /\ cronCount' \in [edits: 0..MaxEdits, outside: 0..MaxCrontabEdits, fresh: Nat]
            /\ cronCount'.fresh = f /\ cronCount'.edits = cronCount.edits /\ cronCount'.outside = cronCount.outside
        BY <1>2, <3>1, <3>2
      <3> QED
        BY <1>2, <3>1, <3>3
    <2> QED
      BY <2>1, <2>2
  <1>4. cronCount'.fresh + 0 <= 3 + cronCount'.edits + cronCount'.outside
    BY <1>3
  <1> QED
    BY <1>1, <1>3, <1>4, CronFreeIs DEF CronInv

\* The line a request adds.
LEMMA FreshLine ==
    ASSUME CronInv, cron.do # "none" \/ cronCount.outside < MaxCrontabEdits
    PROVE  cronCount.fresh + 1 \in CronLines /\ cronCount.fresh + 1 # 0 /\ cronCount.fresh + 1 # 1
  <1>1. /\ cronCount.edits \in 0..MaxEdits /\ cronCount.outside \in 0..MaxCrontabEdits /\ cronCount.fresh \in Nat
        /\ cronCount.fresh >= 3
    BY DEF CronInv
  <1>2. cronCount.fresh + 1 <= CronTop
    <2>1. CASE cron.do # "none"
      <3>1. cronCount.fresh + 1 <= 3 + cronCount.edits + cronCount.outside
        BY <2>1 DEF CronInv
      <3> QED
        BY <1>1, <3>1, CronTopIs DEF CronTop
    <2>2. CASE cron.do = "none" /\ cronCount.outside < MaxCrontabEdits
      <3>1. cronCount.fresh + 0 <= 3 + cronCount.edits + cronCount.outside
        BY <2>2 DEF CronInv
      <3> QED
        BY <1>1, <2>2, <3>1, CronTopIs DEF CronTop
    <2> QED
      BY <2>1, <2>2
  <1> QED
    BY <1>1, <1>2, CronTopIs DEF CronLines

\* The three requests, from the load to the save.
LEMMA CronEdits == CronInv /\ (Cron!CronCreate \/ Cron!CronUpdate \/ Cron!CronDelete) => CronInv' /\ CronKeeps
  <1> SUFFICES ASSUME CronInv, Cron!CronCreate \/ Cron!CronUpdate \/ Cron!CronDelete PROVE CronInv' /\ CronKeeps
    OBVIOUS
  <1>1. cron \in CronReqs /\ cron.lines \in Seq(CronLines) /\ cron.raced \in BOOLEAN
        /\ (cron.do # "none" /\ cron.raced = FALSE => cron.lines = tab)
    BY DEF CronInv, CronReqs
  <1>2. cron.raced \/ cron.raced = FALSE
    BY <1>1
  <1>3. cron.raced => CronKeeps
    BY Zenon DEF CronKeeps
  <1>4. PICK f, ls : f = cronCount.fresh + 1 /\ ls = cron.lines
    OBVIOUS
  <1>5. CASE Cron!CronCreate
    <2>1. cron.do = "create" /\ Cron!Saves(Append(ls, f)) /\ cronCount' = [cronCount EXCEPT !.fresh = @ + 1]
      BY <1>4, <1>5 DEF Cron!CronCreate, Cron!Counts
    <2>2. f \in CronLines /\ f # 0
      BY <1>4, <2>1, FreshLine
    <2>3. Append(ls, f) \in Seq(CronLines) /\ KeepsLines(ls, Append(ls, f), 0)
      BY <1>1, <1>4, <2>2, AddsLine
    <2>4. CronInv'
      BY <2>1, <2>3, CronSaves
    <2>5. CASE cron.raced = FALSE
      <3>1. tab' = Append(ls, f) /\ tab = ls
        BY <1>1, <1>4, <2>1, <2>5 DEF Cron!Saves
      <3>2. KeepsLines(tab, tab', 0)
        BY <2>3, <3>1
      <3> QED
        BY <2>4, <3>2, KeptBy
    <2> QED
      BY <1>2, <1>3, <2>4, <2>5
  <1>6. CASE Cron!CronUpdate
    <2>1. PICK n : n = Cron!LineOf(ls, cron.id)
      OBVIOUS
    <2>2. /\ cron.do = "update" /\ Cron!Found /\ ls[n] # Cron!Reboot /\ Cron!Saves([ls EXCEPT ![n] = f])
          /\ cronCount' = [cronCount EXCEPT !.fresh = @ + 1]
      BY <1>4, <1>6, <2>1 DEF Cron!CronUpdate, Cron!Counts
    <2>3. n \in 1..Len(ls) /\ ls[n] # 0 /\ ls[n] # 1
      <3>1. cron.id \in 1..Cardinality(Cron!EntryLines(ls))
        BY <1>4, <2>2, CronCard DEF Cron!Found
      <3>2. n \in Cron!EntryLines(ls)
        BY <1>1, <1>4, <2>1, <3>1, LineOfIs
      <3> QED
        BY <1>1, <1>4, <2>2, <3>2, EntryIs DEF Cron!Reboot
    <2>4. f \in CronLines /\ f # 0
      BY <1>4, <2>2, FreshLine
    <2>5. [ls EXCEPT ![n] = f] \in Seq(CronLines) /\ KeepsLines(ls, [ls EXCEPT ![n] = f], ls[n])
      BY <1>1, <1>4, <2>3, <2>4, ChangesLine
    <2>6. CronInv'
      BY <2>2, <2>5, CronSaves
    <2>7. CASE cron.raced = FALSE
      <3>1. tab' = [ls EXCEPT ![n] = f] /\ tab = ls
        BY <1>1, <1>4, <2>2, <2>7 DEF Cron!Saves
      <3>2. KeepsLines(tab, tab', ls[n])
        BY <2>5, <3>1
      <3> QED
        BY <2>3, <2>6, <3>2, KeptBy
    <2> QED
      BY <1>2, <1>3, <2>6, <2>7
  <1>7. CASE Cron!CronDelete
    <2>1. PICK n : n = Cron!LineOf(ls, cron.id)
      OBVIOUS
    <2>2. cron.do = "delete" /\ Cron!Found /\ Cron!Saves(Cron!Dropped(ls, n)) /\ cronCount' = cronCount
      BY <1>4, <1>7, <2>1 DEF Cron!CronDelete
    <2>3. n \in 1..Len(ls) /\ ls[n] # 0
      <3>1. cron.id \in 1..Cardinality(Cron!EntryLines(ls))
        BY <1>4, <2>2, CronCard DEF Cron!Found
      <3>2. n \in Cron!EntryLines(ls)
        BY <1>1, <1>4, <2>1, <3>1, LineOfIs
      <3> QED
        BY <1>1, <1>4, <3>2, EntryIs
    <2>4. Cron!Dropped(ls, n) \in Seq(CronLines) /\ KeepsLines(ls, Cron!Dropped(ls, n), ls[n])
      BY <1>1, <1>4, <2>3, DropsLine
    <2>5. CronInv'
      BY <2>2, <2>4, CronSaves
    <2>6. CASE cron.raced = FALSE
      <3>1. tab' = Cron!Dropped(ls, n) /\ tab = ls
        BY <1>1, <1>4, <2>2, <2>6 DEF Cron!Saves
      <3>2. KeepsLines(tab, tab', ls[n])
        BY <2>4, <3>1
      <3> QED
        BY <2>2, <2>5, <3>2, KeptBy
    <2> QED
      BY <1>2, <1>3, <2>5, <2>6
  <1> QED
    BY <1>5, <1>6, <1>7

\* A request begins.
LEMMA CronLoads ==
    ASSUME CronInv, NEW do \in {"create", "update", "delete"}, NEW id, Cron!CronBegins(do, id)
    PROVE  CronInv' /\ CronKeeps
  <1>1. /\ cron = Cron!Free /\ cronCount.edits < MaxEdits /\ tab' = tab /\ seen' = seen
        /\ IF do = "create" THEN id = 0 ELSE id \in DOMAIN seen
        /\ cronCount' = [cronCount EXCEPT !.edits = @ + 1]
        /\ cron' = [do |-> do, id |-> id, meant |-> IF id = 0 THEN 0 ELSE seen[id], lines |-> tab, raced |-> FALSE]
    BY DEF Cron!CronBegins, Cron!Counts, Cron!Note
  <1>2. CronKeeps
    BY <1>1 DEF CronKeeps
  <1>3. id \in Nat /\ (IF id = 0 THEN 0 ELSE seen[id]) \in Nat
    <2>1. DOMAIN seen \subseteq Nat /\ \A n \in DOMAIN seen : seen[n] \in Nat
      BY DEF CronInv
    <2>2. id = 0 \/ id \in DOMAIN seen
      BY <1>1
    <2> QED
      BY <2>1, <2>2
  <1>4. cron' \in CronReqs /\ cron'.do = do /\ cron'.lines = tab
    <2>1. tab \in Seq(CronLines)
      BY DEF CronInv
    <2> QED
      BY <1>1, <1>3, <2>1 DEF CronReqs
  <1>5. /\ cronCount' \in [edits: 0..MaxEdits, outside: 0..MaxCrontabEdits, fresh: Nat]
        /\ cronCount'.fresh >= 3
        /\ cronCount'.fresh + 1 <= 3 + cronCount'.edits + cronCount'.outside
    <2>1. /\ cronCount \in [edits: 0..MaxEdits, outside: 0..MaxCrontabEdits, fresh: Nat]
          /\ cronCount.fresh >= 3 /\ cronCount.fresh + 0 <= 3 + cronCount.edits + cronCount.outside
      BY <1>1, CronFreeIs DEF CronInv
    <2>2. PICK e : e = cronCount.edits + 1
      OBVIOUS
    <2>3. e \in 0..MaxEdits
      BY <1>1, <2>1, <2>2, CronTopIs
    <2>4. cronCount' = [cronCount EXCEPT !.edits = e]
      BY <1>1, <2>2
    <2>5. /\ cronCount' \in [edits: 0..MaxEdits, outside: 0..MaxCrontabEdits, fresh: Nat]
          /\ cronCount'.fresh = cronCount.fresh /\ cronCount'.edits = e /\ cronCount'.outside = cronCount.outside
      BY <2>1, <2>3, <2>4
    <2> QED
      BY <2>1, <2>2, <2>5
  <1>6. CronInv'
    BY <1>1, <1>4, <1>5 DEF CronInv
  <1> QED
    BY <1>2, <1>6

\* The rest: the listing, a failure, and somebody's crontab -e.
LEMMA CronOthers == CronInv /\ (Cron!CronState \/ Cron!CronFails \/ Cron!SomebodyEdits) => CronInv' /\ CronKeeps
  <1> SUFFICES ASSUME CronInv, Cron!CronState \/ Cron!CronFails \/ Cron!SomebodyEdits PROVE CronInv' /\ CronKeeps
    OBVIOUS
  <1>0. tab \in Seq(CronLines) /\ cron \in CronReqs
    BY DEF CronInv
  <1>1. CASE Cron!CronState
    <2>1. UNCHANGED <<tab, cron, cronCount>> /\ seen' = Cron!Listed(tab)
      BY <1>1 DEF Cron!CronState
    <2>2. CronInv'
      BY <1>0, <2>1, ListedIs DEF CronInv
    <2> QED
      BY <2>1, <2>2, Zenon DEF CronKeeps
  <1>2. CASE Cron!CronFails
    <2>1. UNCHANGED <<tab, seen, cronCount>> /\ cron' = Cron!Free
      BY <1>2 DEF Cron!CronFails
    <2>2. cronCount.fresh \in Nat /\ cronCount.edits \in Nat /\ cronCount.outside \in Nat
          /\ cronCount.fresh + (IF cron.do = "none" THEN 0 ELSE 1) <= 3 + cronCount.edits + cronCount.outside
      BY CronTopIs DEF CronInv
    <2>3. cronCount.fresh + 0 <= 3 + cronCount.edits + cronCount.outside
      BY <2>2
    <2>4. CronInv'
      BY <2>1, <2>3, CronFreeIs DEF CronInv
    <2>5. KeepsLines(tab, tab', 0)
      BY <2>1 DEF KeepsLines
    <2> QED
      BY <2>4, <2>5, KeptBy
  <1>3. CASE Cron!SomebodyEdits
    <2>1. /\ cronCount.outside < MaxCrontabEdits /\ seen' = seen
          /\ cronCount' = [cronCount EXCEPT !.outside = @ + 1, !.fresh = @ + 1]
          /\ cron' = IF cron = Cron!Free THEN Cron!Free ELSE [cron EXCEPT !.raced = TRUE]
      BY <1>3 DEF Cron!SomebodyEdits
    <2>2. tab' \in Seq(CronLines)
      <3>1. PICK f : f = cronCount.fresh + 1 /\ f \in CronLines
        BY <2>1, FreshLine
      <3>2. \/ tab' = <<f>> \o tab
            \/ tab' = Append(tab, 0)
            \/ \E n \in DOMAIN tab : tab' = Cron!Dropped(tab, n)
        BY <1>3, <3>1 DEF Cron!SomebodyEdits, Cron!Note
      <3>3. CASE tab' = <<f>> \o tab
        BY <1>0, <3>1, <3>3
      <3>4. CASE tab' = Append(tab, 0)
        BY <1>0, <3>4, CronTopIs, AppendProperties
      <3>5. CASE \E n \in DOMAIN tab : tab' = Cron!Dropped(tab, n)
        <4>1. PICK n \in 1..Len(tab) : tab' = Cron!Dropped(tab, n)
          BY <1>0, <3>5
        <4> QED
          BY <1>0, <4>1, DropsLine
      <3> QED
        BY <3>2, <3>3, <3>4, <3>5
    <2>3. /\ cron' \in CronReqs /\ cron'.do = cron.do
          /\ cron = Cron!Free => cron'.do = "none"
          /\ cron # Cron!Free => cron'.raced = TRUE /\ cron' # Cron!Free
      <3>1. CASE cron = Cron!Free
        BY <2>1, <3>1, CronFreeIs
      <3>2. CASE cron # Cron!Free
        <4>1. cron' = [cron EXCEPT !.raced = TRUE]
          BY <2>1, <3>2
        <4>2. cron' \in CronReqs /\ cron'.do = cron.do /\ cron'.raced = TRUE
          BY <1>0, <4>1 DEF CronReqs
        <4> QED
          BY <3>2, <4>2, CronFreeIs
      <3> QED
        BY <3>1, <3>2
    <2>4. /\ cronCount' \in [edits: 0..MaxEdits, outside: 0..MaxCrontabEdits, fresh: Nat]
          /\ cronCount'.fresh >= 3
          /\ cronCount'.fresh + (IF cron'.do = "none" THEN 0 ELSE 1) <= 3 + cronCount'.edits + cronCount'.outside
      <3>1. /\ cronCount \in [edits: 0..MaxEdits, outside: 0..MaxCrontabEdits, fresh: Nat]
            /\ cronCount.fresh >= 3
        BY DEF CronInv
      <3>2. PICK k \in {0, 1} : /\ k = (IF cron.do = "none" THEN 0 ELSE 1)
                                /\ cronCount.fresh + k <= 3 + cronCount.edits + cronCount.outside
        BY DEF CronInv
      <3>3. PICK o, f : o = cronCount.outside + 1 /\ f = cronCount.fresh + 1
        OBVIOUS
      <3>4. o \in 0..MaxCrontabEdits /\ f \in Nat
        BY <2>1, <3>1, <3>3, CronTopIs
      <3>5. cronCount = [edits |-> cronCount.edits, outside |-> cronCount.outside, fresh |-> cronCount.fresh]
        BY <3>1
      <3>6. cronCount' = [edits |-> cronCount.edits, outside |-> o, fresh |-> f]
        BY <2>1, <3>3, <3>5
      <3>7. /\ cronCount' \in [edits: 0..MaxEdits, outside: 0..MaxCrontabEdits, fresh: Nat]
            /\ cronCount'.fresh = f /\ cronCount'.edits = cronCount.edits /\ cronCount'.outside = o
        BY <3>1, <3>4, <3>6
      <3>8. f >= 3 /\ f + k <= 3 + cronCount.edits + o
        BY <3>1, <3>2, <3>3
      <3> QED
        BY <2>3, <3>2, <3>7, <3>8
    <2>5. CronInv'
      BY <2>1, <2>2, <2>3, <2>4 DEF CronInv
    <2>6. CronKeeps
      BY <2>3, Zenon DEF CronKeeps
    <2> QED
      BY <2>5, <2>6
  <1> QED
    BY <1>1, <1>2, <1>3

\* Every step of the crontab keeps the invariant and what others wrote.
LEMMA CronStep == CronInv /\ Cron!Next => CronInv' /\ CronKeeps
  BY CronEdits, CronLoads, CronOthers DEF Cron!Next

\* What the other parts of the server leave alone.
LEMMA CronStutters == CronInv /\ UNCHANGED cronVars => CronInv'
  BY DEF CronInv, cronVars

-----------------------------------------------------------------------------
(* One file (FileManager).                                                 *)

FileSources == Sources \cup {"nobody"}
FileBlocks == [src: FileSources, off: Nat]
FileRecs == [id: Nat, by: {"nobody", "edit", "upload", "other"}, data: Seq(FileBlocks)]
FileWindows == [at: {"closed", "half", "open"}, first: Nat, ver: Nat, forced: BOOLEAN]
FileReqs == [src: FileSources, off: 0..(Chunks - 1), over: BOOLEAN, n: Nat]
FileClients == [at: {"idle", "wait", "done", "failed"}, src: FileSources, off: 0..(Chunks - 1), over: BOOLEAN, n: Nat]
FileCounts == [uploads: Nat, saves: Nat, other: Nat]

FileTyped ==
    /\ file \in FileRecs /\ ids \in Nat /\ file.id <= ids
    /\ part \in [there: BOOLEAN, data: Seq(FileBlocks)]
    /\ editors \in [Editors -> FileWindows] /\ \A e \in Editors : editors[e].ver <= ids
    /\ saving \in Editors \cup {"nobody"} /\ IsBool(moving)
    /\ client \in FileClients /\ wire \subseteq FileReqs /\ ending \subseteq wire
    /\ fileCount \in FileCounts

\* The part holds its chunks in order, all of them only while it waits for its
\* rename, and so does what an upload left.
InOrder(data) == \A k \in 1..Len(data) : data[k].off = k - 1
FileParts ==
    /\ InOrder(part.data)
    /\ IF ending = {} THEN Len(part.data) < Chunks ELSE Len(part.data) = Chunks
    /\ file.by = "upload" => Len(file.data) = Chunks /\ InOrder(file.data)

\* The window that saves has the version that is there, unless that is not a
\* window's.
FileSaving ==
    saving # "nobody" => editors[saving].at = "open" /\ (file.by = "edit" => file.id = editors[saving].ver)

FileInv == FileTyped /\ FileParts /\ FileSaving

\* What EditKept says of one step.
FileKeeps == saving # File!Nobody /\ saving' = File!Nobody /\ file.by = "edit" => editors[saving].ver = file.id

\* It follows from the invariant.
LEMMA FileKeptBy == FileInv => FileKeeps
  BY DEF FileInv, FileSaving, FileKeeps, File!Nobody

\* At the start.
LEMMA FileStarts == File!Init => FileInv
  <1> SUFFICES ASSUME File!Init PROVE FileInv
    OBVIOUS
  <1>1. <<>> \in Seq(FileBlocks) /\ Len(<<>>) = 0 /\ Chunks \in Nat /\ Chunks > 0 /\ 0 \in 0..(Chunks - 1)
    BY HostAssumption, EmptySeq
  <1>2. file \in FileRecs /\ file.by # "upload" /\ file.id <= 1
    <2>1. \E i \in {0, 1}, b \in {"nobody", "other"} : file = [id |-> i, by |-> b, data |-> <<>>]
      BY DEF File!Init, File!NoFile
    <2>2. PICK i \in {0, 1}, b \in {"nobody", "other"} : file = [id |-> i, by |-> b, data |-> <<>>]
      BY <2>1
    <2> QED
      BY <1>1, <2>2 DEF FileRecs
  <1>3. editors \in [Editors -> FileWindows] /\ \A e \in Editors : editors[e].ver = 0
    BY DEF File!Init, File!Closed, FileWindows
  <1>4. client \in FileClients /\ wire = {} /\ ending = {} /\ saving = "nobody" /\ moving = FALSE /\ ids = 1
    BY <1>1 DEF File!Init, File!Resting, File!Nobody, FileClients, FileSources
  <1>5. part = [there |-> FALSE, data |-> <<>>] /\ fileCount = [uploads |-> 0, saves |-> 0, other |-> 0]
    BY DEF File!Init, File!NoPart
  <1>6. FileTyped
    <2>1. part \in [there: BOOLEAN, data: Seq(FileBlocks)] /\ fileCount \in FileCounts
      BY <1>1, <1>5 DEF FileCounts
    <2> QED
      BY <1>2, <1>3, <1>4, <2>1 DEF FileTyped, IsBool
  <1>7. FileParts
    BY <1>1, <1>2, <1>4, <1>5 DEF FileParts, InOrder
  <1> QED
    BY <1>4, <1>6, <1>7 DEF FileInv, FileSaving

\* The path becomes a new version; nobody's save but the one that ends has seen it.
LEMMA FileBecomes ==
    ASSUME FileInv, NEW by \in {"edit", "upload", "other"}, NEW data \in Seq(FileBlocks), File!Becomes(by, data)
    PROVE  file' \in FileRecs /\ ids' \in Nat /\ ids' = ids + 1 /\ file'.id = ids' /\ file'.by = by /\ file'.data = data
  <1>1. ids \in Nat
    BY DEF FileInv, FileTyped
  <1>2. PICK i : i = ids + 1 /\ i \in Nat
    BY <1>1
  <1>3. file' = [id |-> i, by |-> by, data |-> data] /\ ids' = i
    BY <1>2 DEF File!Becomes
  <1> QED
    BY <1>2, <1>3 DEF FileRecs

\* A chunk at the end of what is there.
LEMMA WriteIs ==
    ASSUME NEW data \in Seq(FileBlocks), InOrder(data), NEW r \in FileReqs, r.off = Len(data)
    PROVE  /\ File!WriteAt(data, r) \in Seq(FileBlocks)
           /\ Len(File!WriteAt(data, r)) = r.off + 1 /\ InOrder(File!WriteAt(data, r))
  <1>1. PICK o \in Nat : o = r.off /\ o = Len(data) /\ Chunks \in Nat /\ r.src \in FileSources
    BY HostAssumption DEF FileReqs
  <1>2. PICK e, z : e = [src |-> r.src, off |-> o] /\ z = [src |-> "nobody", off |-> Chunks]
    OBVIOUS
  <1>3. PICK w : w = [k \in 1..(o + 1) |-> IF k = o + 1 THEN e ELSE IF k <= o THEN data[k] ELSE z]
    OBVIOUS
  <1>4. File!WriteAt(data, r) = w
    <2>1. File!WriteAt(data, r) = [k \in 1..(IF o > o THEN o ELSE o + 1) |-> IF k = o + 1 THEN e ELSE IF k <= o THEN data[k] ELSE z]
      BY <1>1, <1>2 DEF File!WriteAt, File!Nobody
    <2>2. (IF o > o THEN o ELSE o + 1) = o + 1
      BY <1>1
    <2> QED
      BY <1>3, <2>1, <2>2
  <1>5. e \in FileBlocks /\ e.off = o
    BY <1>1, <1>2 DEF FileBlocks
  <1>6. \A k \in 1..(o + 1) : w[k] = (IF k = o + 1 THEN e ELSE data[k]) /\ (k # o + 1 => k \in 1..o)
    BY <1>1, <1>3
  <1>7. \A k \in 1..(o + 1) : w[k] \in FileBlocks /\ w[k].off = k - 1
    <2> TAKE k \in 1..(o + 1)
    <2>1. CASE k = o + 1
      BY <1>5, <1>6, <2>1
    <2>2. CASE k # o + 1
      <3>1. k \in 1..o /\ w[k] = data[k]
        BY <1>6, <2>2
      <3> QED
        BY <1>1, <3>1 DEF InOrder
    <2> QED
      BY <2>1, <2>2
  <1>8. w \in [1..(o + 1) -> FileBlocks] /\ o + 1 \in Nat
    BY <1>3, <1>7
  <1>9. w \in Seq(FileBlocks) /\ Len(w) = o + 1
    BY <1>8
  <1> QED
    BY <1>1, <1>4, <1>7, <1>9 DEF InOrder

\* An answer leaves the requests what they are; r may be gone.
LEMMA AnsweredIs ==
    ASSUME FileTyped, NEW r \in wire, NEW ok \in BOOLEAN, NEW got \in 0..Chunks, File!Answered(r, ok, got),
           ok = FALSE \/ got # Chunks => got \in 0..(Chunks - 1)
    PROVE  client' \in FileClients /\ wire' \subseteq FileReqs /\ wire \ {r} \subseteq wire'
  <1>1. client \in FileClients /\ wire \subseteq FileReqs
    BY DEF FileTyped
  <1>2. CASE client' = client /\ wire' = wire \ {r}
    BY <1>1, <1>2
  <1>3. CASE \E a \in {"done", "failed"} : client' = [client EXCEPT !.at = a] /\ wire' = wire \ {r}
    BY <1>1, <1>3 DEF FileClients
  <1>4. CASE /\ ~(ok = TRUE /\ got = Chunks) /\ client' = [client EXCEPT !.off = got]
             /\ wire' = (wire \ {r}) \cup {File!Request([client EXCEPT !.off = got])}
    <2>1. got \in 0..(Chunks - 1)
      BY <1>4
    <2>2. [client EXCEPT !.off = got] \in FileClients
      BY <1>1, <2>1 DEF FileClients
    <2>3. \A c \in FileClients : File!Request(c) \in FileReqs
      BY DEF FileClients, FileReqs, File!Request
    <2> QED
      BY <1>1, <1>4, <2>2, <2>3
  <1> QED
    <2>1. \/ client' = client /\ wire' = wire \ {r}
          \/ IF ok /\ got = Chunks THEN client' = [client EXCEPT !.at = "done"] /\ wire' = wire \ {r}
             ELSE IF ok \/ got > 0
             THEN client' = [client EXCEPT !.off = got]
                  /\ wire' = (wire \ {r}) \cup {File!Request([client EXCEPT !.off = got])}
             ELSE client' = [client EXCEPT !.at = "failed"] /\ wire' = wire \ {r}
      BY DEF File!Answered
    <2>2. CASE ok = TRUE
      BY <1>2, <1>3, <1>4, <2>1, <2>2
    <2>3. CASE ok = FALSE
      BY <1>2, <1>3, <1>4, <2>1, <2>3
    <2> QED
      BY <2>2, <2>3

\* The windows: reading changes no version and no window that saves.
LEMMA FileReads ==
    ASSUME FileInv, NEW e \in Editors, File!ReadFirst(e) \/ File!ReadLast(e)
    PROVE  FileInv'
  <1>1. /\ UNCHANGED <<file, saving, moving, part, client, wire, ending, ids, fileCount>>
        /\ editors[e].at # "open"
    BY DEF File!ReadFirst, File!ReadLast, File!uploading, File!Closed
  <1>2. PICK w \in FileWindows : w.ver <= ids /\ editors' = [editors EXCEPT ![e] = w]
    <2>1. file.id \in Nat /\ ids \in Nat /\ file.id <= ids /\ editors[e] \in FileWindows
      BY DEF FileInv, FileTyped, FileRecs
    <2>2. CASE File!ReadFirst(e)
      <3>1. PICK a \in {"open", "half"}, f \in Nat :
                /\ f = file.id
                /\ editors' = [editors EXCEPT ![e] = [File!Closed EXCEPT !.at = a, !.first = f]]
        BY <2>1, <2>2 DEF File!ReadFirst
      <3>2. PICK c \in FileWindows : c = File!Closed /\ c.ver = 0
        <4>1. File!Closed \in FileWindows /\ File!Closed.ver = 0
          BY DEF FileWindows, File!Closed
        <4> QED
          BY <4>1
      <3>3. [c EXCEPT !.at = a, !.first = f] \in FileWindows /\ [c EXCEPT !.at = a, !.first = f].ver = 0
        BY <3>2 DEF FileWindows
      <3>4. 0 <= ids /\ editors' = [editors EXCEPT ![e] = [c EXCEPT !.at = a, !.first = f]]
        BY <2>1, <3>1, <3>2
      <3> QED
        BY <3>3, <3>4
    <2>3. CASE File!ReadLast(e)
      <3>1. File!Closed \in FileWindows /\ File!Closed.ver <= ids
        BY <2>1 DEF FileWindows, File!Closed
      <3>2. [editors[e] EXCEPT !.at = "open", !.ver = file.id] \in FileWindows
            /\ [editors[e] EXCEPT !.at = "open", !.ver = file.id].ver <= ids
        BY <2>1 DEF FileWindows
      <3> QED
        BY <2>3, <3>1, <3>2 DEF File!ReadLast
    <2> QED
      BY <2>2, <2>3
  <1>3. editors' \in [Editors -> FileWindows] /\ \A d \in Editors : editors'[d].ver <= ids
    BY <1>2 DEF FileInv, FileTyped
  <1>4. FileTyped' /\ FileParts'
    BY <1>1, <1>3 DEF FileInv, FileTyped, FileParts, InOrder, IsBool
  <1>5. FileSaving'
    <2>1. saving # "nobody" => saving \in Editors /\ saving # e
      BY <1>1 DEF FileInv, FileTyped, FileSaving
    <2>2. saving # "nobody" => editors'[saving] = editors[saving]
      BY <1>2, <2>1 DEF FileInv, FileTyped
    <2> QED
      BY <1>1, <2>2 DEF FileInv, FileSaving
  <1> QED
    BY <1>4, <1>5 DEF FileInv

\* A save passes its check, or its window is told of the conflict.
LEMMA FileChecks ==
    ASSUME FileInv, NEW e \in Editors, File!WriteChecks(e)
    PROVE  FileInv'
  <1>1. /\ UNCHANGED <<file, moving, part, client, wire, ending, ids, fileCount>>
        /\ saving = "nobody" /\ editors[e].at = "open"
    BY DEF File!WriteChecks, File!uploading, File!Nobody
  <1>2. CASE File!SameVersion(e) /\ saving' = e /\ editors' = editors
    <2>1. FileTyped' /\ FileParts'
      BY <1>1, <1>2 DEF FileInv, FileTyped, FileParts, InOrder, IsBool
    <2>2. FileSaving'
      BY <1>1, <1>2 DEF FileSaving, File!SameVersion
    <2> QED
      BY <2>1, <2>2 DEF FileInv
  <1>3. CASE saving' = saving /\ editors' \in {[editors EXCEPT ![e] = File!Closed],
                       [editors EXCEPT ![e] = [editors[e] EXCEPT !.ver = file.id, !.forced = TRUE]]}
    <2>1. file.id \in Nat /\ ids \in Nat /\ file.id <= ids /\ editors[e] \in FileWindows
      BY DEF FileInv, FileTyped, FileRecs
    <2>2. File!Closed \in FileWindows /\ File!Closed.ver <= ids
      BY <2>1 DEF FileWindows, File!Closed
    <2>3. [editors[e] EXCEPT !.ver = file.id, !.forced = TRUE] \in FileWindows
          /\ [editors[e] EXCEPT !.ver = file.id, !.forced = TRUE].ver <= ids
      BY <2>1 DEF FileWindows
    <2>4. PICK w \in FileWindows : w.ver <= ids /\ editors' = [editors EXCEPT ![e] = w]
      BY <1>3, <2>2, <2>3
    <2>5. editors' \in [Editors -> FileWindows] /\ \A d \in Editors : editors'[d].ver <= ids
      BY <2>4 DEF FileInv, FileTyped
    <2>6. FileTyped' /\ FileParts'
      BY <1>1, <1>3, <2>5 DEF FileInv, FileTyped, FileParts, InOrder, IsBool
    <2> QED
      BY <1>1, <1>3, <2>6 DEF FileInv, FileSaving
  <1> QED
    BY <1>2, <1>3 DEF File!WriteChecks

\* A save ends: the window has what it wrote.
LEMMA FileSaves ==
    ASSUME FileInv, NEW e \in Editors, File!WriteRenames(e)
    PROVE  FileInv'
  <1>1. /\ UNCHANGED <<moving, part, client, wire, ending>> /\ saving' = "nobody" /\ File!Becomes("edit", <<>>)
        /\ File!Counts("saves")
    BY DEF File!WriteRenames, File!uploading, File!Nobody
  <1>2. <<>> \in Seq(FileBlocks)
    BY EmptySeq
  <1>3. file' \in FileRecs /\ ids' \in Nat /\ ids' = ids + 1 /\ file'.id = ids' /\ file'.by = "edit"
    BY <1>1, <1>2, FileBecomes
  <1>4. PICK i \in Nat : i = ids + 1 /\ editors' = [editors EXCEPT ![e] = [editors[e] EXCEPT !.first = i, !.ver = i, !.forced = FALSE]]
    BY <1>3 DEF File!WriteRenames
  <1>5. ids \in Nat /\ editors \in [Editors -> FileWindows] /\ \A d \in Editors : editors[d].ver <= ids
    BY DEF FileInv, FileTyped
  <1>6. [editors[e] EXCEPT !.first = i, !.ver = i, !.forced = FALSE] \in FileWindows
        /\ [editors[e] EXCEPT !.first = i, !.ver = i, !.forced = FALSE].ver = i
    BY <1>4, <1>5 DEF FileWindows
  <1>7. editors' \in [Editors -> FileWindows] /\ \A d \in Editors : editors'[d].ver <= ids'
    <2>1. \A d \in Editors : editors[d].ver \in Nat /\ editors[d].ver <= i
      BY <1>4, <1>5 DEF FileWindows
    <2> QED
      BY <1>3, <1>4, <1>5, <1>6, <2>1
  <1>8. fileCount' \in FileCounts
    BY <1>1 DEF File!Counts, FileCounts, FileInv, FileTyped
  <1>9. FileTyped'
    BY <1>1, <1>3, <1>7, <1>8 DEF FileInv, FileTyped, IsBool
  <1>10. FileParts'
    BY <1>1, <1>3 DEF FileInv, FileParts, InOrder
  <1> QED
    BY <1>1, <1>9, <1>10 DEF FileInv, FileSaving

\* Moves, deletions and the shell: what they leave is no window's.
LEMMA FileMoves ==
    ASSUME FileInv, \/ File!Delete \/ File!Renames \/ File!SomebodyWrites
                    \/ \E over \in BOOLEAN : File!RenameChecks(over)
    PROVE  FileInv'
  <1>1. <<>> \in Seq(FileBlocks)
    BY EmptySeq
  <1>2. UNCHANGED <<editors, saving, part, client, wire, ending>>
    BY DEF File!Delete, File!Renames, File!SomebodyWrites, File!RenameChecks, File!uploading
  <1>3. IsBool(moving)'
    BY DEF File!Delete, File!Renames, File!SomebodyWrites, File!RenameChecks, IsBool, FileInv, FileTyped
  <1>4. fileCount' \in FileCounts
    <2>1. fileCount' = fileCount \/ File!Counts("other")
      BY DEF File!Delete, File!Renames, File!SomebodyWrites, File!RenameChecks
    <2> QED
      BY <2>1 DEF File!Counts, FileCounts, FileInv, FileTyped
  <1>5. /\ file' \in FileRecs /\ ids' \in Nat /\ ids <= ids' /\ file'.id <= ids'
        /\ \/ file' = file
           \/ file'.by \in {"nobody", "other"}
    <2>1. file \in FileRecs /\ ids \in Nat /\ file.id <= ids
      BY DEF FileInv, FileTyped
    <2>2. CASE File!Becomes("other", <<>>)
      <3>1. file' \in FileRecs /\ ids' \in Nat /\ ids' = ids + 1 /\ file'.id = ids' /\ file'.by = "other"
        BY <1>1, <2>2, FileBecomes
      <3> QED
        BY <2>1, <3>1
    <2>3. CASE ids' = ids /\ file' = file
      BY <2>1, <2>3
    <2>4. CASE ids' = ids /\ file' = File!NoFile
      <3>1. File!NoFile \in FileRecs /\ File!NoFile.id = 0 /\ File!NoFile.by = "nobody"
        BY <1>1 DEF File!NoFile, FileRecs
      <3> QED
        BY <2>1, <2>4, <3>1
    <2> QED
      BY <2>2, <2>3, <2>4 DEF File!Delete, File!Renames, File!SomebodyWrites, File!RenameChecks
  <1>6. \A e \in Editors : editors'[e].ver <= ids'
    <2>1. \A e \in Editors : editors[e].ver \in Nat /\ editors[e].ver <= ids
      BY DEF FileInv, FileTyped, FileWindows
    <2>2. ids \in Nat
      BY DEF FileInv, FileTyped
    <2> QED
      BY <1>2, <1>5, <2>1, <2>2
  <1>7. FileTyped'
    BY <1>2, <1>3, <1>4, <1>5, <1>6 DEF FileInv, FileTyped
  <1>8. FileParts'
    BY <1>2, <1>5 DEF FileInv, FileParts, InOrder
  <1>9. FileSaving'
    BY <1>2, <1>5 DEF FileInv, FileSaving
  <1> QED
    BY <1>7, <1>8, <1>9 DEF FileInv

\* An upload begins, is given up, or loses a chunk.
LEMMA FileSends ==
    ASSUME FileInv, \/ \E src \in Sources, over \in BOOLEAN : File!UploadBegins(src, over)
                    \/ \E r \in wire : File!Lost(r)
                    \/ File!GivesUp
    PROVE  FileInv'
  <1>1. UNCHANGED <<file, part, editors, saving, moving, ending, ids>>
    BY DEF File!UploadBegins, File!Lost, File!GivesUp
  <1>2. client \in FileClients /\ wire \subseteq FileReqs /\ ending \subseteq wire /\ fileCount \in FileCounts
    BY DEF FileInv, FileTyped
  <1>3. client' \in FileClients /\ wire' \subseteq FileReqs /\ ending \subseteq wire' /\ fileCount' \in FileCounts
    <2>1. CASE \E src \in Sources, over \in BOOLEAN : File!UploadBegins(src, over)
      <3>1. PICK src \in Sources, over \in BOOLEAN : File!UploadBegins(src, over)
        BY <2>1
      <3>2. PICK n \in Nat : n = fileCount.uploads + 1
        BY <1>2 DEF FileCounts
      <3>3. PICK d \in FileClients : d = File!Resting
        <4>1. 0 \in 0..(Chunks - 1)
          BY HostAssumption
        <4>2. File!Resting \in FileClients
          BY <4>1 DEF File!Resting, File!Nobody, FileClients, FileSources
        <4> QED
          BY <4>2
      <3>4. PICK c \in FileClients : c = [d EXCEPT !.src = src, !.over = over, !.n = n]
        BY <3>3 DEF FileClients, FileSources
      <3>5. [File!Resting EXCEPT !.src = src, !.over = over, !.n = fileCount.uploads + 1] = c
        BY <3>2, <3>3, <3>4
      <3>6. File!Sends(c) /\ File!Counts("uploads")
        BY <3>1, <3>5 DEF File!UploadBegins
      <3>7. File!Request(c) \in FileReqs /\ [c EXCEPT !.at = "wait"] \in FileClients
        BY <3>4 DEF File!Request, FileReqs, FileClients
      <3>8. fileCount' \in FileCounts
        BY <1>2, <3>6 DEF File!Counts, FileCounts
      <3> QED
        BY <1>2, <3>6, <3>7, <3>8 DEF File!Sends
    <2>2. CASE \E r \in wire : File!Lost(r)
      BY <1>2, <2>2 DEF File!Lost
    <2>3. CASE File!GivesUp
      <3>1. [client EXCEPT !.at = "failed"] \in FileClients
        BY <1>2 DEF FileClients
      <3> QED
        BY <1>2, <2>3, <3>1 DEF File!GivesUp
    <2> QED
      BY <2>1, <2>2, <2>3
  <1>4. FileTyped'
    BY <1>1, <1>3 DEF FileInv, FileTyped, IsBool
  <1>5. FileParts' /\ FileSaving'
    BY <1>1 DEF FileInv, FileParts, FileSaving, InOrder
  <1> QED
    BY <1>4, <1>5 DEF FileInv

\* A chunk arrives: it is refused, or it goes where the part ends.
LEMMA FileTakes ==
    ASSUME FileInv, NEW r \in wire, File!Upload(r)
    PROVE  FileInv'
  <1>1. ending = {} /\ UNCHANGED <<file, editors, saving, moving, ids, fileCount>>
    BY DEF File!Upload
  <1>2. FileTyped /\ wire \subseteq FileReqs /\ r \in FileReqs /\ part \in [there: BOOLEAN, data: Seq(FileBlocks)]
        /\ client \in FileClients
    BY DEF FileInv, FileTyped
  <1>3. InOrder(part.data) /\ Len(part.data) < Chunks /\ part.data \in Seq(FileBlocks)
    BY <1>1, <1>2 DEF FileInv, FileParts
  <1>4. PICK o \in 0..(Chunks - 1) : o = r.off /\ Chunks \in Nat /\ Chunks > 0
    BY <1>2, HostAssumption DEF FileReqs
  <1>5. /\ client' \in FileClients /\ wire' \subseteq FileReqs /\ ending' \subseteq wire'
        /\ part' \in [there: BOOLEAN, data: Seq(FileBlocks)] /\ InOrder(part'.data)
        /\ IF ending' = {} THEN Len(part'.data) < Chunks ELSE Len(part'.data) = Chunks
    <2>1. CASE File!Refused(r)
      <3>1. File!Answered(r, FALSE, 0) /\ part' = part /\ ending' = ending
        BY <2>1 DEF File!Refused
      <3>2. client' \in FileClients /\ wire' \subseteq FileReqs
        <4>1. 0 \in 0..(Chunks - 1) /\ 0 \in 0..Chunks
          BY <1>4
        <4> QED
          BY <1>2, <3>1, <4>1, AnsweredIs
      <3> QED
        BY <1>1, <1>2, <1>3, <3>1, <3>2
    <2>2. CASE File!Takes(r)
      <3>1. PICK data : data = (IF r.off = 0 THEN <<>> ELSE part.data)
        OBVIOUS
      <3>2. data \in Seq(FileBlocks) /\ InOrder(data) /\ Len(data) < Chunks
        <4>1. <<>> \in Seq(FileBlocks) /\ Len(<<>>) = 0 /\ InOrder(<<>>)
          BY EmptySeq DEF InOrder
        <4> QED
          BY <1>3, <1>4, <3>1, <4>1
      <3>3. IF r.off = Len(data)
            THEN /\ part' = [there |-> TRUE, data |-> File!WriteAt(data, r)]
                 /\ IF r.off + 1 = Chunks THEN ending' = {r} /\ UNCHANGED <<client, wire>>
                    ELSE File!Answered(r, TRUE, r.off + 1) /\ UNCHANGED ending
            ELSE /\ part' = [there |-> TRUE, data |-> data]
                 /\ File!Answered(r, FALSE, Len(data)) /\ UNCHANGED ending
        BY <2>2, <3>1 DEF File!Takes, File!AtTheEnd
      <3>4. CASE r.off = Len(data)
        <4>1. PICK w : w = File!WriteAt(data, r)
          OBVIOUS
        <4>2. w \in Seq(FileBlocks) /\ Len(w) = o + 1 /\ InOrder(w)
          BY <1>2, <1>4, <3>2, <3>4, <4>1, WriteIs
        <4>3. part' = [there |-> TRUE, data |-> w]
          BY <3>3, <3>4, <4>1
        <4>4. part' \in [there: BOOLEAN, data: Seq(FileBlocks)] /\ InOrder(part'.data) /\ Len(part'.data) = o + 1
          BY <4>2, <4>3
        <4>5. CASE o + 1 = Chunks
          <5>1. ending' = {r} /\ client' = client /\ wire' = wire
            BY <1>4, <3>3, <3>4, <4>5
          <5> QED
            BY <1>2, <4>4, <4>5, <5>1
        <4>6. CASE o + 1 # Chunks
          <5>1. File!Answered(r, TRUE, o + 1) /\ ending' = ending
            BY <1>4, <3>3, <3>4, <4>6
          <5>2. o + 1 \in 0..(Chunks - 1) /\ o + 1 \in 0..Chunks
            BY <1>4, <4>6
          <5>3. client' \in FileClients /\ wire' \subseteq FileReqs
            BY <1>2, <5>1, <5>2, AnsweredIs
          <5>4. o + 1 < Chunks
            BY <1>4, <5>2
          <5> QED
            BY <1>1, <4>4, <5>1, <5>3, <5>4
        <4> QED
          BY <4>5, <4>6
      <3>5. CASE r.off # Len(data)
        <4>1. PICK l \in Nat : l = Len(data)
          BY <3>2
        <4>2. l \in 0..(Chunks - 1) /\ l \in 0..Chunks
          BY <1>4, <3>2, <4>1
        <4>3. File!Answered(r, FALSE, l) /\ ending' = ending /\ part' = [there |-> TRUE, data |-> data]
          BY <3>3, <3>5, <4>1
        <4>4. client' \in FileClients /\ wire' \subseteq FileReqs
          BY <1>2, <4>2, <4>3, AnsweredIs
        <4> QED
          BY <1>1, <3>2, <4>3, <4>4
      <3> QED
        BY <3>4, <3>5
    <2> QED
      BY <2>1, <2>2 DEF File!Upload
  <1>6. FileTyped'
    BY <1>1, <1>5 DEF FileInv, FileTyped, IsBool
  <1>7. FileParts' /\ FileSaving'
    BY <1>1, <1>5 DEF FileInv, FileParts, FileSaving, InOrder
  <1> QED
    BY <1>6, <1>7 DEF FileInv

\* The part becomes the file.
LEMMA FileLands ==
    ASSUME FileInv, NEW r \in wire, File!UploadRenames(r)
    PROVE  FileInv'
  <1>1. /\ UNCHANGED <<editors, saving, moving, fileCount>> /\ ending = {r} /\ ending' = {}
        /\ File!Becomes("upload", part.data) /\ File!Answered(r, TRUE, Chunks) /\ part' = [there |-> FALSE, data |-> <<>>]
    BY DEF File!UploadRenames, File!NoPart
  <1>2. <<>> \in Seq(FileBlocks) /\ Len(<<>>) = 0 /\ Chunks \in Nat /\ Chunks > 0 /\ Chunks \in 0..Chunks
    BY HostAssumption, EmptySeq
  <1>3. FileTyped /\ part.data \in Seq(FileBlocks) /\ InOrder(part.data) /\ Len(part.data) = Chunks /\ ids \in Nat
    BY <1>1 DEF FileInv, FileTyped, FileParts
  <1>4. file' \in FileRecs /\ ids' \in Nat /\ ids' = ids + 1 /\ file'.id = ids' /\ file'.by = "upload" /\ file'.data = part.data
    BY <1>1, <1>3, FileBecomes
  <1>5. client' \in FileClients /\ wire' \subseteq FileReqs
    BY <1>1, <1>2, <1>3, AnsweredIs
  <1>6. part' \in [there: BOOLEAN, data: Seq(FileBlocks)] /\ InOrder(part'.data) /\ Len(part'.data) < Chunks
    BY <1>1, <1>2 DEF InOrder
  <1>7. \A e \in Editors : editors'[e].ver <= ids'
    <2>1. \A e \in Editors : editors[e].ver \in Nat /\ editors[e].ver <= ids
      BY DEF FileInv, FileTyped, FileWindows
    <2> QED
      BY <1>1, <1>3, <1>4, <2>1
  <1>8. file'.id <= ids' /\ ending' \subseteq wire'
    BY <1>1, <1>4
  <1>9. FileTyped'
    BY <1>1, <1>4, <1>5, <1>6, <1>7, <1>8 DEF FileInv, FileTyped, IsBool
  <1>10. FileParts'
    BY <1>1, <1>3, <1>4, <1>6 DEF FileParts, InOrder
  <1> QED
    BY <1>1, <1>4, <1>9, <1>10 DEF FileInv, FileSaving

\* Every step of the file explorer.
LEMMA FileStep == FileInv /\ File!Next => FileInv'
  BY FileReads, FileChecks, FileSaves, FileMoves, FileSends, FileTakes, FileLands DEF File!Next

\* What the other parts of the server leave alone.
LEMMA FileStutters == FileInv /\ UNCHANGED fileVars => FileInv'
  BY DEF FileInv, FileTyped, FileParts, FileSaving, InOrder, IsBool, fileVars

-----------------------------------------------------------------------------

\* However reads, saves, uploads, moves and the shell interleave, and whichever
\* chunks are late, lost or sent again: an upload that landed is complete and in
\* order, and a save replaces no other window's unseen (Write, Upload); an edit
\* of the crontab that nobody raced touches one entry and no comment
\* (CronUpdate, CronDelete).
THEOREM HostEditsKept == HostSpec => EditsKept
  <1> DEFINE hostVars == <<focus, jobVars, pluginVars, fwVars, siteVars, updateVars, fileVars, cronVars, unitVars>>
             Inv == FileInv /\ CronInv
             Lands == (focus = "files" => File!TypeOK /\ File!UploadWhole) /\ (focus = "cron" => Cron!TypeOK)
             P == FileKeeps
             Q == CronKeeps
  <1>1. HostInit => Inv
    BY FileStarts, CronStarts DEF HostInit
  <1>2. Inv /\ [HostNext]_hostVars => Inv'
    <2> SUFFICES ASSUME FileInv, CronInv, [HostNext]_hostVars PROVE FileInv' /\ CronInv'
      OBVIOUS
    <2>1. /\ File!Next \/ UNCHANGED fileVars
          /\ Cron!Next \/ UNCHANGED cronVars
      BY DEF HostNext
    <2> QED
      BY <2>1, FileStep, FileStutters, CronStep, CronStutters
  <1>3. Inv => Lands
    <2> SUFFICES ASSUME FileInv, CronInv PROVE File!TypeOK /\ File!UploadWhole /\ Cron!TypeOK
      OBVIOUS
    <2>1. File!UploadWhole
      <3>1. file.data \in Seq(FileBlocks)
        BY DEF FileInv, FileTyped, FileRecs
      <3>2. DOMAIN file.data = 1..Len(file.data)
        BY <3>1
      <3> QED
        BY <3>2 DEF FileInv, FileParts, InOrder, File!UploadWhole
    <2>2. File!TypeOK
      <3>1. moving \in BOOLEAN
        BY Booleans DEF FileInv, FileTyped
      <3>2. file.id \in 0..ids /\ file.by \in {"nobody", "edit", "upload", "other"}
        BY DEF FileInv, FileTyped, FileRecs
      <3>3. \A e \in Editors : editors[e].at \in {"closed", "half", "open"} /\ editors[e].ver \in 0..ids
        BY DEF FileInv, FileTyped, FileWindows
      <3>4. client.at \in {"idle", "wait", "done", "failed"} /\ client.off \in 0..Chunks
        BY HostAssumption DEF FileInv, FileTyped, FileClients
      <3>5. Len(part.data) <= Chunks
        <4>1. part.data \in Seq(FileBlocks) /\ Len(part.data) \in Nat /\ Chunks \in Nat
          BY HostAssumption DEF FileInv, FileTyped
        <4> QED
          BY <4>1 DEF FileInv, FileParts
      <3> QED
        BY <3>1, <3>2, <3>3, <3>4, <3>5 DEF FileInv, FileTyped, File!TypeOK, File!Nobody
    <2>3. Cron!TypeOK
      <3>1. \A n \in DOMAIN tab : tab[n] \in CronLines
        BY DEF CronInv
      <3>2. \A n \in DOMAIN seen : seen[n] # Cron!Note
        BY DEF CronInv, Cron!Note
      <3>3. cron.do \in {"none", "create", "update", "delete"} /\ cron.raced \in BOOLEAN
        BY DEF CronInv, CronReqs
      <3> QED
        BY <3>1, <3>2, <3>3, CronTopIs DEF Cron!TypeOK
    <2> QED
      BY <2>1, <2>2, <2>3
  <1>4. Inv /\ [HostNext]_hostVars => [P]_(File!fileVars)
    BY FileKeptBy
  <1>5. Inv /\ [HostNext]_hostVars => [Q]_(Cron!cronVars)
    <2> SUFFICES ASSUME CronInv, [HostNext]_hostVars PROVE [Q]_(Cron!cronVars)
      OBVIOUS
    <2>1. CASE UNCHANGED cronVars
      BY <2>1 DEF Cron!cronVars, cronVars
    <2>2. CASE Cron!Next
      <3>1. CronKeeps
        BY <2>2, CronStep
      <3> QED
        BY <3>1
    <2> QED
      BY <2>1, <2>2 DEF HostNext
  <1>6. File!EditKept <=> [][P]_(File!fileVars)
    BY DEF File!EditKept, FileKeeps
  <1>7. Cron!KeepsOthers <=> [][Q]_(Cron!cronVars)
    BY DEF Cron!KeepsOthers, CronKeeps
  <1>8. EditsKept <=> []Lands /\ File!EditKept /\ Cron!KeepsOthers
    BY DEF EditsKept
  <1> HIDE DEF P, Q, Lands, Inv
  <1> QED
    BY <1>1, <1>2, <1>3, <1>4, <1>5, <1>6, <1>7, <1>8, PTL DEF HostSpec
=============================================================================
