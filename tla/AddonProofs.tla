---------------------------- MODULE AddonProofs ----------------------------
(***************************************************************************)
(* AddonInstall implements AddonSite, for any add-ons and any versions.    *)
(*                                                                         *)
(* AddonSite sees a site as the last command left it. What a command may   *)
(* end in is known at every step of it: Inv says, for each command, which  *)
(* parts of the site it has changed so far and what the others still are,  *)
(* and of a command that failed, that what its rollback does not bring     *)
(* back was not changed. It holds until a rollback fails to restore a file *)
(* (at = "broken"), and again once the operator has put a site back.       *)
(***************************************************************************)
EXTENDS AddonInstall, FiniteSetTheorems, TLAPS

Trees == [Packages -> Versions \cup {Absent}]
Written == [Extensions -> {"none", "whole", "torn"}]
Sites ==
  [pkg : Trees, lock : Trees \cup {NoLock}, records : [Addons -> Versions \cup {Absent}],
   declared : SUBSET Extensions, hosted : SUBSET Extensions,
   routes : Written, scaffold : Written, expected : Int, workflow : Versions]

Shape ==
  /\ files \in Sites /\ modules \in Trees /\ advised \in BOOLEAN
  /\ saved \in [files : Sites, modules : Trees]
  /\ cmd \in [name : {"none", "add", "remove", "upgrade"}, on : SUBSET Addons,
              of : SUBSET Addons, to : Versions \cup {Absent}]
  /\ created \subseteq {"routes", "scaffold"} \X Extensions
  /\ installing \in BOOLEAN

\* What a command makes of package.json and of the records.
Made ==
  [p \in Packages |-> IF p \in cmd.on \/ (p = Core /\ cmd.name = "upgrade")
                      THEN cmd.to ELSE saved.files.pkg[p]]
NewRecords ==
  [a \in Addons |-> IF a \in cmd.on \/ (a \in cmd.of /\ saved.files.records[a] = Absent)
                    THEN Made[a] ELSE saved.files.records[a]]

Before == Site!Installed(saved.files)

Idling ==
  /\ cmd = Idle /\ at = "none" /\ created = {} /\ ~installing
  /\ files = saved.files /\ modules = saved.modules

\* What an add has created was not there, and the rest is as it was.
CreatedOnly ==
  \A e \in Extensions :
    /\ IF <<"routes", e>> \in created
       THEN e \in New /\ saved.files.routes[e] = "none" /\ files.routes[e] = "whole"
       ELSE files.routes[e] = saved.files.routes[e]
    /\ IF <<"scaffold", e>> \in created
       THEN e \in New /\ saved.files.scaffold[e] = "none" /\ files.scaffold[e] = "whole"
       ELSE files.scaffold[e] = saved.files.scaffold[e]

AddCommand ==
  /\ cmd.name = "add" /\ cmd.to = saved.files.pkg[Core]
  /\ cmd.on \subseteq cmd.of /\ cmd.on \cap Before = {}
  /\ cmd.of \subseteq Before \cup cmd.on
  /\ \A a \in cmd.of : Requires[a] \subseteq cmd.of

Adding ==
  /\ AddCommand
  /\ at \in {"package", "npm", "scaffold", "declare", "host", "record", "count"}
  /\ files.pkg = IF at = "package" THEN saved.files.pkg ELSE Made
  /\ at \notin {"package", "npm"} => files.lock = Made /\ modules = Made
  /\ files.records = IF at = "count" THEN NewRecords ELSE saved.files.records
  /\ files.declared = IF at \in {"host", "record", "count"}
                      THEN saved.files.declared \cup New ELSE saved.files.declared
  /\ files.hosted = IF at \in {"record", "count"}
                    THEN saved.files.hosted \cup New ELSE saved.files.hosted
  /\ files.expected = saved.files.expected /\ files.workflow = saved.files.workflow
  /\ CreatedOnly
  /\ at \in {"declare", "host", "record", "count"} =>
       \A e \in New : <<"routes", e>> \in created

RemoveCommand ==
  /\ cmd.name = "remove" /\ cmd.to = Absent
  /\ \E a \in Before :
       /\ cmd.on = {a} /\ cmd.of = {a}
       /\ \A b \in Before : saved.modules[b] # Absent => a \notin Requires[b]

Removing ==
  /\ RemoveCommand
  /\ at \in {"declare", "host", "package", "npm", "record", "count"}
  /\ files.pkg = IF at \in {"declare", "host", "package"} THEN saved.files.pkg ELSE Made
  /\ at \in {"record", "count"} => files.lock = Made /\ modules = Made
  /\ files.records = IF at = "count" THEN NewRecords ELSE saved.files.records
  /\ files.declared = IF at = "declare" THEN saved.files.declared
                                        ELSE saved.files.declared \ New
  /\ files.hosted = IF at \in {"declare", "host"} THEN saved.files.hosted
                                                  ELSE saved.files.hosted \ New
  /\ \A e \in Extensions :
       files.routes[e] = IF at # "declare" /\ e \in New THEN "none" ELSE saved.files.routes[e]
  /\ files.scaffold = saved.files.scaffold
  /\ files.expected = saved.files.expected /\ files.workflow = saved.files.workflow
  /\ created = {}

UpgradeCommand ==
  /\ cmd.name = "upgrade" /\ cmd.to \in Versions
  /\ cmd.on = Before /\ cmd.of = Before

Upgrading ==
  /\ UpgradeCommand
  /\ at \in {"core", "npm core", "package", "npm", "record", "workflow"}
  /\ files.pkg = CASE at = "core" -> saved.files.pkg
                   [] at \in {"npm core", "package"} -> [saved.files.pkg EXCEPT ![Core] = cmd.to]
                   [] OTHER -> Made
  /\ at \in {"record", "workflow"} => files.lock = Made /\ modules = Made
  /\ files.records = IF at = "workflow" THEN NewRecords ELSE saved.files.records
  /\ files.declared = saved.files.declared /\ files.hosted = saved.files.hosted
  /\ files.routes = saved.files.routes /\ files.scaffold = saved.files.scaffold
  /\ files.expected = saved.files.expected /\ files.workflow = saved.files.workflow
  /\ created = {}

\* A file is as it was, or was not there and is torn.
KeptFile(old, new) == new = old \/ (old = "none" /\ new = "torn")

\* A command that failed: what it did not save.
Restoring ==
  /\ at = "restore"
  /\ cmd.name \in {"add", "remove", "upgrade"}
  /\ cmd.name = "add" =>
       /\ files.workflow = saved.files.workflow
       /\ \A e \in Extensions :
            /\ IF <<"routes", e>> \in created THEN saved.files.routes[e] = "none"
               ELSE KeptFile(saved.files.routes[e], files.routes[e])
            /\ IF <<"scaffold", e>> \in created THEN saved.files.scaffold[e] = "none"
               ELSE KeptFile(saved.files.scaffold[e], files.scaffold[e])
  /\ cmd.name = "remove" =>
       /\ created = {} /\ files.scaffold = saved.files.scaffold
       /\ files.workflow = saved.files.workflow
  /\ cmd.name = "upgrade" =>
       /\ created = {}
       /\ files.declared = saved.files.declared /\ files.hosted = saved.files.hosted
       /\ files.routes = saved.files.routes /\ files.scaffold = saved.files.scaffold
       /\ files.expected = saved.files.expected

\* The site with some of the files that were not there torn.
KeptSite(f) ==
  /\ f.pkg = saved.files.pkg /\ f.lock = saved.files.lock
  /\ f.records = saved.files.records
  /\ f.declared = saved.files.declared /\ f.hosted = saved.files.hosted
  /\ f.expected = saved.files.expected /\ f.workflow = saved.files.workflow
  /\ \A e \in Extensions :
       /\ KeptFile(saved.files.routes[e], f.routes[e])
       /\ KeptFile(saved.files.scaffold[e], f.scaffold[e])

Replanting == at = "tree" /\ cmd.name \in {"add", "remove", "upgrade"} /\ KeptSite(files)

Working == Adding \/ Removing \/ Upgrading \/ Restoring \/ Replanting

Inv ==
  /\ Shape /\ Site!Agrees(saved.files)
  /\ ~installing => modules = saved.modules
  /\ Idling \/ Working

-----------------------------------------------------------------------------
(* The steps of AddonSite that leave a site as it was                       *)

LEMMA OverThen ==
  ASSUME Over, files' \in Sites, modules' \in Trees, advised' \in BOOLEAN,
         Site!Agrees(files')
  PROVE  Inv'
<1>1. saved' = [files |-> files', modules |-> modules']
  BY DEF Over
<1>2. saved'.files = files' /\ saved'.modules = modules'
  BY <1>1
<1>3. Shape'
  <2>1. saved' \in [files : Sites, modules : Trees]
    BY <1>1
  <2>2. cmd' \in [name : {"none", "add", "remove", "upgrade"}, on : SUBSET Addons,
                 of : SUBSET Addons, to : Versions \cup {Absent}]
    BY DEF Over, Idle
  <2>3. QED BY <2>1, <2>2 DEF Over, Shape
<1>4. Idling'
  BY <1>2 DEF Over, Idling, Idle
<1>5. Site!Agrees(saved.files)'
  BY <1>2 DEF Site!Agrees, Site!Installed
<1>6. QED BY <1>2, <1>3, <1>4, <1>5 DEF Inv

\* A command that fails leaves a site that agrees as much as before.
LEMMA KeptAgrees ==
  ASSUME Inv, NEW f \in Sites, KeptSite(f)
  PROVE  /\ Site!Agrees(f)
         /\ f = [saved.files EXCEPT !.routes = f.routes, !.scaffold = f.scaffold]
<1>1. saved.files \in Sites
  BY DEF Inv, Shape
<1>2. f = [saved.files EXCEPT !.routes = f.routes, !.scaffold = f.scaffold]
  BY <1>1 DEF KeptSite, Sites
<1>3. Site!Installed(f) = Site!Installed(saved.files)
  BY DEF KeptSite, Site!Installed
<1>4. Site!Agrees(f)
  BY <1>1, <1>3 DEF Inv, KeptSite, KeptFile, Site!Agrees, Site!Packages
<1>5. QED BY <1>2, <1>4

\* What a command that fails may leave.
LEMMA RefusedThen ==
  ASSUME Inv, files' \in Sites, modules' \in Trees, advised' \in BOOLEAN,
         KeptSite(files'), Over,
         \/ modules' = saved.modules /\ advised' = advised
         \/ modules' = saved.files.lock /\ ~advised'
         \/ /\ saved.files.lock = NoLock /\ advised' = advised
            /\ \A p \in Packages : saved.modules[p] = Absent => modules'[p] = Absent
         \/ advised'
  PROVE  Inv' /\ Site!Refused
<1>1. /\ Site!Agrees(files')
      /\ files' = [saved.files EXCEPT !.routes = files'.routes, !.scaffold = files'.scaffold]
  BY KeptAgrees
<1>2. Inv'
  BY <1>1, OverThen
<1>3. saved'.files = files' /\ saved'.modules = modules'
  BY DEF Over
<1>4. \A part \in {"routes", "scaffold"} : \A e \in Extensions :
        \/ files'[part][e] = saved.files[part][e]
        \/ saved.files[part][e] = "none" /\ files'[part][e] = "torn"
  BY DEF KeptSite, KeptFile
<1>5. Site!Kept("routes") /\ Site!Kept("scaffold")
  BY <1>3, <1>4 DEF Site!Kept
<1>6. Site!Refused
  BY <1>1, <1>3, <1>5 DEF Site!Refused, Site!Packages, Packages
<1>7. QED BY <1>2, <1>6

\* Nothing AddonSite sees changes.
Unseen == UNCHANGED <<saved, advised>>

\* A recording of what was installed but not recorded.
LEMMA RecordedThen ==
  ASSUME Inv, Idling, NEW N \in SUBSET Addons, recordUnrecorded(N),
         \A a \in N : files.pkg[a] # Absent
  PROVE  Inv' /\ \E M \in SUBSET Addons : Site!Recorded(M)
<1> DEFINE M == {a \in N : files.records[a] = Absent}
           R == [a \in Addons |-> IF a \in M THEN modules[a] ELSE files.records[a]]
<1>1. /\ files \in Sites /\ modules \in Trees /\ advised \in BOOLEAN
      /\ files = saved.files /\ modules = saved.modules
      /\ \A a \in Addons : modules[a] \in Versions \cup {Absent}
  BY DEF Inv, Shape, Idling, Trees, Packages
<1>2. files' = [files EXCEPT !.records = R] /\ UNCHANGED <<modules, advised>>
  <2>1. R = [a \in Addons |-> IF a \in N /\ files.records[a] = Absent THEN modules[a]
                              ELSE files.records[a]]
    OBVIOUS
  <2>2. QED BY <2>1 DEF recordUnrecorded
<1>3. R \in [Addons -> Versions \cup {Absent}]
  BY <1>1 DEF Sites
<1>4. files' \in Sites
  BY <1>1, <1>2, <1>3 DEF Sites
<1>5. Site!Agrees(files')
  <2>1. /\ files'.pkg = files.pkg /\ files'.lock = files.lock
        /\ files'.declared = files.declared /\ files'.hosted = files.hosted
        /\ files'.routes = files.routes /\ files'.expected = files.expected
        /\ files'.workflow = files.workflow /\ files'.records = R
    BY <1>1, <1>2 DEF Sites
  <2>2. Site!Installed(files') = Site!Installed(files)
    BY <2>1 DEF Site!Installed
  <2>3. \A a \in Addons : a \notin Site!Installed(files) => R[a] = files.records[a]
    BY DEF Site!Installed
  <2>4. QED BY <1>1, <2>1, <2>2, <2>3 DEF Inv, Site!Agrees
<1>6. Over
  BY DEF recordUnrecorded
<1>7. Inv'
  BY <1>1, <1>2, <1>4, <1>5, <1>6, OverThen
<1>8. saved'.files = files' /\ saved'.modules = modules'
  BY <1>6 DEF Over
<1>9. Site!Recorded(M)
  <2>1. \A a \in M : /\ saved.files.pkg[a] # Absent /\ saved.files.records[a] = Absent
                     /\ saved.modules[a] # Absent
    BY <1>1 DEF recordUnrecorded
  <2>2. saved'.files = [saved.files EXCEPT !.records =
           [a \in Addons |-> IF a \in M THEN saved.modules[a] ELSE @[a]]]
    BY <1>1, <1>2, <1>8
  <2> HIDE DEF M, R
  <2>3. QED BY <1>1, <1>2, <1>8, <2>1, <2>2 DEF Site!Recorded
<1>10. QED BY <1>7, <1>9

-----------------------------------------------------------------------------
(* The beginning of a command                                               *)

LEMMA BeginsThen ==
  ASSUME Inv, Idling, NEW command, NEW step, Begin(command, step),
         command \in [name : {"none", "add", "remove", "upgrade"}, on : SUBSET Addons,
                      of : SUBSET Addons, to : Versions \cup {Absent}],
         (Adding \/ Removing \/ Upgrading)'
  PROVE  Inv' /\ Unseen
<1>1. /\ cmd' = command /\ installing' \in BOOLEAN
      /\ UNCHANGED <<files, modules, advised, saved, created>>
  BY DEF Begin, siteVars
<1>2. Shape'
  BY <1>1 DEF Inv, Shape
<1>3. modules' = saved'.modules
  BY <1>1 DEF Idling
<1>4. Site!Agrees(saved.files)'
  BY <1>1 DEF Inv, Site!Agrees, Site!Installed
<1>5. QED BY <1>1, <1>2, <1>3, <1>4 DEF Inv, Working, Unseen

\* With an add-on, withRequirements contains all that it requires.
LEMMA Closure ==
  ASSUME NEW N \in SUBSET Addons
  PROVE  /\ withRequirements(N) \subseteq Addons
         /\ \A a \in withRequirements(N) : Requires[a] \subseteq withRequirements(N)
<1>1. ASSUME NEW a \in withRequirements(N), NEW b \in Requires[a]
      PROVE  b \in withRequirements(N)
  <2>1. a \in Addons /\ b \in Addons
    BY AddonsAssumption DEF withRequirements
  <2>2. ASSUME NEW C \in SUBSET Addons, N \subseteq C, \A c \in C : Requires[c] \subseteq C
        PROVE  b \in C
    <3>1. a \in C
      BY <2>2 DEF withRequirements
    <3>2. QED BY <2>2, <3>1
  <2>3. QED BY <2>1, <2>2 DEF withRequirements
<1>2. QED BY <1>1 DEF withRequirements

LEMMA AddBegins ==
  ASSUME Inv, NEW N \in SUBSET Addons, addAddons(N)
  PROVE  Inv' /\ Unseen
<1> DEFINE W == withRequirements(N)
           command == [name |-> "add", on |-> ToAdd(N), of |-> W, to |-> files.pkg[Core]]
<1>1. Idling /\ Begin(command, "package")
  BY DEF addAddons, Running, Inv, Working, Adding, Removing, Upgrading, Restoring, Replanting,
         AddCommand, RemoveCommand, UpgradeCommand, Idling, Idle
<1>2. /\ W \subseteq Addons /\ \A a \in W : Requires[a] \subseteq W
      /\ ToAdd(N) \subseteq W
      /\ \A a \in ToAdd(N) : files.pkg[a] # files.pkg[Core]
      /\ \A a \in W : a \in ToAdd(N) \/ files.pkg[a] = files.pkg[Core]
  BY Closure DEF ToAdd
<1>3. /\ files \in Sites /\ files = saved.files /\ Site!Agrees(files)
      /\ files.pkg[Core] \in Versions /\ created = {} /\ New \subseteq Extensions
  BY <1>1 DEF Inv, Shape, Idling, Site!Agrees, New
<1>4. /\ \A a \in ToAdd(N) : files.pkg[a] = Absent
      /\ \A a \in W : a \in ToAdd(N) \/ files.pkg[a] # Absent
  BY <1>2, <1>3, VersionsAssumption DEF Site!Agrees
<1>5. /\ cmd' = command /\ at' = "package"
      /\ UNCHANGED <<files, modules, saved, created>>
  BY <1>1 DEF Begin, siteVars
<1>6. AddCommand'
  <2>1. Before' = {a \in Addons : files.pkg[a] # Absent}
    BY <1>3, <1>5 DEF Before, Site!Installed
  <2>2. /\ cmd'.name = "add" /\ cmd'.on = ToAdd(N) /\ cmd'.of = W
        /\ cmd'.to = saved'.files.pkg[Core]
    BY <1>3, <1>5
  <2> HIDE DEF W
  <2>3. QED BY <1>2, <1>4, <2>1, <2>2 DEF AddCommand
<1>7. Adding'
  <2>1. CreatedOnly'
    BY <1>3, <1>5 DEF CreatedOnly
  <2>2. QED BY <1>3, <1>5, <1>6, <2>1 DEF Adding
<1>8. command \in [name : {"none", "add", "remove", "upgrade"}, on : SUBSET Addons,
                   of : SUBSET Addons, to : Versions \cup {Absent}]
  BY <1>2, <1>3
<1> HIDE DEF command
<1>9. QED BY <1>1, <1>7, <1>8, BeginsThen

LEMMA RemoveBegins ==
  ASSUME Inv, NEW a \in Addons, removeAddon(a)
  PROVE  Inv' /\ Unseen
<1> DEFINE command == [name |-> "remove", on |-> {a}, of |-> {a}, to |-> Absent]
           step == IF a \in Extensions THEN "declare" ELSE "package"
<1>1. Idling /\ Begin(command, step)
  BY DEF removeAddon, Running, Inv, Working, Adding, Removing, Upgrading, Restoring, Replanting,
         AddCommand, RemoveCommand, UpgradeCommand, Idling, Idle
<1>2. /\ files \in Sites /\ files = saved.files /\ modules = saved.modules /\ created = {}
  BY <1>1 DEF Inv, Shape, Idling
<1>3. /\ cmd' = command /\ at' = step
      /\ UNCHANGED <<files, modules, saved, created>>
  BY <1>1 DEF Begin, siteVars
<1>4. RemoveCommand'
  <2>1. Before' = Installed
    BY <1>2, <1>3 DEF Before, Installed, Site!Installed
  <2>2. a \in Installed /\ \A b \in Installed : modules[b] # Absent => a \notin Requires[b]
    BY DEF removeAddon, Installed, Site!Installed
  <2>3. cmd'.name = "remove" /\ cmd'.on = {a} /\ cmd'.of = {a} /\ cmd'.to = Absent
    BY <1>3
  <2>4. QED BY <1>2, <1>3, <2>1, <2>2, <2>3 DEF RemoveCommand
<1>5. New' = {a} \cap Extensions
  BY <1>3 DEF New
<1>6. Removing'
  BY <1>2, <1>3, <1>4, <1>5 DEF Removing
<1>7. command \in [name : {"none", "add", "remove", "upgrade"}, on : SUBSET Addons,
                   of : SUBSET Addons, to : Versions \cup {Absent}]
  OBVIOUS
<1> HIDE DEF command, step
<1>8. QED BY <1>1, <1>6, <1>7, BeginsThen

LEMMA UpgradeBegins ==
  ASSUME Inv, NEW v \in Versions, upgradeSite(v)
  PROVE  Inv' /\ Unseen
<1> DEFINE command == [name |-> "upgrade", on |-> Installed, of |-> Installed, to |-> v]
<1>1. Idling /\ Begin(command, "core")
  BY DEF upgradeSite, Running, Inv, Working, Adding, Removing, Upgrading, Restoring, Replanting,
         AddCommand, RemoveCommand, UpgradeCommand, Idling, Idle
<1>2. files = saved.files /\ created = {}
  BY <1>1 DEF Idling
<1>3. /\ cmd' = command /\ at' = "core"
      /\ UNCHANGED <<files, modules, saved, created>>
  BY <1>1 DEF Begin, siteVars
<1>4. UpgradeCommand'
  BY <1>2, <1>3 DEF UpgradeCommand, Before, Installed, Site!Installed
<1>5. Upgrading'
  BY <1>2, <1>3, <1>4 DEF Upgrading
<1>6. command \in [name : {"none", "add", "remove", "upgrade"}, on : SUBSET Addons,
                   of : SUBSET Addons, to : Versions \cup {Absent}]
  BY DEF Installed, Site!Installed
<1> HIDE DEF command
<1>7. QED BY <1>1, <1>5, <1>6, BeginsThen

LEMMA RecordingBegins ==
  ASSUME Inv, \/ recordInstalled
              \/ \E N \in SUBSET Addons : addInstalled(N)
  PROVE  Inv' /\ \E M \in SUBSET Addons : Site!Recorded(M)
<1>1. Idling
  BY DEF recordInstalled, addInstalled, Running, Inv, Working, Adding, Removing, Upgrading,
         Restoring, Replanting, AddCommand, RemoveCommand, UpgradeCommand, Idling, Idle
<1>2. CASE recordInstalled
  <2> DEFINE N == {a \in Installed : files.lock[a] = files.pkg[Core]}
  <2>1. /\ N \in SUBSET Addons /\ recordUnrecorded(N)
        /\ \A a \in N : files.pkg[a] # Absent
    BY <1>2 DEF recordInstalled, Installed, Site!Installed
  <2> HIDE DEF N
  <2>2. QED BY <1>1, <2>1, RecordedThen
<1>3. CASE \E N \in SUBSET Addons : addInstalled(N)
  <2>1. PICK N \in SUBSET Addons : addInstalled(N)
    BY <1>3
  <2>2. files.pkg[Core] \in Versions
    BY <1>1 DEF Inv, Idling, Site!Agrees
  <2>3. \A a \in withRequirements(N) : files.pkg[a] # Absent
    BY <2>1, <2>2, VersionsAssumption DEF addInstalled, ToAdd
  <2>4. withRequirements(N) \in SUBSET Addons /\ recordUnrecorded(withRequirements(N))
    BY <2>1, Closure DEF addInstalled
  <2>5. QED BY <1>1, <2>3, <2>4, RecordedThen
<1>4. QED BY <1>2, <1>3

-----------------------------------------------------------------------------
(* Failure                                                                  *)

Advancing == Adding \/ Removing \/ Upgrading

\* A step that is part of a command keeps the rest of Inv.
LEMMA WithinThen ==
  ASSUME Inv, UNCHANGED <<advised, cmd, saved>>, files' \in Sites, modules' \in Trees,
         created' \subseteq {"routes", "scaffold"} \X Extensions, installing' \in BOOLEAN,
         ~installing' => modules' = modules /\ (installing' = installing), Working'
  PROVE  Inv' /\ Unseen
<1>1. Shape'
  BY DEF Inv, Shape
<1>2. Site!Agrees(saved.files)'
  BY DEF Inv, Site!Agrees, Site!Installed
<1>3. QED BY <1>1, <1>2 DEF Inv, Unseen

\* A failure leaves what the rollback does not bring back as the command has
\* made it so far, which for the files it created is in `created`.
LEMMA FailedThen ==
  ASSUME Inv, Advancing, FailWith(files', modules'), created' = created,
         UNCHANGED <<files.declared, files.hosted, files.routes, files.scaffold>>,
         UNCHANGED <<files.expected, files.workflow>>
  PROVE  Restoring'
<1>1. UNCHANGED <<cmd, saved>> /\ at' = "restore"
  BY DEF FailWith
<1>2. CASE Adding
  BY <1>1, <1>2 DEF Restoring, Adding, AddCommand, CreatedOnly, KeptFile
<1>3. CASE Removing
  BY <1>1, <1>3 DEF Restoring, Removing, RemoveCommand
<1>4. CASE Upgrading
  BY <1>1, <1>4 DEF Restoring, Upgrading, UpgradeCommand
<1>5. QED BY <1>2, <1>3, <1>4 DEF Advancing

\* The steps of commands are taken by commands that have not failed.
LEMMA Steps ==
  ASSUME Inv, at \notin {"none", "restore", "tree"}
  PROVE  Advancing
BY DEF Inv, Working, Advancing, Idling, Restoring, Replanting

LEMMA FailsThen ==
  ASSUME Inv, Fails
  PROVE  Inv' /\ Unseen
<1>1. /\ UNCHANGED <<files, modules, created, installing, advised, cmd, saved>>
      /\ FailWith(files', modules')
  BY DEF Fails, FailWith
<1>2. Advancing
  BY Steps DEF Fails
<1>3. Restoring'
  BY <1>1, <1>2, FailedThen
<1>4. QED BY <1>1, <1>3, WithinThen DEF Working, Inv, Shape

LEMMA NpmFailsThen ==
  ASSUME Inv, NpmFails
  PROVE  Inv' /\ Unseen
<1>1. PICK lock \in {files.lock, files.pkg}, done \in SUBSET Packages :
        FailWith([files EXCEPT !.lock = lock],
                 [p \in Packages |-> IF p \in done THEN files.pkg[p] ELSE modules[p]])
  BY DEF NpmFails
<1>2. Advancing
  BY Steps DEF NpmFails
<1>3. /\ files \in Sites /\ modules \in Trees /\ created' = created /\ installing'
      /\ created \subseteq {"routes", "scaffold"} \X Extensions
      /\ UNCHANGED <<advised, cmd, saved>>
  BY <1>1 DEF NpmFails, FailWith, Inv, Shape
<1>4. /\ files' = [files EXCEPT !.lock = lock]
      /\ lock \in Trees \cup {NoLock}
      /\ modules' = [p \in Packages |-> IF p \in done THEN files.pkg[p] ELSE modules[p]]
  BY <1>1, <1>3 DEF FailWith, Sites
<1>5. files' \in Sites
  BY <1>3, <1>4 DEF Sites
<1>6. modules' \in Trees
  BY <1>3, <1>4 DEF Sites, Trees
<1>7. /\ UNCHANGED <<files.declared, files.hosted, files.routes, files.scaffold>>
      /\ UNCHANGED <<files.expected, files.workflow>>
  BY <1>3, <1>4 DEF Sites
<1>8. FailWith(files', modules')
  BY <1>1 DEF FailWith
<1>9. Restoring'
  BY <1>2, <1>3, <1>7, <1>8, FailedThen
<1>10. QED BY <1>3, <1>5, <1>6, <1>9, WithinThen DEF Working

LEMMA TornThen ==
  ASSUME Inv, NEW e \in Extensions, WriteTorn(e) \/ ScaffoldTorn(e)
  PROVE  Inv' /\ Unseen
<1>1. /\ at = "scaffold" /\ e \in New /\ <<"routes", e>> \notin created
      /\ files.routes[e] = "none"
  BY DEF WriteTorn, ScaffoldTorn, MayTear, ToScaffold
<1>2. Adding
  BY <1>1, Steps DEF Advancing, Removing, Upgrading
<1>3. /\ files \in Sites /\ modules \in Trees /\ UNCHANGED <<advised, cmd, saved, modules, installing>>
      /\ created \subseteq {"routes", "scaffold"} \X Extensions /\ installing \in BOOLEAN
      /\ at' = "restore"
  BY DEF WriteTorn, ScaffoldTorn, FailWith, Inv, Shape
<1>4. /\ cmd.name = "add" /\ files.workflow = saved.files.workflow /\ CreatedOnly
  BY <1>2 DEF Adding, AddCommand
<1>5. saved.files.routes[e] = "none"
  BY <1>1, <1>4 DEF CreatedOnly
<1>6. CASE WriteTorn(e)
  <2>1. files' = [files EXCEPT !.routes[e] = "torn"] /\ created' = created
    BY <1>6 DEF WriteTorn, FailWith
  <2>2. files' \in Sites
    BY <1>3, <2>1 DEF Sites, Written
  <2>3. /\ files'.workflow = files.workflow /\ files'.scaffold = files.scaffold
        /\ \A o \in Extensions :
             files'.routes[o] = IF o = e THEN "torn" ELSE files.routes[o]
    BY <1>3, <2>1 DEF Sites, Written
  <2>4. Restoring'
    BY <1>1, <1>3, <1>4, <1>5, <2>1, <2>3 DEF Restoring, CreatedOnly, KeptFile
  <2>5. QED BY <1>3, <2>1, <2>2, <2>4, WithinThen DEF Working
<1>7. CASE ScaffoldTorn(e)
  <2>1. /\ files' = [files EXCEPT !.routes[e] = "whole", !.scaffold[e] = "torn"]
        /\ created' = created \cup {<<"routes", e>>}
        /\ files.scaffold[e] = "none"
    BY <1>7 DEF ScaffoldTorn, FailWith
  <2>2. files' \in Sites
    BY <1>3, <2>1 DEF Sites, Written
  <2>3. /\ files'.workflow = files.workflow
        /\ \A o \in Extensions :
             /\ files'.routes[o] = IF o = e THEN "whole" ELSE files.routes[o]
             /\ files'.scaffold[o] = IF o = e THEN "torn" ELSE files.scaffold[o]
    BY <1>3, <2>1 DEF Sites, Written
  <2>4. \A o \in Extensions :
          /\ <<"scaffold", o>> \in created' <=> <<"scaffold", o>> \in created
          /\ <<"routes", o>> \in created' <=> <<"routes", o>> \in created \/ o = e
    BY <2>1
  <2>5. <<"scaffold", e>> \notin created /\ saved.files.scaffold[e] = "none"
    BY <1>4, <2>1 DEF CreatedOnly
  <2>6. Restoring'
    BY <1>3, <1>4, <1>5, <2>3, <2>4, <2>5 DEF Restoring, CreatedOnly, KeptFile
  <2>7. created' \subseteq {"routes", "scaffold"} \X Extensions
    BY <1>3, <2>1
  <2>8. QED BY <1>3, <2>2, <2>6, <2>7, WithinThen DEF Working
<1>8. QED BY <1>6, <1>7

\* The rollback of the files.
LEMMA RestoresFiles ==
  ASSUME Inv, RestoreFiles
  PROVE  Inv' /\ (Unseen \/ Site!Refused)
<1>1. Restoring
  BY DEF RestoreFiles, Inv, Working, Idling, Adding, Removing, Upgrading, Replanting
<1>2. /\ files \in Sites /\ saved.files \in Sites /\ modules \in Trees
      /\ advised \in BOOLEAN
  BY DEF Inv, Shape
<1>3. DOMAIN files = {"pkg", "lock", "records", "declared", "hosted", "routes", "scaffold",
                      "expected", "workflow"}
  BY <1>2 DEF Sites
<1>4. KeptSite(files') /\ files' \in Sites
  <2>1. files' = Restored(created, Saves(cmd.name))
    BY DEF RestoreFiles
  <2>2. \A part \in DOMAIN files :
          files'[part] = IF part \in Saves(cmd.name) THEN saved.files[part]
                         ELSE IF part \in {"routes", "scaffold"}
                         THEN [e \in Extensions |->
                                 IF <<part, e>> \in created THEN "none" ELSE files[part][e]]
                         ELSE files[part]
    BY <2>1 DEF Restored
  <2>3. ASSUME cmd.name = "add" PROVE KeptSite(files')
    <3>1. /\ files'["pkg"] = saved.files["pkg"] /\ files'["lock"] = saved.files["lock"]
          /\ files'["records"] = saved.files["records"]
          /\ files'["declared"] = saved.files["declared"]
          /\ files'["hosted"] = saved.files["hosted"]
          /\ files'["expected"] = saved.files["expected"]
          /\ files'["workflow"] = files["workflow"]
          /\ files'["routes"] = [e \in Extensions |->
                IF <<"routes", e>> \in created THEN "none" ELSE files["routes"][e]]
          /\ files'["scaffold"] = [e \in Extensions |->
                IF <<"scaffold", e>> \in created THEN "none" ELSE files["scaffold"][e]]
      BY <1>3, <2>2, <2>3 DEF Saves
    <3>2. /\ files'.pkg = saved.files.pkg /\ files'.lock = saved.files.lock
          /\ files'.records = saved.files.records
          /\ files'.declared = saved.files.declared /\ files'.hosted = saved.files.hosted
          /\ files'.expected = saved.files.expected
          /\ files'.workflow = saved.files.workflow
      BY <1>1, <2>3, <3>1 DEF Restoring
    <3>3. ASSUME NEW e \in Extensions
          PROVE  /\ KeptFile(saved.files.routes[e], files'.routes[e])
                 /\ KeptFile(saved.files.scaffold[e], files'.scaffold[e])
      <4>1. /\ IF <<"routes", e>> \in created THEN saved.files.routes[e] = "none"
               ELSE KeptFile(saved.files.routes[e], files.routes[e])
            /\ IF <<"scaffold", e>> \in created THEN saved.files.scaffold[e] = "none"
               ELSE KeptFile(saved.files.scaffold[e], files.scaffold[e])
        BY <1>1, <2>3 DEF Restoring
      <4>2. /\ files'.routes[e] = IF <<"routes", e>> \in created THEN "none"
                                 ELSE files.routes[e]
            /\ files'.scaffold[e] = IF <<"scaffold", e>> \in created THEN "none"
                                   ELSE files.scaffold[e]
        BY <3>1
      <4>3. QED BY <4>1, <4>2 DEF KeptFile
    <3>4. QED BY <3>2, <3>3 DEF KeptSite
  <2>4. ASSUME cmd.name = "remove" PROVE KeptSite(files')
    <3>1. created = {}
      BY <1>1, <2>4 DEF Restoring
    <3>2. /\ files'["pkg"] = saved.files["pkg"] /\ files'["lock"] = saved.files["lock"]
          /\ files'["records"] = saved.files["records"]
          /\ files'["declared"] = saved.files["declared"]
          /\ files'["hosted"] = saved.files["hosted"]
          /\ files'["routes"] = saved.files["routes"]
          /\ files'["expected"] = saved.files["expected"]
          /\ files'["workflow"] = files["workflow"]
          /\ files'["scaffold"] = [e \in Extensions |-> files["scaffold"][e]]
      BY <1>3, <2>2, <2>4, <3>1 DEF Saves
    <3>3. /\ files'.pkg = saved.files.pkg /\ files'.lock = saved.files.lock
          /\ files'.records = saved.files.records
          /\ files'.declared = saved.files.declared /\ files'.hosted = saved.files.hosted
          /\ files'.expected = saved.files.expected
          /\ files'.workflow = saved.files.workflow
      BY <1>1, <2>4, <3>2 DEF Restoring
    <3>4. ASSUME NEW e \in Extensions
          PROVE  /\ KeptFile(saved.files.routes[e], files'.routes[e])
                 /\ KeptFile(saved.files.scaffold[e], files'.scaffold[e])
      BY <1>1, <2>4, <3>2 DEF Restoring, KeptFile
    <3>5. QED BY <3>3, <3>4 DEF KeptSite
  <2>5. ASSUME cmd.name = "upgrade" PROVE KeptSite(files')
    <3>1. created = {}
      BY <1>1, <2>5 DEF Restoring
    <3>2. /\ files'["pkg"] = saved.files["pkg"] /\ files'["lock"] = saved.files["lock"]
          /\ files'["records"] = saved.files["records"]
          /\ files'["declared"] = files["declared"]
          /\ files'["hosted"] = files["hosted"]
          /\ files'["expected"] = files["expected"]
          /\ files'["workflow"] = saved.files["workflow"]
          /\ files'["routes"] = [e \in Extensions |-> files["routes"][e]]
          /\ files'["scaffold"] = [e \in Extensions |-> files["scaffold"][e]]
      BY <1>3, <2>2, <2>5, <3>1 DEF Saves
    <3>3. /\ files'.pkg = saved.files.pkg /\ files'.lock = saved.files.lock
          /\ files'.records = saved.files.records
          /\ files'.declared = saved.files.declared /\ files'.hosted = saved.files.hosted
          /\ files'.expected = saved.files.expected
          /\ files'.workflow = saved.files.workflow
      BY <1>1, <2>5, <3>2 DEF Restoring
    <3>4. ASSUME NEW e \in Extensions
          PROVE  /\ KeptFile(saved.files.routes[e], files'.routes[e])
                 /\ KeptFile(saved.files.scaffold[e], files'.scaffold[e])
      BY <1>1, <2>5, <3>2 DEF Restoring, KeptFile
    <3>5. QED BY <3>3, <3>4 DEF KeptSite
  <2>6. KeptSite(files')
    BY <1>1, <2>3, <2>4, <2>5 DEF Restoring
  <2>7. files' \in Sites
    <3>1. DOMAIN files' = DOMAIN files
      BY <2>1 DEF Restored
    <3>2. files'.routes \in Written /\ files'.scaffold \in Written
      <4>1. /\ files["routes"] \in Written /\ files["scaffold"] \in Written
            /\ saved.files["routes"] \in Written /\ saved.files["scaffold"] \in Written
        BY <1>2 DEF Sites
      <4>2. ASSUME NEW part \in {"routes", "scaffold"} PROVE files'[part] \in Written
        <5>1. files[part] \in Written /\ saved.files[part] \in Written
          BY <4>1
        <5>2. \/ files'[part] = saved.files[part]
              \/ files'[part] = [e \in Extensions |->
                    IF <<part, e>> \in created THEN "none" ELSE files[part][e]]
          BY <1>3, <2>2
        <5>3. QED BY <5>1, <5>2 DEF Written
      <4>3. files'["routes"] \in Written /\ files'["scaffold"] \in Written
        BY <4>2
      <4>4. QED BY <4>3
    <3>3. /\ files'.pkg \in Trees /\ files'.lock \in Trees \cup {NoLock}
          /\ files'.records \in [Addons -> Versions \cup {Absent}]
          /\ files'.declared \in SUBSET Extensions /\ files'.hosted \in SUBSET Extensions
          /\ files'.expected \in Int /\ files'.workflow \in Versions
      BY <1>2, <2>6 DEF KeptSite, Sites
    <3>4. files' = [part \in DOMAIN files' |-> files'[part]]
      BY <2>1 DEF Restored
    <3>5. QED BY <1>3, <3>1, <3>2, <3>3, <3>4 DEF Sites
  <2>8. QED BY <2>6, <2>7
<1>5. UNCHANGED <<modules, advised>>
  BY DEF RestoreFiles
<1>6. CASE installing
  <2>1. at' = "tree" /\ UNCHANGED cmdVars
    BY <1>6 DEF RestoreFiles
  <2>2. UNCHANGED <<cmd, saved, created, installing>>
    BY <2>1 DEF cmdVars
  <2>3. Replanting'
    BY <1>1, <1>4, <2>1, <2>2 DEF Restoring, Replanting, KeptSite
  <2>4. QED BY <1>2, <1>4, <1>5, <2>2, <2>3, WithinThen DEF Working, Inv, Shape
<1>7. CASE ~installing
  <2>1. Over
    BY <1>7 DEF RestoreFiles
  <2>2. modules = saved.modules
    BY <1>7 DEF Inv
  <2>3. QED BY <1>2, <1>4, <1>5, <2>1, <2>2, RefusedThen
<1>8. QED BY <1>6, <1>7

LEMMA RestoresTree ==
  ASSUME Inv, RestoreTree \/ RestoreTreeFails
  PROVE  Inv' /\ Site!Refused
<1>1. Replanting
  BY DEF RestoreTree, RestoreTreeFails, Inv, Working, Idling, Adding, Removing, Upgrading,
         Restoring
<1>2. /\ files \in Sites /\ modules \in Trees /\ saved.modules \in Trees
      /\ advised \in BOOLEAN /\ files.lock = saved.files.lock
  BY <1>1 DEF Inv, Shape, Replanting, KeptSite
<1>3. files' = files /\ KeptSite(files') /\ Over
  BY <1>1 DEF RestoreTree, RestoreTreeFails, Replanting
<1>4. files.lock # NoLock => files.lock \in Trees
  BY <1>2 DEF Sites
<1>5. CASE RestoreTree /\ files.lock # NoLock
  BY <1>2, <1>3, <1>4, <1>5, RefusedThen DEF RestoreTree
<1>6. CASE RestoreTree /\ files.lock = NoLock
  <2>1. /\ modules' = [p \in Packages |->
               IF saved.modules[p] = Absent THEN Absent ELSE modules[p]]
        /\ advised' = advised
    BY <1>6 DEF RestoreTree
  <2>2. modules' \in Trees
    BY <1>2, <2>1 DEF Trees
  <2>3. QED BY <1>2, <1>3, <1>6, <2>1, <2>2, RefusedThen
<1>7. CASE RestoreTreeFails
  <2>1. advised' = TRUE
    BY <1>7 DEF RestoreTreeFails
  <2>2. modules' \in Trees
    BY <1>2, <1>4, <1>7 DEF RestoreTreeFails, Trees
  <2>3. QED BY <1>2, <1>3, <2>1, <2>2, RefusedThen
<1>8. QED BY <1>5, <1>6, <1>7

\* A rollback that fails at a file has not touched a scaffold file that was
\* there before.
LEMMA BreaksThen ==
  ASSUME Inv, RestoreFilesFails
  PROVE  at' = "broken" /\ Site!HalfRestored
<1>1. Restoring
  BY DEF RestoreFilesFails, Inv, Working, Idling, Adding, Removing, Upgrading, Replanting
<1>2. /\ at = "restore" /\ at' = "broken" /\ advised' = advised
      /\ saved'.files = files'
  BY DEF RestoreFilesFails
<1>3. PICK gone \in SUBSET created, back \in SUBSET Saves(cmd.name) :
        files' = Restored(gone, back)
  BY DEF RestoreFilesFails
<1>4. "scaffold" \in DOMAIN files
  BY DEF Inv, Shape, Sites
<1>5. "scaffold" \notin back
  BY <1>1, <1>3 DEF Restoring, Saves
<1>6. files'["scaffold"] =
        [e \in Extensions |-> IF <<"scaffold", e>> \in gone THEN "none" ELSE files["scaffold"][e]]
  BY <1>3, <1>4, <1>5 DEF Restored
<1>7. ASSUME NEW e \in Extensions, saved.files.scaffold[e] # "none"
      PROVE  saved'.files.scaffold[e] = saved.files.scaffold[e]
  <2>1. <<"scaffold", e>> \notin created
    BY <1>1, <1>7 DEF Restoring
  <2>2. files.scaffold[e] = saved.files.scaffold[e]
    BY <1>1, <1>7, <2>1 DEF Restoring, KeptFile
  <2>3. files'.scaffold[e] = files.scaffold[e]
    BY <1>3, <1>6, <2>1
  <2>4. QED BY <1>2, <2>2, <2>3
<1>8. QED BY <1>2, <1>7 DEF Site!HalfRestored

-----------------------------------------------------------------------------
(* The steps of a command                                                   *)

\* What a command writes is well-formed.
LEMMA MadeTyped ==
  ASSUME Inv
  PROVE  /\ Made \in Trees /\ NewRecords \in [Addons -> Versions \cup {Absent}]
         /\ \A p \in Packages : Made[p] \in Versions \cup {Absent}
<1>1. /\ saved.files.pkg \in Trees /\ cmd.to \in Versions \cup {Absent}
      /\ saved.files.records \in [Addons -> Versions \cup {Absent}]
  BY DEF Inv, Shape, Sites
<1>2. Made \in Trees
  BY <1>1 DEF Made, Trees
<1>3. \A p \in Packages : Made[p] \in Versions \cup {Absent}
  BY <1>2 DEF Trees
<1>4. NewRecords \in [Addons -> Versions \cup {Absent}]
  BY <1>1, <1>3 DEF NewRecords, Packages
<1>5. QED BY <1>2, <1>3, <1>4

\* A step after which the command is not done.
LEMMA GoesOnThen ==
  ASSUME Inv, files' \in Sites,
         UNCHANGED <<modules, advised, cmd, saved, created, installing>>, Advancing'
  PROVE  Inv' /\ Unseen
BY WithinThen DEF Inv, Shape, Advancing, Working

LEMMA SameCommand ==
  ASSUME UNCHANGED <<cmd, saved>>
  PROVE  New' = New /\ Made' = Made /\ NewRecords' = NewRecords /\ Before' = Before
<1>1. New' = New
  BY DEF New
<1>2. Made' = Made
  BY DEF Made
<1>3. NewRecords' = NewRecords
  BY <1>2 DEF NewRecords
<1>4. Before' = Before
  BY DEF Before, Site!Installed
<1>5. QED BY <1>1, <1>2, <1>3, <1>4

LEMMA NpmThen ==
  ASSUME Inv, Npm
  PROVE  Inv' /\ Unseen
<1>1. /\ files' = [files EXCEPT !.lock = files.pkg] /\ modules' = files.pkg /\ installing'
      /\ UNCHANGED <<advised, cmd, saved, created>>
      /\ at' = CASE at = "npm core" -> "package"
                  [] at = "npm" /\ cmd.name = "add" /\ New # {} -> "scaffold"
                  [] OTHER -> "record"
  BY DEF Npm
<1>2. /\ files \in Sites /\ files.pkg \in Trees
      /\ created \subseteq {"routes", "scaffold"} \X Extensions
  BY DEF Inv, Shape, Sites
<1>3. files' \in Sites
  BY <1>1, <1>2 DEF Sites
<1>4. /\ files'.pkg = files.pkg /\ files'.lock = files.pkg /\ files'.records = files.records
      /\ files'.declared = files.declared /\ files'.hosted = files.hosted
      /\ files'.routes = files.routes /\ files'.scaffold = files.scaffold
      /\ files'.expected = files.expected /\ files'.workflow = files.workflow
  BY <1>1, <1>2 DEF Sites
<1>5. New' = New /\ Made' = Made /\ NewRecords' = NewRecords /\ Before' = Before
  BY <1>1, SameCommand
<1>6. at \in {"npm core", "npm"} /\ Advancing
  BY Steps DEF Npm
<1>7. CASE Adding
  <2>1. at = "npm"
    BY <1>6, <1>7 DEF Adding
  <2>2. cmd.name = "add"
    BY <1>7 DEF Adding, AddCommand
  <2>3. at' = IF New # {} THEN "scaffold" ELSE "record"
    BY <1>1, <2>1, <2>2
  <2>4. AddCommand' /\ CreatedOnly'
    <3>1. AddCommand'
      BY <1>1, <1>4, <1>5, <1>7 DEF Adding, AddCommand
    <3>2. CreatedOnly
      BY <1>7 DEF Adding
    <3>3. CreatedOnly'
      BY <1>1, <1>4, <1>5, <3>2 DEF CreatedOnly
    <3>4. QED BY <3>1, <3>3
  <2>5. New = {} => /\ saved.files.declared = saved.files.declared \cup New
                    /\ saved.files.hosted = saved.files.hosted \cup New
    OBVIOUS
  <2>6. Adding'
    BY <1>1, <1>4, <1>5, <1>7, <2>1, <2>3, <2>4, <2>5 DEF Adding
  <2>7. QED BY <1>1, <1>2, <1>3, <2>6, WithinThen DEF Working
<1>8. CASE Removing
  <2>1. at = "npm" /\ cmd.name = "remove"
    BY <1>6, <1>8 DEF Removing, RemoveCommand
  <2>2. at' = "record"
    BY <1>1, <2>1
  <2>3. RemoveCommand'
    BY <1>1, <1>5, <1>8 DEF Removing, RemoveCommand
  <2>4. Removing'
    BY <1>1, <1>4, <1>5, <1>8, <2>1, <2>2, <2>3 DEF Removing
  <2>5. QED BY <1>1, <1>2, <1>3, <2>4, WithinThen DEF Working
<1>9. CASE Upgrading
  <2>1. cmd.name = "upgrade" /\ at' = IF at = "npm" THEN "record" ELSE "package"
    BY <1>1, <1>6, <1>9 DEF Upgrading, UpgradeCommand
  <2>2. UpgradeCommand'
    BY <1>1, <1>5, <1>9 DEF Upgrading, UpgradeCommand
  <2>3. Upgrading'
    BY <1>1, <1>4, <1>5, <1>6, <1>9, <2>1, <2>2 DEF Upgrading
  <2>4. QED BY <1>1, <1>2, <1>3, <2>3, WithinThen DEF Working
<1>10. QED BY <1>6, <1>7, <1>8, <1>9 DEF Advancing

LEMMA WriteCoreThen ==
  ASSUME Inv, WriteCore
  PROVE  Inv' /\ Unseen
<1> DEFINE f == [files EXCEPT !.pkg[Core] = cmd.to]
<1>1. /\ at = "core" /\ Write(f, "npm core") /\ at' = "npm core"
      /\ files' = f /\ UNCHANGED <<modules, advised, cmd, saved, created, installing>>
  BY DEF WriteCore, Write, cmdVars
<1>2. Upgrading
  BY <1>1, Steps DEF Advancing, Adding, Removing
<1>3. files \in Sites /\ files.pkg \in Trees /\ cmd.to \in Versions
  BY <1>2 DEF Inv, Shape, Sites, Upgrading, UpgradeCommand
<1>4. [files.pkg EXCEPT ![Core] = cmd.to] \in Trees
  BY <1>3 DEF Trees
<1>5. f \in Sites
  BY <1>3, <1>4 DEF Sites
<1>6. /\ f.pkg = [files.pkg EXCEPT ![Core] = cmd.to] /\ f.records = files.records
      /\ f.declared = files.declared /\ f.hosted = files.hosted
      /\ f.routes = files.routes /\ f.scaffold = files.scaffold
      /\ f.expected = files.expected /\ f.workflow = files.workflow
  BY <1>3 DEF Sites
<1>7. New' = New /\ Made' = Made /\ NewRecords' = NewRecords /\ Before' = Before
  BY <1>1, SameCommand
<1> HIDE DEF f
<1>8. UpgradeCommand'
  BY <1>1, <1>2, <1>7 DEF Upgrading, UpgradeCommand
<1>9. Upgrading'
  BY <1>1, <1>2, <1>6, <1>7, <1>8 DEF Upgrading
<1>10. QED BY <1>1, <1>5, <1>9, GoesOnThen DEF Advancing

LEMMA WritePackageThen ==
  ASSUME Inv, WritePackage
  PROVE  Inv' /\ Unseen
<1> DEFINE f == [files EXCEPT !.pkg = Made]
<1>1. at = "package" /\ Advancing
  BY Steps DEF WritePackage
<1>2. files \in Sites /\ Made \in Trees
  BY MadeTyped DEF Inv, Shape
<1>3. [p \in Packages |-> IF p \in cmd.on THEN cmd.to ELSE files.pkg[p]] = Made
  <2>1. ASSUME NEW p \in Packages
        PROVE  (IF p \in cmd.on THEN cmd.to ELSE files.pkg[p]) = Made[p]
    <3>1. saved.files.pkg \in Trees
      BY DEF Inv, Shape, Sites
    <3>2. CASE Adding
      BY <1>1, <3>2 DEF Made, Adding, AddCommand
    <3>3. CASE Removing
      BY <1>1, <3>3 DEF Made, Removing, RemoveCommand
    <3>4. CASE Upgrading
      <4>1. files.pkg = [saved.files.pkg EXCEPT ![Core] = cmd.to] /\ cmd.name = "upgrade"
        BY <1>1, <3>4 DEF Upgrading, UpgradeCommand
      <4>2. QED BY <3>1, <4>1 DEF Made, Trees
    <3>5. QED BY <1>1, <3>2, <3>3, <3>4 DEF Advancing
  <2>2. QED BY <2>1 DEF Made
<1>4. /\ Write(f, "npm") /\ at' = "npm"
      /\ files' = f /\ UNCHANGED <<modules, advised, cmd, saved, created, installing>>
  BY <1>3 DEF WritePackage, Write, cmdVars
<1>5. f \in Sites
  BY <1>2 DEF Sites
<1>6. /\ f.pkg = Made /\ f.records = files.records
      /\ f.declared = files.declared /\ f.hosted = files.hosted
      /\ f.routes = files.routes /\ f.scaffold = files.scaffold
      /\ f.expected = files.expected /\ f.workflow = files.workflow
  BY <1>2 DEF Sites
<1>7. New' = New /\ Made' = Made /\ NewRecords' = NewRecords /\ Before' = Before
  BY <1>4, SameCommand
<1> HIDE DEF f
<1>8. CASE Adding
  <2>1. AddCommand' /\ CreatedOnly'
    BY <1>4, <1>6, <1>7, <1>8 DEF Adding, AddCommand, CreatedOnly
  <2>2. Adding'
    BY <1>1, <1>4, <1>6, <1>7, <1>8, <2>1 DEF Adding
  <2>3. QED BY <1>4, <1>5, <2>2, GoesOnThen DEF Advancing
<1>9. CASE Removing
  <2>1. RemoveCommand'
    BY <1>4, <1>7, <1>9 DEF Removing, RemoveCommand
  <2>2. Removing'
    BY <1>1, <1>4, <1>6, <1>7, <1>9, <2>1 DEF Removing
  <2>3. QED BY <1>4, <1>5, <2>2, GoesOnThen DEF Advancing
<1>10. CASE Upgrading
  <2>1. UpgradeCommand'
    BY <1>4, <1>7, <1>10 DEF Upgrading, UpgradeCommand
  <2>2. Upgrading'
    BY <1>1, <1>4, <1>6, <1>7, <1>10, <2>1 DEF Upgrading
  <2>3. QED BY <1>4, <1>5, <2>2, GoesOnThen DEF Advancing
<1>11. QED BY <1>1, <1>8, <1>9, <1>10 DEF Advancing

LEMMA ScaffoldThen ==
  ASSUME Inv, NEW e \in Extensions, Scaffold(e)
  PROVE  Inv' /\ Unseen
<1> DEFINE writes == {<<"routes", e>>} \cup
             (IF files.scaffold[e] = "none" THEN {<<"scaffold", e>>} ELSE {})
<1>1. /\ at = "scaffold" /\ e \in New /\ <<"routes", e>> \notin created
      /\ files.routes[e] = "none"
      /\ files' = [files EXCEPT !.routes[e] = "whole",
                               !.scaffold[e] = IF @ = "none" THEN "whole" ELSE @]
      /\ created' = created \cup writes
      /\ at' = IF \A o \in New : <<"routes", o>> \in created' THEN "declare" ELSE "scaffold"
      /\ UNCHANGED <<modules, advised, cmd, saved, installing>>
  BY DEF Scaffold, ToScaffold
<1>2. Adding
  BY <1>1, Steps DEF Advancing, Removing, Upgrading
<1>3. /\ files \in Sites /\ modules \in Trees /\ installing \in BOOLEAN
      /\ created \subseteq {"routes", "scaffold"} \X Extensions
  BY DEF Inv, Shape
<1>4. files' \in Sites
  BY <1>1, <1>3 DEF Sites, Written
<1>5. /\ files'.pkg = files.pkg /\ files'.lock = files.lock /\ files'.records = files.records
      /\ files'.declared = files.declared /\ files'.hosted = files.hosted
      /\ files'.expected = files.expected /\ files'.workflow = files.workflow
  BY <1>1, <1>3 DEF Sites
<1>6. \A o \in Extensions :
        /\ files'.routes[o] = IF o = e THEN "whole" ELSE files.routes[o]
        /\ files'.scaffold[o] = IF o = e /\ files.scaffold[e] = "none" THEN "whole"
                               ELSE files.scaffold[o]
  BY <1>1, <1>3 DEF Sites, Written
<1>7. \A o \in Extensions :
        /\ <<"routes", o>> \in created' <=> <<"routes", o>> \in created \/ o = e
        /\ <<"scaffold", o>> \in created'
              <=> <<"scaffold", o>> \in created \/ (o = e /\ files.scaffold[e] = "none")
  BY <1>1
<1>8. created' \subseteq {"routes", "scaffold"} \X Extensions
  BY <1>1, <1>3
<1>9. New' = New /\ Made' = Made /\ NewRecords' = NewRecords /\ Before' = Before
  BY <1>1, SameCommand
<1>10. CreatedOnly
  BY <1>2 DEF Adding
<1> HIDE DEF writes
<1>11. CreatedOnly'
  <2> SUFFICES ASSUME NEW o \in Extensions
      PROVE
        /\ IF <<"routes", o>> \in created'
           THEN o \in New /\ saved.files.routes[o] = "none" /\ files'.routes[o] = "whole"
           ELSE files'.routes[o] = saved.files.routes[o]
        /\ IF <<"scaffold", o>> \in created'
           THEN o \in New /\ saved.files.scaffold[o] = "none" /\ files'.scaffold[o] = "whole"
           ELSE files'.scaffold[o] = saved.files.scaffold[o]
    BY <1>1, <1>9 DEF CreatedOnly
  <2>1. CASE o = e
    BY <1>1, <1>6, <1>7, <1>10, <2>1 DEF CreatedOnly
  <2>2. CASE o # e
    BY <1>6, <1>7, <1>10, <2>2 DEF CreatedOnly
  <2>3. QED BY <2>1, <2>2
<1>12. AddCommand'
  BY <1>1, <1>2, <1>9 DEF Adding, AddCommand
<1>13. Adding'
  BY <1>1, <1>2, <1>5, <1>9, <1>11, <1>12 DEF Adding
<1>14. QED BY <1>1, <1>3, <1>4, <1>8, <1>13, WithinThen DEF Working

LEMMA DeclareThen ==
  ASSUME Inv, Declare
  PROVE  Inv' /\ Unseen
<1>1. at = "declare" /\ (Adding \/ Removing)
  BY Steps DEF Declare, Advancing, Upgrading
<1>2. files \in Sites /\ New \subseteq Extensions
  BY DEF Inv, Shape, New
<1>3. CASE Adding
  <2> DEFINE f == [files EXCEPT !.declared = @ \cup New]
  <2>1. /\ files' = f /\ at' = "host"
        /\ UNCHANGED <<modules, advised, cmd, saved, created, installing>>
    BY <1>3 DEF Declare, Write, cmdVars, Adding, AddCommand
  <2>2. f \in Sites
    BY <1>2 DEF Sites
  <2>3. /\ f.pkg = files.pkg /\ f.lock = files.lock /\ f.records = files.records
        /\ f.declared = files.declared \cup New /\ f.hosted = files.hosted
        /\ f.routes = files.routes /\ f.scaffold = files.scaffold
        /\ f.expected = files.expected /\ f.workflow = files.workflow
    BY <1>2 DEF Sites
  <2>4. New' = New /\ Made' = Made /\ NewRecords' = NewRecords /\ Before' = Before
    BY <2>1, SameCommand
  <2> HIDE DEF f
  <2>5. AddCommand' /\ CreatedOnly'
    BY <1>3, <2>1, <2>3, <2>4 DEF Adding, AddCommand, CreatedOnly
  <2>6. Adding'
    BY <1>1, <1>3, <2>1, <2>3, <2>4, <2>5 DEF Adding
  <2>7. QED BY <2>1, <2>2, <2>6, GoesOnThen DEF Advancing
<1>4. CASE Removing
  <2> DEFINE routes == [e \in Extensions |-> IF e \in New THEN "none" ELSE files.routes[e]]
             f == [files EXCEPT !.declared = @ \ New, !.routes = routes]
  <2>1. /\ files' = f /\ at' = "host"
        /\ UNCHANGED <<modules, advised, cmd, saved, created, installing>>
    BY <1>4 DEF Declare, Write, cmdVars, Removing, RemoveCommand
  <2>2. routes \in Written
    BY <1>2 DEF Sites, Written
  <2>3. f \in Sites
    BY <1>2, <2>2 DEF Sites
  <2>4. /\ f.pkg = files.pkg /\ f.lock = files.lock /\ f.records = files.records
        /\ f.declared = files.declared \ New /\ f.hosted = files.hosted
        /\ f.routes = routes /\ f.scaffold = files.scaffold
        /\ f.expected = files.expected /\ f.workflow = files.workflow
    BY <1>2 DEF Sites
  <2>5. New' = New /\ Made' = Made /\ NewRecords' = NewRecords /\ Before' = Before
    BY <2>1, SameCommand
  <2>6. \A e \in Extensions :
          routes[e] = IF e \in New THEN "none" ELSE files.routes[e]
    OBVIOUS
  <2> HIDE DEF f, routes
  <2>7. RemoveCommand'
    BY <1>4, <2>1, <2>5 DEF Removing, RemoveCommand
  <2>8. Removing'
    BY <1>1, <1>4, <2>1, <2>4, <2>5, <2>6, <2>7 DEF Removing
  <2>9. QED BY <2>1, <2>3, <2>8, GoesOnThen DEF Advancing
<1>5. QED BY <1>1, <1>3, <1>4

LEMMA WriteHostThen ==
  ASSUME Inv, WriteHost
  PROVE  Inv' /\ Unseen
<1>1. at = "host" /\ (Adding \/ Removing)
  BY Steps DEF WriteHost, Advancing, Upgrading
<1>2. files \in Sites /\ New \subseteq Extensions
  BY DEF Inv, Shape, New
<1> DEFINE hosted == IF cmd.name = "add" THEN files.hosted \cup New ELSE files.hosted \ New
           f == [files EXCEPT !.hosted = hosted]
<1>3. /\ files' = f /\ at' = IF cmd.name = "add" THEN "record" ELSE "package"
      /\ UNCHANGED <<modules, advised, cmd, saved, created, installing>>
  BY DEF WriteHost, Write, cmdVars
<1>4. hosted \in SUBSET Extensions
  BY <1>2 DEF Sites
<1>5. f \in Sites
  BY <1>2, <1>4 DEF Sites
<1>6. /\ f.pkg = files.pkg /\ f.lock = files.lock /\ f.records = files.records
      /\ f.declared = files.declared /\ f.hosted = hosted
      /\ f.routes = files.routes /\ f.scaffold = files.scaffold
      /\ f.expected = files.expected /\ f.workflow = files.workflow
  BY <1>2 DEF Sites
<1>7. New' = New /\ Made' = Made /\ NewRecords' = NewRecords /\ Before' = Before
  BY <1>3, SameCommand
<1> HIDE DEF f
<1>8. CASE Adding
  <2>1. AddCommand' /\ CreatedOnly' /\ cmd.name = "add"
    BY <1>3, <1>6, <1>7, <1>8 DEF Adding, AddCommand, CreatedOnly
  <2>2. Adding'
    BY <1>1, <1>3, <1>6, <1>7, <1>8, <2>1 DEF Adding
  <2>3. QED BY <1>3, <1>5, <2>2, GoesOnThen DEF Advancing
<1>9. CASE Removing
  <2>1. RemoveCommand' /\ cmd.name = "remove"
    BY <1>3, <1>7, <1>9 DEF Removing, RemoveCommand
  <2>2. Removing'
    BY <1>1, <1>3, <1>6, <1>7, <1>9, <2>1 DEF Removing
  <2>3. QED BY <1>3, <1>5, <2>2, GoesOnThen DEF Advancing
<1>10. QED BY <1>1, <1>8, <1>9

-----------------------------------------------------------------------------
(* The end of a command that succeeds                                       *)

\* What every command has done by then.
Done ==
  /\ files' \in Sites /\ UNCHANGED modules /\ advised' = FALSE /\ Over
  /\ files'.pkg = Made /\ files'.lock = Made /\ modules = Made
  /\ files'.records = NewRecords

LEMMA DoneMade ==
  ASSUME Inv, Done, cmd.on \subseteq Addons
  PROVE  /\ saved'.files = files' /\ saved'.modules = Made
         /\ \A a \in Addons : Made[a] = IF a \in cmd.on THEN cmd.to ELSE saved.files.pkg[a]
         /\ Made[Core] = IF cmd.name = "upgrade" THEN cmd.to ELSE saved.files.pkg[Core]
         /\ Site!Installed(files') = {a \in Addons : Made[a] # Absent}
<1>1. saved'.files = files' /\ saved'.modules = Made
  BY DEF Done, Over
<1>3. Core \in Packages /\ Core \notin cmd.on /\ Addons \subseteq Packages /\ Core \notin Addons
  BY AddonsAssumption DEF Packages
<1>4. /\ \A a \in Addons : Made[a] = IF a \in cmd.on THEN cmd.to ELSE saved.files.pkg[a]
      /\ Made[Core] = IF cmd.name = "upgrade" THEN cmd.to ELSE saved.files.pkg[Core]
  BY <1>3 DEF Made
<1>5. Site!Installed(files') = {a \in Addons : Made[a] # Absent}
  BY DEF Done, Site!Installed
<1>6. QED BY <1>1, <1>4, <1>5

LEMMA FiniteAddons ==
  ASSUME NEW S \in SUBSET Addons
  PROVE  IsFiniteSet(S) /\ Cardinality(S) \in Nat
BY AddonsAssumption, FS_Subset, FS_CardinalityType

\* AddonSite counts as AddonInstall does.
LEMMA SameCount ==
  ASSUME NEW S
  PROVE  Site!Cardinality(S) = Cardinality(S)
BY DEF Site!Cardinality, Cardinality

LEMMA AddDone ==
  ASSUME Inv, AddCommand, Done,
         files'.declared = saved.files.declared \cup New,
         files'.hosted = saved.files.hosted \cup New,
         \A e \in Extensions :
           files'.routes[e] = IF e \in New THEN "whole" ELSE saved.files.routes[e],
         \A e \in Extensions :
           saved.files.scaffold[e] # "none" => files'.scaffold[e] = saved.files.scaffold[e],
         files'.expected = saved.files.expected + Cardinality(New),
         files'.workflow = saved.files.workflow
  PROVE  Inv' /\ Site!Added(cmd.on)
<1>1. /\ cmd.on \subseteq Addons /\ cmd.of \subseteq Addons
      /\ saved.files \in Sites /\ cmd.name = "add"
      /\ Site!Agrees(saved.files)
  BY DEF Inv, Shape, AddCommand
<1>2. /\ cmd.to = saved.files.pkg[Core] /\ cmd.to \in Versions /\ cmd.to # Absent
  BY <1>1, VersionsAssumption DEF AddCommand, Site!Agrees
<1>3. /\ \A a \in Addons : Made[a] = IF a \in cmd.on THEN cmd.to ELSE saved.files.pkg[a]
      /\ Made[Core] = saved.files.pkg[Core]
      /\ saved'.files = files' /\ saved'.modules = Made
  BY <1>1, DoneMade
<1>4. /\ Site!Installed(files') = Before \cup cmd.on
      /\ Before = {a \in Addons : saved.files.pkg[a] # Absent}
  BY <1>1, <1>2, <1>3, DoneMade DEF Before, Site!Installed
<1>5. New = cmd.on \cap Extensions
  BY <1>1 DEF New
<1>6. Site!Agrees(files')
  <2>1. files'.pkg[Core] \in Versions /\ files'.workflow = files'.pkg[Core]
    BY <1>1, <1>3 DEF Done, Site!Agrees
  <2>2. \A a \in Addons : files'.pkg[a] \in {Absent, files'.pkg[Core]}
    BY <1>1, <1>2, <1>3 DEF Done, Site!Agrees
  <2>3. \A a \in Addons : a \notin Before \cup cmd.on => files'.records[a] = Absent
    BY <1>1 DEF Done, NewRecords, AddCommand, Site!Agrees, Before
  <2>4. /\ files'.declared = Site!Installed(files') \cap Extensions
        /\ files'.hosted = files'.declared
    BY <1>1, <1>4, <1>5 DEF Site!Agrees, Before
  <2>5. \A e \in Extensions : files'.routes[e] = "whole" <=> e \in files'.declared
    BY <1>1, <1>5 DEF Site!Agrees
  <2>6. files'.expected = Cardinality(files'.declared)
    <3>1. /\ saved.files.declared \subseteq Addons /\ New \subseteq Addons
          /\ saved.files.declared \cap New = {}
          /\ saved.files.expected = Cardinality(saved.files.declared)
      <4>1. /\ saved.files.declared = Before \cap Extensions
            /\ saved.files.expected = Cardinality(saved.files.declared)
        BY <1>1, SameCount DEF Site!Agrees, Before
      <4>2. QED BY <1>1, <1>4, <1>5, <4>1 DEF AddCommand
    <3>2. Cardinality(saved.files.declared \cup New)
            = Cardinality(saved.files.declared) + Cardinality(New) - Cardinality({})
      <4>1. IsFiniteSet(saved.files.declared) /\ IsFiniteSet(New)
        BY <3>1, FiniteAddons
      <4>2. QED BY <3>1, <4>1, FS_Union
    <3>3. Cardinality({}) = 0
      BY FS_EmptySet
    <3>4. Cardinality(New) \in Nat /\ Cardinality(saved.files.declared) \in Nat
      BY <3>1, FiniteAddons
    <3>5. QED BY <3>1, <3>2, <3>3, <3>4
  <2>7. files'.lock \in {files'.pkg, NoLock}
    BY DEF Done
  <2>8. \A a \in Addons \ Site!Installed(files') : files'.records[a] = Absent
    BY <1>4, <2>3
  <2>9. QED BY <2>1, <2>2, <2>4, <2>5, <2>6, <2>7, <2>8, SameCount DEF Site!Agrees
<1>7. Inv'
  BY <1>6, OverThen DEF Done, Inv, Shape
<1>8. Site!Changed
  <2>1. ASSUME Site!Complete(saved.files) PROVE Site!Complete(files')
    BY <1>4, <2>1 DEF Site!Complete, Before, AddCommand
  <2>2. Site!Agrees(saved.files')
    BY <1>3, <1>6
  <2>3. QED BY <1>3, <1>6, <2>1 DEF Site!Changed, Done
<1>9. \A a \in Addons :
        files'.records[a] = files'.pkg[a] \/ (a \notin cmd.on /\ files'.records[a] = saved.files.records[a])
  BY DEF Done, NewRecords
<1>10. Site!Added(cmd.on)
  BY <1>3, <1>4, <1>8, <1>9 DEF Site!Added, Before, Done
<1>11. QED BY <1>7, <1>10

LEMMA RemoveDone ==
  ASSUME Inv, RemoveCommand, Done,
         files'.declared = saved.files.declared \ New,
         files'.hosted = saved.files.hosted \ New,
         \A e \in Extensions :
           files'.routes[e] = IF e \in New THEN "none" ELSE saved.files.routes[e],
         files'.scaffold = saved.files.scaffold,
         files'.expected = saved.files.expected - Cardinality(New),
         files'.workflow = saved.files.workflow
  PROVE  Inv' /\ \E a \in Addons : Site!Removed(a)
<1>1. PICK a \in Before :
        /\ cmd.on = {a} /\ cmd.of = {a}
        /\ \A b \in Before : saved.modules[b] # Absent => a \notin Requires[b]
  BY DEF RemoveCommand
<1>2. /\ a \in Addons /\ saved.files \in Sites /\ cmd.name = "remove" /\ cmd.to = Absent
      /\ Site!Agrees(saved.files)
  BY DEF Inv, Shape, RemoveCommand, Before, Site!Installed
<1>3. /\ \A b \in Addons : Made[b] = IF b = a THEN Absent ELSE saved.files.pkg[b]
      /\ Made[Core] = saved.files.pkg[Core]
      /\ saved'.files = files' /\ saved'.modules = Made
  BY <1>1, <1>2, DoneMade
<1>4. /\ Site!Installed(files') = Before \ {a}
      /\ Before = {b \in Addons : saved.files.pkg[b] # Absent}
  BY <1>1, <1>2, <1>3, DoneMade DEF Before, Site!Installed
<1>5. New = {a} \cap Extensions
  BY <1>1, <1>2 DEF New
<1>6. files'.records = [saved.files.records EXCEPT ![a] = Absent]
  <2>1. saved.files.records \in [Addons -> Versions \cup {Absent}]
    BY <1>2 DEF Sites
  <2>2. \A b \in Addons : NewRecords[b] = IF b = a THEN Absent ELSE saved.files.records[b]
    BY <1>1, <1>3 DEF NewRecords
  <2>3. QED BY <2>1, <2>2 DEF Done, NewRecords
<1>7. Site!Agrees(files')
  <2>1. files'.pkg[Core] \in Versions /\ files'.workflow = files'.pkg[Core]
    BY <1>2, <1>3 DEF Done, Site!Agrees
  <2>2. \A b \in Addons : files'.pkg[b] \in {Absent, files'.pkg[Core]}
    BY <1>2, <1>3 DEF Done, Site!Agrees
  <2>3. \A b \in Addons \ Site!Installed(files') : files'.records[b] = Absent
    <3>1. saved.files.records \in [Addons -> Versions \cup {Absent}]
      BY <1>2 DEF Sites
    <3>2. \A b \in Addons \ Before : saved.files.records[b] = Absent
      BY <1>2 DEF Site!Agrees, Before
    <3>3. QED BY <1>4, <1>6, <3>1, <3>2
  <2>4. saved.files.declared = Before \cap Extensions /\ saved.files.hosted = saved.files.declared
    BY <1>2 DEF Site!Agrees, Before
  <2>5. /\ files'.declared = Site!Installed(files') \cap Extensions
        /\ files'.hosted = files'.declared
    BY <1>4, <1>5, <2>4
  <2>6. \A e \in Extensions : files'.routes[e] = "whole" <=> e \in files'.declared
    BY <1>2 DEF Site!Agrees
  <2>7. files'.expected = Cardinality(files'.declared)
    <3>1. /\ saved.files.declared \subseteq Addons
          /\ saved.files.declared \cap New = New
          /\ saved.files.expected = Cardinality(saved.files.declared)
      BY <1>2, <1>4, <1>1, <1>5, <2>4, SameCount DEF Site!Agrees
    <3>2. Cardinality(saved.files.declared \ New)
            = Cardinality(saved.files.declared) - Cardinality(New)
      <4>1. IsFiniteSet(saved.files.declared)
        BY <3>1, FiniteAddons
      <4>2. Cardinality(saved.files.declared \ New)
              = Cardinality(saved.files.declared) - Cardinality(saved.files.declared \cap New)
        BY <4>1, FS_Difference
      <4>3. QED BY <3>1, <4>2
    <3>3. QED BY <3>1, <3>2
  <2>8. files'.lock \in {files'.pkg, NoLock}
    BY DEF Done
  <2>9. QED BY <2>1, <2>2, <2>3, <2>5, <2>6, <2>7, <2>8, SameCount DEF Site!Agrees
<1>8. Inv'
  BY <1>7, OverThen DEF Done, Inv, Shape
<1>9. Site!Changed
  <2>1. ASSUME Site!Complete(saved.files), saved.modules = saved.files.pkg
        PROVE  Site!Complete(files')
    BY <1>1, <1>4, <2>1 DEF Site!Complete, Before
  <2>2. Site!Agrees(saved'.files)
    BY <1>3, <1>7
  <2>3. QED BY <1>3, <1>7, <2>1 DEF Site!Changed, Done
<1>10. Site!Removed(a)
  BY <1>3, <1>4, <1>6, <1>9 DEF Site!Removed, Before, Done
<1>11. QED BY <1>2, <1>8, <1>10

LEMMA UpgradeDone ==
  ASSUME Inv, UpgradeCommand, Done,
         files'.declared = saved.files.declared, files'.hosted = saved.files.hosted,
         files'.routes = saved.files.routes, files'.scaffold = saved.files.scaffold,
         files'.expected = saved.files.expected, files'.workflow = cmd.to
  PROVE  Inv' /\ \E v \in Versions : Site!Upgraded(v)
<1>1. /\ cmd.to \in Versions /\ cmd.to # Absent /\ cmd.name = "upgrade"
      /\ cmd.on = Before /\ cmd.of = Before /\ Before \subseteq Addons
      /\ saved.files \in Sites /\ Site!Agrees(saved.files)
  BY VersionsAssumption DEF Inv, Shape, UpgradeCommand, Before, Site!Installed
<1>2. /\ \A b \in Addons : Made[b] = IF b \in Before THEN cmd.to ELSE Absent
      /\ Made[Core] = cmd.to
      /\ saved'.files = files' /\ saved'.modules = Made
  BY <1>1, DoneMade DEF Before, Site!Installed
<1>3. Site!Installed(files') = Before
  BY <1>1, <1>2, DoneMade
<1>4. /\ \A b \in Before : files'.records[b] = cmd.to
      /\ \A b \in Addons \ Before : files'.records[b] = saved.files.records[b]
  BY <1>1, <1>2 DEF Done, NewRecords
<1>5. Site!Agrees(files')
  <2>1. files'.pkg[Core] \in Versions /\ files'.workflow = files'.pkg[Core]
    BY <1>1, <1>2 DEF Done
  <2>2. \A b \in Addons : files'.pkg[b] \in {Absent, files'.pkg[Core]}
    BY <1>2 DEF Done
  <2>3. \A b \in Addons \ Site!Installed(files') : files'.records[b] = Absent
    BY <1>1, <1>3, <1>4 DEF Site!Agrees, Before
  <2>4. /\ files'.declared = Site!Installed(files') \cap Extensions
        /\ files'.hosted = files'.declared
        /\ \A e \in Extensions : files'.routes[e] = "whole" <=> e \in files'.declared
    BY <1>1, <1>3 DEF Site!Agrees, Before
  <2>5. files'.expected = Cardinality(files'.declared)
    BY <1>1, SameCount DEF Site!Agrees
  <2>6. files'.lock \in {files'.pkg, NoLock}
    BY DEF Done
  <2>7. QED BY <2>1, <2>2, <2>3, <2>4, <2>5, <2>6, SameCount DEF Site!Agrees
<1>6. Inv'
  BY <1>5, OverThen DEF Done, Inv, Shape
<1>7. Site!Changed
  <2>1. ASSUME Site!Complete(saved.files) PROVE Site!Complete(files')
    BY <1>3, <2>1 DEF Site!Complete, Before
  <2>2. Site!Agrees(saved'.files)
    BY <1>2, <1>5
  <2>3. QED BY <1>2, <1>5, <2>1 DEF Site!Changed, Done
<1>8. Site!Upgraded(cmd.to)
  BY <1>2, <1>3, <1>4, <1>7 DEF Site!Upgraded, Before, Done
<1>9. QED BY <1>1, <1>6, <1>8

\* What is to be shown of every step.
Promised == Inv' /\ (Unseen \/ Site!Whole)

LEMMA RecordThen ==
  ASSUME Inv, Record
  PROVE  Promised
<1> DEFINE f == [files EXCEPT !.records = NewRecords]
<1>1. at = "record" /\ Advancing
  BY Steps DEF Record
<1>2. /\ files \in Sites /\ NewRecords \in [Addons -> Versions \cup {Absent}]
      /\ cmd.on \subseteq Addons /\ New \subseteq Extensions
  BY MadeTyped DEF Inv, Shape, New
<1>3. /\ files.records = saved.files.records /\ modules = Made
      /\ files.pkg = Made /\ files.lock = Made
  BY <1>1 DEF Advancing, Adding, Removing, Upgrading
<1>4. [a \in Addons |-> IF a \in cmd.on \/ (a \in cmd.of /\ files.records[a] = Absent)
                       THEN modules[a] ELSE files.records[a]] = NewRecords
  BY <1>3 DEF NewRecords
<1>5. Write(f, CASE cmd.name = "upgrade" -> "workflow" [] New # {} -> "count" [] OTHER -> "done")
  BY <1>4 DEF Record
<1>6. /\ f.pkg = files.pkg /\ f.lock = files.lock /\ f.records = NewRecords
      /\ f.declared = files.declared /\ f.hosted = files.hosted
      /\ f.routes = files.routes /\ f.scaffold = files.scaffold
      /\ f.expected = files.expected /\ f.workflow = files.workflow
  BY <1>2 DEF Sites
<1>7. f \in Sites
  BY <1>2 DEF Sites
<1>8. files' = f /\ UNCHANGED modules
  BY <1>5 DEF Write
<1> HIDE DEF f
<1>9. CASE cmd.name = "upgrade"
  <2>1. /\ at' = "workflow"
        /\ UNCHANGED <<modules, advised, cmd, saved, created, installing>>
    <3>1. New = {}
      BY <1>9 DEF New
    <3>2. Write(f, "workflow")
      BY <1>5, <1>9, <3>1
    <3>3. QED BY <3>2 DEF Write, cmdVars
  <2>2. New' = New /\ Made' = Made /\ NewRecords' = NewRecords /\ Before' = Before
    BY <2>1, SameCommand
  <2>3. Upgrading
    BY <1>1, <1>9 DEF Advancing, Adding, AddCommand, Removing, RemoveCommand
  <2>4. UpgradeCommand'
    BY <2>1, <2>2, <2>3 DEF Upgrading, UpgradeCommand
  <2>5. Upgrading'
    BY <1>1, <1>3, <1>6, <1>8, <2>1, <2>2, <2>3, <2>4 DEF Upgrading
  <2>6. QED BY <1>7, <1>8, <2>1, <2>5, GoesOnThen DEF Advancing, Promised
<1>10. CASE cmd.name # "upgrade" /\ New # {}
  <2>1. /\ at' = "count"
        /\ UNCHANGED <<modules, advised, cmd, saved, created, installing>>
    BY <1>5, <1>10 DEF Write, cmdVars
  <2>2. New' = New /\ Made' = Made /\ NewRecords' = NewRecords /\ Before' = Before
    BY <2>1, SameCommand
  <2>3. CASE Adding
    <3>1. AddCommand' /\ CreatedOnly'
      BY <1>6, <1>8, <2>1, <2>2, <2>3 DEF Adding, AddCommand, CreatedOnly
    <3>2. Adding'
      BY <1>1, <1>3, <1>6, <1>8, <2>1, <2>2, <2>3, <3>1 DEF Adding
    <3>3. QED BY <1>7, <1>8, <2>1, <3>2, GoesOnThen DEF Advancing, Promised
  <2>4. CASE Removing
    <3>1. RemoveCommand'
      BY <2>1, <2>2, <2>4 DEF Removing, RemoveCommand
    <3>2. Removing'
      BY <1>1, <1>3, <1>6, <1>8, <2>1, <2>2, <2>4, <3>1 DEF Removing
    <3>3. QED BY <1>7, <1>8, <2>1, <3>2, GoesOnThen DEF Advancing, Promised
  <2>5. QED BY <1>1, <1>10, <2>3, <2>4 DEF Advancing, Upgrading, UpgradeCommand
<1>11. CASE cmd.name # "upgrade" /\ New = {}
  <2>1. Over /\ advised' = FALSE
    BY <1>5, <1>11 DEF Write
  <2>2. Done
    BY <1>3, <1>6, <1>7, <1>8, <2>1 DEF Done
  <2>3. Cardinality(New) = 0 /\ files'.expected = files.expected /\ files.expected \in Int
    BY <1>2, <1>6, <1>8, <1>11, FS_EmptySet DEF Sites
  <2>4. CASE Adding
    <3>1. AddCommand /\ CreatedOnly
      BY <2>4 DEF Adding
    <3>2. /\ files'.declared = saved.files.declared \cup New
          /\ files'.hosted = saved.files.hosted \cup New
          /\ files'.workflow = saved.files.workflow
          /\ files'.expected = saved.files.expected + Cardinality(New)
      BY <1>1, <1>6, <1>8, <2>3, <2>4 DEF Adding
    <3>3. \A e \in Extensions :
            /\ files'.routes[e] = saved.files.routes[e] /\ e \notin New
            /\ files'.scaffold[e] = saved.files.scaffold[e]
      BY <1>6, <1>8, <1>11, <3>1 DEF CreatedOnly
    <3>4. Inv' /\ Site!Added(cmd.on)
      BY <2>2, <3>1, <3>2, <3>3, AddDone
    <3>5. QED BY <1>2, <3>4 DEF Promised, Site!Whole
  <2>5. CASE Removing
    <3>1. /\ files'.declared = saved.files.declared \ New
          /\ files'.hosted = saved.files.hosted \ New
          /\ files'.scaffold = saved.files.scaffold
          /\ files'.workflow = saved.files.workflow
          /\ files'.expected = saved.files.expected - Cardinality(New)
          /\ RemoveCommand
      BY <1>1, <1>6, <1>8, <2>3, <2>5 DEF Removing
    <3>2. \A e \in Extensions :
            files'.routes[e] = IF e \in New THEN "none" ELSE saved.files.routes[e]
      BY <1>1, <1>6, <1>8, <2>5 DEF Removing
    <3>3. Inv' /\ \E a \in Addons : Site!Removed(a)
      BY <2>2, <3>1, <3>2, RemoveDone
    <3>4. QED BY <3>3 DEF Promised, Site!Whole
  <2>6. QED BY <1>1, <1>11, <2>4, <2>5 DEF Advancing, Upgrading, UpgradeCommand
<1>12. QED BY <1>9, <1>10, <1>11

LEMMA CountThen ==
  ASSUME Inv, Count
  PROVE  Promised
<1> DEFINE n == IF cmd.name = "add" THEN files.expected + Cardinality(New)
                                    ELSE files.expected - Cardinality(New)
           f == [files EXCEPT !.expected = n]
<1>1. at = "count" /\ Advancing
  BY Steps DEF Count
<1>2. /\ files \in Sites /\ cmd.on \subseteq Addons /\ New \subseteq Addons
      /\ files.expected \in Int
  BY AddonsAssumption DEF Inv, Shape, New, Sites
<1>3. files' = f /\ UNCHANGED modules /\ Over /\ advised' = FALSE
  BY DEF Count, Write
<1>4. Cardinality(New) \in Nat
  BY <1>2, FiniteAddons
<1>5. n \in Int
  BY <1>2, <1>4
<1>6. f \in Sites
  BY <1>2, <1>5 DEF Sites
<1>7. /\ f.pkg = files.pkg /\ f.lock = files.lock /\ f.records = files.records
      /\ f.declared = files.declared /\ f.hosted = files.hosted
      /\ f.routes = files.routes /\ f.scaffold = files.scaffold
      /\ f.expected = n /\ f.workflow = files.workflow
  BY <1>2 DEF Sites
<1>8. /\ files.pkg = Made /\ files.lock = Made /\ modules = Made
      /\ files.records = NewRecords
  BY <1>1 DEF Advancing, Adding, Removing, Upgrading
<1> HIDE DEF f
<1>9. Done
  BY <1>3, <1>6, <1>7, <1>8 DEF Done
<1>10. CASE Adding
  <2>1. /\ AddCommand /\ CreatedOnly
        /\ files'.declared = saved.files.declared \cup New
        /\ files'.hosted = saved.files.hosted \cup New
        /\ files'.workflow = saved.files.workflow
    BY <1>1, <1>3, <1>7, <1>10 DEF Adding
  <2>2. files'.expected = saved.files.expected + Cardinality(New)
    BY <1>3, <1>7, <1>10 DEF Adding, AddCommand
  <2>3. \A e \in New : <<"routes", e>> \in created
    BY <1>1, <1>10 DEF Adding
  <2>4. \A e \in Extensions :
          /\ files'.routes[e] = IF e \in New THEN "whole" ELSE saved.files.routes[e]
          /\ saved.files.scaffold[e] # "none" => files'.scaffold[e] = saved.files.scaffold[e]
    <3> SUFFICES ASSUME NEW e \in Extensions
                 PROVE  /\ files'.routes[e] = IF e \in New THEN "whole" ELSE saved.files.routes[e]
                        /\ saved.files.scaffold[e] # "none"
                             => files'.scaffold[e] = saved.files.scaffold[e]
      OBVIOUS
    <3>1. /\ files'.routes[e] = files.routes[e]
          /\ files'.scaffold[e] = files.scaffold[e]
      BY <1>3, <1>7
    <3>2. files.routes[e] = IF e \in New THEN "whole" ELSE saved.files.routes[e]
      BY <2>1, <2>3 DEF CreatedOnly
    <3>3. saved.files.scaffold[e] # "none" => files.scaffold[e] = saved.files.scaffold[e]
      BY <2>1 DEF CreatedOnly
    <3>4. QED BY <3>1, <3>2, <3>3
  <2>5. Inv' /\ Site!Added(cmd.on)
    BY <1>9, <2>1, <2>2, <2>4, AddDone
  <2>6. QED BY <1>2, <2>5 DEF Promised, Site!Whole
<1>11. CASE Removing
  <2>1. /\ RemoveCommand
        /\ files'.declared = saved.files.declared \ New
        /\ files'.hosted = saved.files.hosted \ New
        /\ files'.scaffold = saved.files.scaffold
        /\ files'.workflow = saved.files.workflow
        /\ files'.expected = saved.files.expected - Cardinality(New)
    BY <1>1, <1>3, <1>7, <1>11 DEF Removing, RemoveCommand
  <2>2. \A e \in Extensions :
          files'.routes[e] = IF e \in New THEN "none" ELSE saved.files.routes[e]
    BY <1>1, <1>3, <1>7, <1>11 DEF Removing
  <2>3. Inv' /\ \E a \in Addons : Site!Removed(a)
    BY <1>9, <2>1, <2>2, RemoveDone
  <2>4. QED BY <2>3 DEF Promised, Site!Whole
<1>12. QED BY <1>1, <1>10, <1>11 DEF Advancing, Upgrading

LEMMA WorkflowThen ==
  ASSUME Inv, WriteWorkflow
  PROVE  Promised
<1> DEFINE f == [files EXCEPT !.workflow = cmd.to]
<1>1. at = "workflow" /\ Upgrading
  BY Steps DEF WriteWorkflow, Advancing, Adding, Removing
<1>2. files \in Sites /\ cmd.to \in Versions /\ UpgradeCommand
  BY <1>1 DEF Inv, Shape, Upgrading, UpgradeCommand
<1>3. files' = f /\ UNCHANGED modules /\ Over /\ advised' = FALSE
  BY <1>1 DEF WriteWorkflow, Write
<1>4. f \in Sites
  BY <1>2 DEF Sites
<1>5. /\ f.pkg = files.pkg /\ f.lock = files.lock /\ f.records = files.records
      /\ f.declared = files.declared /\ f.hosted = files.hosted
      /\ f.routes = files.routes /\ f.scaffold = files.scaffold
      /\ f.expected = files.expected /\ f.workflow = cmd.to
  BY <1>2 DEF Sites
<1> HIDE DEF f
<1>6. Done
  BY <1>1, <1>3, <1>4, <1>5 DEF Done, Upgrading
<1>7. Inv' /\ \E v \in Versions : Site!Upgraded(v)
  BY <1>1, <1>2, <1>3, <1>5, <1>6, UpgradeDone DEF Upgrading
<1>8. QED BY <1>7 DEF Promised, Site!Whole

-----------------------------------------------------------------------------
(* The refinement                                                           *)

\* A site as init left it is sound.
LEMMA FreshThen ==
  ASSUME NEW f, NEW m, Fresh(f, m)
  PROVE  f \in Sites /\ m \in Trees /\ Site!Sound(f, m)
<1>1. PICK v \in Versions, N \in SUBSET Addons :
        LET pkg == [p \in Packages |-> IF p \in N \cup {Core} THEN v ELSE Absent] IN
        /\ N \subseteq Releases[v] /\ \A a \in N : Requires[a] \subseteq N
        /\ \E lock \in {pkg, NoLock}, R \in SUBSET N :
             f = [pkg |-> pkg, lock |-> lock,
                  records |-> [a \in Addons |-> IF a \in R THEN v ELSE Absent],
                  declared |-> N \cap Extensions, hosted |-> N \cap Extensions,
                  routes |-> [e \in Extensions |-> IF e \in N THEN "whole" ELSE "none"],
                  scaffold |-> [e \in Extensions |-> IF e \in N THEN "whole" ELSE "none"],
                  expected |-> Cardinality(N \cap Extensions), workflow |-> v]
        /\ m = pkg
  BY DEF Fresh
<1> DEFINE pkg == [p \in Packages |-> IF p \in N \cup {Core} THEN v ELSE Absent]
           written == [e \in Extensions |-> IF e \in N THEN "whole" ELSE "none"]
<1>2. PICK lock \in {pkg, NoLock}, R \in SUBSET N :
             f = [pkg |-> pkg, lock |-> lock,
                  records |-> [a \in Addons |-> IF a \in R THEN v ELSE Absent],
                  declared |-> N \cap Extensions, hosted |-> N \cap Extensions,
                  routes |-> written, scaffold |-> written,
                  expected |-> Cardinality(N \cap Extensions), workflow |-> v]
  BY <1>1
<1> DEFINE records == [a \in Addons |-> IF a \in R THEN v ELSE Absent]
<1>3. m = pkg /\ \A a \in N : Requires[a] \subseteq N
  BY <1>1
<1>4. pkg \in Trees /\ written \in Written /\ records \in [Addons -> Versions \cup {Absent}]
  BY DEF Trees, Written
<1>5. Core \in Packages /\ Core \notin Addons /\ Addons \subseteq Packages /\ v # Absent
  BY AddonsAssumption, VersionsAssumption DEF Packages
<1>6. /\ pkg[Core] = v /\ \A a \in Addons : pkg[a] = IF a \in N THEN v ELSE Absent
      /\ \A e \in Extensions : written[e] = IF e \in N THEN "whole" ELSE "none"
      /\ \A a \in Addons : records[a] = IF a \in R THEN v ELSE Absent
  BY <1>5
<1> HIDE DEF pkg, written, records
<1>7. /\ f.pkg = pkg /\ f.lock = lock /\ f.records = records
      /\ f.declared = N \cap Extensions /\ f.hosted = N \cap Extensions
      /\ f.routes = written /\ f.scaffold = written
      /\ f.expected = Cardinality(N \cap Extensions) /\ f.workflow = v
  BY <1>2 DEF records
<1>8. f \in Sites
  <2>1. Cardinality(N \cap Extensions) \in Int
    BY FiniteAddons
  <2>2. QED BY <1>2, <1>4, <2>1 DEF Sites, records
<1>9. Site!Installed(f) = N
  BY <1>5, <1>6, <1>7 DEF Site!Installed
<1>10. Site!Agrees(f)
  BY <1>6, <1>7, <1>9, SameCount DEF Site!Agrees
<1>11. Site!Sound(f, m)
  <2>1. Site!Torn(f) = {}
    BY <1>6, <1>7 DEF Site!Torn
  <2>2. Site!Complete(f)
    BY <1>3, <1>9 DEF Site!Complete
  <2>3. \A a \in Addons : f.records[a] \in {Absent, f.pkg[a]}
    BY <1>6, <1>7
  <2>4. QED BY <1>3, <1>7, <1>10, <2>1, <2>2, <2>3 DEF Site!Sound
<1>12. QED BY <1>3, <1>4, <1>8, <1>11

LEMMA InitStep == Init => Inv /\ Site!Init
<1> SUFFICES ASSUME Init
             PROVE  Inv /\ Site!Init
  OBVIOUS
<1>1. /\ Fresh(files, modules) /\ advised = FALSE /\ cmd = Idle /\ at = "none"
      /\ saved = [files |-> files, modules |-> modules]
      /\ created = {} /\ installing = FALSE
  BY DEF Init
<1>2. saved.files = files /\ saved.modules = modules
  BY <1>1
<1>3. files \in Sites /\ modules \in Trees /\ Site!Sound(files, modules)
  BY <1>1, FreshThen
<1>4. cmd \in [name : {"none", "add", "remove", "upgrade"}, on : SUBSET Addons,
              of : SUBSET Addons, to : Versions \cup {Absent}]
  BY <1>1 DEF Idle
<1>5. Shape
  BY <1>1, <1>3, <1>4 DEF Shape
<1>6. Inv
  BY <1>1, <1>2, <1>3, <1>5 DEF Inv, Idling, Site!Sound
<1>7. Site!Init
  BY <1>1, <1>2, <1>3 DEF Site!Init
<1>8. QED BY <1>6, <1>7

\* With a site put back by the operator, the invariant holds again.
LEMMA RepairThen ==
  ASSUME Repair
  PROVE  Inv' /\ Site!Repaired
<1>1. Fresh(files', modules') /\ advised' = FALSE /\ Over
  BY DEF Repair
<1>2. files' \in Sites /\ modules' \in Trees /\ Site!Sound(files', modules')
  BY <1>1, FreshThen
<1>3. Inv'
  BY <1>1, <1>2, OverThen DEF Site!Sound
<1>4. at = "broken" /\ at' = "none" /\ saved'.files = files' /\ saved'.modules = modules'
  BY <1>1 DEF Repair, Over
<1>5. QED BY <1>1, <1>2, <1>3, <1>4 DEF Site!Repaired

\* The steps of the commands, as long as no rollback has failed at a file.
LEMMA NextStep ==
  ASSUME Inv, [Next]_vars, ~RestoreFilesFails
  PROVE  Promised
<1>1. CASE UNCHANGED vars
  <2>1. UNCHANGED <<files, modules, advised, at, cmd, saved, created, installing>>
    BY <1>1 DEF vars, siteVars, cmdVars
  <2>2. New' = New /\ Made' = Made /\ NewRecords' = NewRecords /\ Before' = Before
    BY <2>1, SameCommand
  <2>3. Shape' /\ Site!Agrees(saved.files)'
    BY <2>1 DEF Inv, Shape, Site!Agrees, Site!Installed
  <2>4. Idling => Idling'
    BY <2>1 DEF Idling
  <2>5. Adding => Adding'
    BY <2>1, <2>2 DEF Adding, AddCommand, CreatedOnly
  <2>6. Removing => Removing'
    BY <2>1, <2>2 DEF Removing, RemoveCommand
  <2>7. Upgrading => Upgrading'
    BY <2>1, <2>2 DEF Upgrading, UpgradeCommand
  <2>8. Restoring => Restoring'
    BY <2>1 DEF Restoring, KeptFile
  <2>9. Replanting => Replanting'
    BY <2>1 DEF Replanting, KeptSite, KeptFile
  <2>10. QED BY <2>1, <2>3, <2>4, <2>5, <2>6, <2>7, <2>8, <2>9 DEF Inv, Working, Promised, Unseen
<1>2. CASE Command
  BY <1>2, AddBegins, RemoveBegins, UpgradeBegins, RecordingBegins
     DEF Command, Promised, Site!Whole
<1>3. CASE Step
  BY <1>3, WriteCoreThen, WritePackageThen, NpmThen, DeclareThen, WriteHostThen, RecordThen,
     CountThen, WorkflowThen, ScaffoldThen DEF Step, Promised
<1>4. CASE Failure
  BY <1>4, FailsThen, NpmFailsThen, RestoresFiles, RestoresTree, TornThen
     DEF Failure, Promised, Site!Whole
<1>5. CASE Repair
  BY <1>5 DEF Repair, Inv, Idling, Working, Adding, Removing, Upgrading, Restoring, Replanting
<1>6. QED BY <1>1, <1>2, <1>3, <1>4, <1>5 DEF Next

\* A broken site is left as it is until the operator repairs it.
LEMMA BrokenStep ==
  ASSUME at = "broken", [Next]_vars
  PROVE  \/ at' = "broken" /\ Unseen
         \/ Inv' /\ Site!Repaired
<1>1. CASE UNCHANGED vars
  BY <1>1 DEF vars, siteVars, cmdVars, Unseen
<1>2. CASE Repair
  BY <1>2, RepairThen
<1>3. ~Command
  BY DEF Command, addAddons, addInstalled, recordInstalled, removeAddon, upgradeSite, Running
<1>4. ~Step
  BY DEF Step, WriteCore, WritePackage, Npm, Declare, WriteHost, Record, Count, WriteWorkflow,
         Scaffold, ToScaffold
<1>5. ~Failure
  BY DEF Failure, Fails, NpmFails, RestoreFiles, RestoreFilesFails, RestoreTree,
         RestoreTreeFails, WriteTorn, ScaffoldTorn, MayTear, ToScaffold
<1>6. QED BY <1>1, <1>2, <1>3, <1>4, <1>5 DEF Next

\* Every step is a step of the contract, or one it does not see.
LEMMA EveryStep ==
  (Inv \/ at = "broken") /\ [Next]_vars => (Inv \/ at = "broken")' /\ [Site!Next]_(Site!vars)
<1> SUFFICES ASSUME Inv \/ at = "broken", [Next]_vars
             PROVE  (Inv \/ at = "broken")' /\ [Site!Next]_(Site!vars)
  OBVIOUS
<1>1. Inv => at # "broken"
  BY DEF Inv, Idling, Working, Adding, Removing, Upgrading, Restoring, Replanting
<1>2. Inv' => at' # "broken"
  BY DEF Inv, Idling, Working, Adding, Removing, Upgrading, Restoring, Replanting
<1>3. CASE Inv /\ ~RestoreFilesFails
  <2>1. Promised
    BY <1>3, NextStep
  <2>2. at # "broken" /\ at' # "broken"
    BY <1>1, <1>2, <1>3, <2>1 DEF Promised
  <2>3. QED BY <2>1, <2>2 DEF Promised, Unseen, Site!Next, Site!vars
<1>4. CASE Inv /\ RestoreFilesFails
  BY <1>4, BreaksThen DEF Site!Next
<1>5. CASE at = "broken"
  BY <1>5, BrokenStep DEF Unseen, Site!Next, Site!vars
<1>6. QED BY <1>3, <1>4, <1>5

\* For any add-ons, versions and releases, and whatever step of whatever sequence
\* of site commands fails, the rollback's own steps included, AddonInstall
\* implements AddonSite: a command changes the site as a whole; or it leaves all
\* files but torn new ones as they were and names a node_modules it could not
\* restore; or its rollback fails at a file, and then it keeps at least the
\* scaffold files that were there (HalfRestored).
THEOREM SiteCommandsRefined == Spec => SiteCommandsAtomic
<1>1. Init => (Inv \/ at = "broken") /\ Site!Init
  BY InitStep
<1>2. (Inv \/ at = "broken") /\ [Next]_vars => (Inv \/ at = "broken")'
  BY EveryStep
<1>3. (Inv \/ at = "broken") /\ [Next]_vars => [Site!Next]_(Site!vars)
  BY EveryStep
<1>4. QED BY <1>1, <1>2, <1>3, PTL DEF Spec, SiteCommandsAtomic, Site!Spec
=============================================================================
