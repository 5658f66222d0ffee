---------------------------- MODULE AddonInstall ----------------------------
(***************************************************************************)
(* The site commands of packages/core/src: addAddons and removeAddon       *)
(* (addon-install.ts) and upgradeSite (upgrade.ts), step by step, each of  *)
(* which may fail: a file cannot be written, npm fails half-way, a check   *)
(* refuses what was installed. A command that fails restores the files it  *)
(* saved, then the dependency tree if it had run npm; either may fail too. *)
(*                                                                         *)
(* One command runs at a time, of a CLI of the version package.json pins.  *)
(* Only catalog add-ons are modelled. An extension has one route and one   *)
(* scaffold file. No command is run on a site whose files were restored    *)
(* half-way until the operator has put a sound one in its place (Repair).  *)
(***************************************************************************)
EXTENDS Naturals, FiniteSets

CONSTANTS Addons, Extensions, Core, Requires, Versions, Absent, NoLock,
  Releases,  \* Releases[v]: the add-ons that version v of core has pins for
  MaxTorn    \* bound: how many extensions of a site may have a torn file

ASSUME AddonsAssumption ==
  /\ IsFiniteSet(Addons) /\ Extensions \subseteq Addons /\ Core \notin Addons
  /\ Requires \in [Addons -> SUBSET Addons]
  /\ \A a \in Addons \ Extensions : Requires[a] \cap Extensions = {}
ASSUME VersionsAssumption == Absent \notin Versions /\ NoLock \notin Versions
ASSUME ReleasesAssumption == Releases \in [Versions -> SUBSET Addons]
ASSUME MaxTornAssumption == MaxTorn \in Nat

VARIABLES
  files,      \* as in AddonSite
  modules,
  advised,
  cmd,        \* the command that runs: its name, the add-ons it moves, all
              \* it is about, and the version it moves to
  at,         \* the step it is to take
  saved,      \* the files and node_modules as the last command left them
  created,    \* the files the command created: <<part, extension>>
  installing  \* npm may have changed the dependency tree

siteVars == <<files, modules, advised>>
cmdVars == <<cmd, saved, created, installing>>
vars == <<siteVars, at, cmdVars>>

Packages == Addons \cup {Core}
Idle == [name |-> "none", on |-> {}, of |-> {}, to |-> Absent]
Running == at # "none"

\* The site between commands.
Site == INSTANCE AddonSite WITH
  files <- saved.files, modules <- saved.modules, broken <- (at = "broken")

Installed == Site!Installed(files)
\* The extensions a command adds or removes.
New == IF cmd.name = "upgrade" THEN {} ELSE cmd.on \cap Extensions

\* A site as init and earlier commands left it, or plain npm: an add-on may be
\* unrecorded, and there may be no lock.
Fresh(f, m) ==
  \E v \in Versions, N \in SUBSET Addons :
    LET pkg == [p \in Packages |-> IF p \in N \cup {Core} THEN v ELSE Absent] IN
    /\ N \subseteq Releases[v] /\ \A a \in N : Requires[a] \subseteq N
    /\ \E lock \in {pkg, NoLock}, R \in SUBSET N :
         f = [pkg |-> pkg, lock |-> lock,
              records |-> [a \in Addons |-> IF a \in R THEN v ELSE Absent],
              declared |-> N \cap Extensions, hosted |-> N \cap Extensions,
              routes |-> [e \in Extensions |-> IF e \in N THEN "whole" ELSE "none"],
              scaffold |-> [e \in Extensions |-> IF e \in N THEN "whole" ELSE "none"],
              expected |-> Cardinality(N \cap Extensions), workflow |-> v]
    /\ m = pkg

Init ==
  /\ Fresh(files, modules)
  /\ advised = FALSE
  /\ cmd = Idle /\ at = "none"
  /\ saved = [files |-> files, modules |-> modules]
  /\ created = {} /\ installing = FALSE

---------------------------------------------------------------------------
(* Beginning and ending a command. *)

Begin(command, step) ==
  /\ cmd' = command /\ at' = step
  /\ installing' = (command.name = "upgrade")  \* its rollback always restores the tree
  /\ UNCHANGED <<siteVars, saved, created>>

Over ==
  /\ cmd' = Idle /\ at' = "none"
  /\ saved' = [files |-> files', modules |-> modules']
  /\ created' = {} /\ installing' = FALSE

\* N and all it requires.
withRequirements(N) ==
  {a \in Addons : \A C \in SUBSET Addons :
     (N \subseteq C /\ \A c \in C : Requires[c] \subseteq C) => a \in C}

\* What is not installed at its pin.
ToAdd(N) == {a \in withRequirements(N) : files.pkg[a] # files.pkg[Core]}

\* Names of one kind, which the pins of the core name.
Nameable(N) ==
  /\ N # {} /\ (N \subseteq Extensions \/ N \cap Extensions = {})
  /\ withRequirements(N) \subseteq Releases[files.pkg[Core]]

addAddons(N) ==
  /\ ~Running /\ Nameable(N) /\ ToAdd(N) # {}
  /\ Begin([name |-> "add", on |-> ToAdd(N), of |-> withRequirements(N), to |-> files.pkg[Core]],
           "package")

\* Unrecorded add-ons are recorded as they are in node_modules.
recordUnrecorded(N) ==
  /\ \A a \in N : files.records[a] = Absent => modules[a] # Absent
  /\ files' = [files EXCEPT !.records =
       [a \in Addons |-> IF a \in N /\ @[a] = Absent THEN modules[a] ELSE @[a]]]
  /\ UNCHANGED <<modules, advised>>
  /\ Over

addInstalled(N) ==
  /\ ~Running /\ Nameable(N) /\ ToAdd(N) = {}
  /\ recordUnrecorded(withRequirements(N))

\* An upgrade to the version the site has; it looks at the lock.
recordInstalled ==
  /\ ~Running /\ files.lock # NoLock
  /\ recordUnrecorded({a \in Installed : files.lock[a] = files.pkg[Core]})

\* The dependants are those whose descriptors are in node_modules.
removeAddon(a) ==
  /\ ~Running /\ files.pkg[a] # Absent
  /\ \A b \in Installed : modules[b] # Absent => a \notin Requires[b]
  /\ Begin([name |-> "remove", on |-> {a}, of |-> {a}, to |-> Absent],
           IF a \in Extensions THEN "declare" ELSE "package")

\* The rollback of an upgrade needs the lock.
upgradeSite(v) ==
  /\ ~Running /\ files.pkg[Core] # v /\ files.lock # NoLock
  /\ Begin([name |-> "upgrade", on |-> Installed, of |-> Installed, to |-> v], "core")

---------------------------------------------------------------------------
(* The steps. Whatever is checked before a step takes effect may refuse it *)
(* instead, which is Fails.                                                *)

\* Files are written; a command that is done leaves node_modules as locked.
Write(f, next) ==
  /\ files' = f /\ UNCHANGED modules
  /\ IF next = "done" THEN Over /\ advised' = FALSE
     ELSE at' = next /\ UNCHANGED <<advised, cmdVars>>

\* package.json: the pins of the add-ons, which an upgrade takes from its core.
Pins == [p \in Packages |-> IF p \in cmd.on THEN cmd.to ELSE files.pkg[p]]

WriteCore ==
  /\ at = "core"
  /\ Write([files EXCEPT !.pkg[Core] = cmd.to], "npm core")

WritePackage ==
  /\ at = "package"
  /\ cmd.name = "upgrade" => Installed \subseteq Releases[cmd.to]
  /\ Write([files EXCEPT !.pkg = [p \in Packages |-> IF p \in cmd.on THEN cmd.to ELSE @[p]]], "npm")

\* npm install, and the checks of what it locked and installed.
Npm ==
  /\ at \in {"npm core", "npm"}
  /\ files' = [files EXCEPT !.lock = files.pkg]
  /\ modules' = files.pkg
  /\ installing' = TRUE
  /\ at' = CASE at = "npm core" -> "package"
             [] at = "npm" /\ cmd.name = "add" /\ New # {} -> "scaffold"
             [] OTHER -> "record"
  /\ UNCHANGED <<advised, cmd, saved, created>>

\* The files of a new extension. A routes file may not exist; a scaffold
\* file that exists is the operator's and is kept.
ToScaffold(e) ==
  /\ at = "scaffold" /\ e \in New /\ <<"routes", e>> \notin created
  /\ e \notin files.declared /\ files.routes[e] = "none"

Scaffold(e) ==
  /\ ToScaffold(e)
  /\ LET writes == {<<"routes", e>>} \cup
           (IF files.scaffold[e] = "none" THEN {<<"scaffold", e>>} ELSE {}) IN
     /\ files' = [files EXCEPT !.routes[e] = "whole",
                               !.scaffold[e] = IF @ = "none" THEN "whole" ELSE @]
     /\ created' = created \cup writes
     /\ at' = IF \A o \in New : <<"routes", o>> \in created' THEN "declare" ELSE "scaffold"
  /\ UNCHANGED <<modules, advised, cmd, saved, installing>>

\* urlcode.yaml; a removal deletes the routes file after it.
Declare ==
  /\ at = "declare"
  /\ IF cmd.name = "add"
     THEN Write([files EXCEPT !.declared = @ \cup New], "host")
     ELSE Write([files EXCEPT !.declared = @ \ New,
                              !.routes = [e \in Extensions |-> IF e \in New THEN "none" ELSE @[e]]],
                "host")

\* host.mjs, and the project is loaded again.
WriteHost ==
  /\ at = "host"
  /\ IF cmd.name = "add"
     THEN Write([files EXCEPT !.hosted = @ \cup New], "record")
     ELSE Write([files EXCEPT !.hosted = @ \ New], "package")

\* What moved, and what an add named and found unrecorded.
Record ==
  /\ at = "record"
  /\ Write([files EXCEPT !.records = [a \in Addons |->
                IF a \in cmd.on \/ (a \in cmd.of /\ @[a] = Absent) THEN modules[a] ELSE @[a]]],
            CASE cmd.name = "upgrade" -> "workflow" [] New # {} -> "count" [] OTHER -> "done")

\* The audit's count of routes moves by the routes that came or went.
Count ==
  /\ at = "count"
  /\ Write([files EXCEPT !.expected =
                IF cmd.name = "add" THEN @ + Cardinality(New) ELSE @ - Cardinality(New)], "done")

\* The new runtime has validated the project.
WriteWorkflow ==
  /\ at = "workflow"
  /\ Write([files EXCEPT !.workflow = cmd.to], "done")

---------------------------------------------------------------------------
(* Failure *)

FailWith(f, m) ==
  /\ files' = f /\ modules' = m
  /\ at' = "restore"
  /\ UNCHANGED <<advised, cmd, saved>>

\* A check or a write refuses; a write may have taken effect.
Fails ==
  /\ at \in {"core", "package", "scaffold", "declare", "host", "record", "count", "workflow"}
  /\ FailWith(files, modules)
  /\ UNCHANGED <<created, installing>>

\* npm stops half-way, or a check refuses what it did.
NpmFails ==
  /\ at \in {"npm core", "npm"}
  /\ \E lock \in {files.lock, files.pkg}, done \in SUBSET Packages :
       FailWith([files EXCEPT !.lock = lock],
                [p \in Packages |-> IF p \in done THEN files.pkg[p] ELSE modules[p]])
  /\ installing' = TRUE /\ UNCHANGED created

\* writeExclusive fails after it opened the file, before `created` names it.
MayTear(e) == ToScaffold(e) /\ Cardinality(Site!Torn(files) \cup {e}) <= MaxTorn

WriteTorn(e) ==
  /\ MayTear(e)
  /\ FailWith([files EXCEPT !.routes[e] = "torn"], modules)
  /\ UNCHANGED <<created, installing>>

ScaffoldTorn(e) ==
  /\ MayTear(e) /\ files.scaffold[e] = "none"
  /\ FailWith([files EXCEPT !.routes[e] = "whole", !.scaffold[e] = "torn"], modules)
  /\ created' = created \cup {<<"routes", e>>}
  /\ UNCHANGED installing

\* As if every command saved what an addition saves (the mutated form).
SavesForAdd(name) == {"pkg", "lock", "records", "declared", "hosted", "expected"}

\* The files a command saves before it changes anything.
Saves(name) ==
  CASE name = "add" -> {"pkg", "lock", "records", "declared", "hosted", "expected"}
    [] name = "remove" -> {"pkg", "lock", "records", "declared", "hosted", "routes", "expected"}
    [] name = "upgrade" -> {"pkg", "lock", "records", "workflow"}

\* restore() when it has removed `gone`, of what the command created, and put
\* `back` of what it saved.
Restored(gone, back) ==
  [part \in DOMAIN files |->
     IF part \in back THEN saved.files[part]
     ELSE IF part \in {"routes", "scaffold"}
     THEN [e \in Extensions |-> IF <<part, e>> \in gone THEN "none" ELSE files[part][e]]
     ELSE files[part]]

RestoreFiles ==
  /\ at = "restore"
  /\ files' = Restored(created, Saves(cmd.name))
  /\ UNCHANGED <<modules, advised>>
  /\ IF installing THEN at' = "tree" /\ UNCHANGED cmdVars ELSE Over

\* Of what a command saves, restore() writes the parts in this order.
RestoreOrder ==
  <<"pkg", "lock", "declared", "hosted", "routes", "records", "expected", "workflow">>

\* restore() fails at a file: those after it stay as the command left them, the
\* tree is not restored, and the error that is thrown names neither. A file cut
\* short by its own writing is not told apart from one not written.
RestoreFilesFails ==
  /\ at = "restore"
  /\ \E gone \in SUBSET created, n \in 0 .. 8 :
       LET back == {RestoreOrder[i] : i \in 1 .. n} \cap Saves(cmd.name) IN
       /\ back # {} => gone = created
       /\ files' = Restored(gone, back)
  /\ UNCHANGED <<modules, advised>>
  /\ cmd' = Idle /\ at' = "broken"
  /\ saved' = [files |-> files', modules |-> modules']
  /\ created' = {} /\ installing' = FALSE

\* The operator, outside the code, has version control and npm put a site back.
Repair ==
  /\ at = "broken"
  /\ Fresh(files', modules')
  /\ advised' = FALSE
  /\ Over

\* With a lock, npm ci; without one, what was not there before is removed.
RestoreTree ==
  /\ at = "tree"
  /\ UNCHANGED files
  /\ IF files.lock # NoLock
     THEN modules' = files.lock /\ advised' = FALSE
     ELSE /\ modules' = [p \in Packages |->
               IF saved.modules[p] = Absent THEN Absent ELSE modules[p]]
          /\ UNCHANGED advised
  /\ Over

\* npm ci fails before it removed node_modules, or while it reinstalls it;
\* without a lock a removal fails, and what it had yet to remove is left.
RestoreTreeFails ==
  /\ at = "tree"
  /\ UNCHANGED files
  /\ \/ files.lock # NoLock /\ UNCHANGED modules
     \/ /\ files.lock # NoLock
        /\ \E done \in SUBSET Packages :
             modules' = [p \in Packages |-> IF p \in done THEN files.lock[p] ELSE Absent]
     \/ /\ files.lock = NoLock
        /\ \E left \in SUBSET Packages :
             modules' = [p \in Packages |->
               IF saved.modules[p] = Absent /\ p \notin left THEN Absent ELSE modules[p]]
  /\ advised' = TRUE
  /\ Over

---------------------------------------------------------------------------
Command ==
  \/ \E N \in SUBSET Addons : addAddons(N) \/ addInstalled(N)
  \/ recordInstalled
  \/ \E a \in Addons : removeAddon(a)
  \/ \E v \in Versions : upgradeSite(v)

Step ==
  \/ WriteCore \/ WritePackage \/ Npm \/ Declare \/ WriteHost
  \/ Record \/ Count \/ WriteWorkflow
  \/ \E e \in Extensions : Scaffold(e)

Failure ==
  \/ Fails \/ NpmFails
  \/ RestoreFiles \/ RestoreFilesFails \/ RestoreTree \/ RestoreTreeFails
  \/ \E e \in Extensions : WriteTorn(e) \/ ScaffoldTorn(e)

Next == Command \/ Step \/ Failure \/ Repair

Spec == Init /\ [][Next]_vars

---------------------------------------------------------------------------
\* Whatever step of whatever sequence of commands fails, every command whose
\* rollback can write the files changes the site as a whole or leaves its files
\* as they were: package.json, its lock, the file records, the declarations,
\* host, routes and the counts never disagree once it is over, and a node_modules
\* that is not restored is named. AddonSite states the exceptions: a torn new
\* file, node_modules without a lock, and a rollback that itself cannot restore a
\* file, which breaks the site unnamed (HalfRestored, addon-install.ts:508).
SiteCommandsAtomic == Site!Spec
=============================================================================
