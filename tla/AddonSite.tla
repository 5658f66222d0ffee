----------------------------- MODULE AddonSite -----------------------------
(***************************************************************************)
(* What the site commands do to a site: `extensions|artifacts add` and     *)
(* `remove` and `upgrade` change it as a whole or leave it as it was. The  *)
(* code promises that of every failure, node_modules included              *)
(* (packages/core/src/addon-install.ts:33, upgrade.ts:62); Refused and     *)
(* HalfRestored are the failures after which it does less.                 *)
(*                                                                         *)
(* files is what the commands write: package.json and its lock, the record *)
(* of installed files, the declarations, the host, the routes files, the   *)
(* scaffold files, the audit's route count and the workflow's action ref.  *)
(***************************************************************************)
EXTENDS Naturals, FiniteSets

CONSTANTS
  Addons,
  Extensions,  \* the add-ons that are extensions; the others are artifacts
  Core,        \* the core package
  Requires,    \* Requires[a]: the add-ons a requires
  Versions,
  Absent,      \* no such entry
  NoLock       \* no package-lock.json

VARIABLES
  files,
  modules,   \* modules[p]: the version of p in node_modules
  advised,   \* the last failure said that node_modules was not restored
  broken     \* a rollback stopped before it had restored the files

vars == <<files, modules, advised, broken>>

Packages == Addons \cup {Core}
Installed(f) == {a \in Addons : f.pkg[a] # Absent}
Torn(f) == {e \in Extensions : f.routes[e] = "torn" \/ f.scaffold[e] = "torn"}

\* The parts of a site agree: everything is installed and locked at the
\* version of core, and an extension is declared, hosted, routed and counted.
\* records[a] is the version whose files were recorded for a.
Agrees(f) ==
  /\ f.pkg[Core] \in Versions /\ f.workflow = f.pkg[Core]
  /\ \A a \in Addons : f.pkg[a] \in {Absent, f.pkg[Core]}
  /\ f.lock \in {f.pkg, NoLock}
  /\ \A a \in Addons \ Installed(f) : f.records[a] = Absent
  /\ f.declared = Installed(f) \cap Extensions /\ f.hosted = f.declared
  /\ \A e \in Extensions : f.routes[e] = "whole" <=> e \in f.declared
  /\ f.expected = Cardinality(f.declared)

Complete(f) == \A a \in Installed(f) : Requires[a] \subseteq Installed(f)

\* A site that no failed command has touched.
Sound(f, m) ==
  /\ Agrees(f) /\ Complete(f) /\ Torn(f) = {}
  /\ \A a \in Addons : f.records[a] \in {Absent, f.pkg[a]}
  /\ m = f.pkg

Init == Sound(files, modules) /\ ~advised /\ ~broken

---------------------------------------------------------------------------
(* The outcomes of a command. *)

\* The site is changed as a whole; scaffold files are only ever added. What an
\* add-on requires is known from node_modules, if that is what it should be.
Changed ==
  /\ Agrees(files') /\ files'.lock = files'.pkg /\ modules' = files'.pkg
  /\ Complete(files) /\ modules = files.pkg => Complete(files')
  /\ \A e \in Extensions : files.scaffold[e] # "none" => files'.scaffold[e] = files.scaffold[e]
  /\ ~advised'

Added(N) ==
  /\ Changed
  /\ Installed(files') = Installed(files) \cup N
  /\ files'.pkg[Core] = files.pkg[Core]
  /\ \A a \in Addons :
       files'.records[a] = files'.pkg[a] \/ (a \notin N /\ files'.records[a] = files.records[a])

Removed(a) ==
  /\ Changed
  /\ Installed(files') = Installed(files) \ {a}
  /\ files'.pkg[Core] = files.pkg[Core]
  /\ files'.records = [files.records EXCEPT ![a] = Absent]

Upgraded(v) ==
  /\ Changed
  /\ Installed(files') = Installed(files)
  /\ files'.pkg[Core] = v
  /\ \A a \in Installed(files) : files'.records[a] = v

\* The files, as they are in node_modules, of add-ons not recorded before.
Recorded(N) ==
  /\ \A a \in N : files.pkg[a] # Absent /\ files.records[a] = Absent /\ modules[a] # Absent
  /\ files' = [files EXCEPT !.records =
       [a \in Addons |-> IF a \in N THEN modules[a] ELSE @[a]]]
  /\ UNCHANGED <<modules, advised>>

\* A file whose first writing failed half-way may stay; nothing else changes.
Kept(part) ==
  \A e \in Extensions :
    files'[part][e] = files[part][e] \/ (files[part][e] = "none" /\ files'[part][e] = "torn")

\* node_modules is what it was or what the lock says. Without a lock nothing
\* the command added stays. A node_modules that could not be restored is named.
Refused ==
  /\ Kept("routes") /\ Kept("scaffold")
  /\ files' = [files EXCEPT !.routes = files'.routes, !.scaffold = files'.scaffold]
  /\ \/ UNCHANGED <<modules, advised>>
     \/ modules' = files.lock /\ ~advised'
     \/ /\ files.lock = NoLock /\ UNCHANGED advised
        /\ \A p \in Packages : modules[p] = Absent => modules'[p] = Absent
     \/ advised'

\* The outcomes that leave a site whose parts agree.
Whole ==
  \/ Refused
  \/ \E N \in SUBSET Addons : Added(N) \/ Recorded(N)
  \/ \E a \in Addons : Removed(a)
  \/ \E v \in Versions : Upgraded(v)

\* A rollback that cannot restore a file leaves the site half-way, node_modules
\* too, and names neither. Scaffold files that were there before are kept.
HalfRestored ==
  /\ ~broken /\ broken'
  /\ UNCHANGED advised
  /\ \A e \in Extensions : files.scaffold[e] # "none" => files'.scaffold[e] = files.scaffold[e]

\* The operator puts a sound site in the place of a broken one.
Repaired ==
  /\ broken /\ ~broken'
  /\ Sound(files', modules') /\ ~advised'

Next ==
  \/ ~broken /\ Whole /\ ~broken'
  \/ HalfRestored
  \/ Repaired

Spec == Init /\ [][Next]_vars
=============================================================================
