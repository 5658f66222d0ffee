-------------------------------- MODULE Lease --------------------------------
(***************************************************************************)
(* What the reload hand-off promises an extension that owns an exclusive   *)
(* resource (packages/core/src/extensions.ts, ExtensionHandoff): the       *)
(* resource is shared by reference between runtimes, a replacement takes   *)
(* its reference while the serving runtime still has one, and the serving  *)
(* runtime never loses its own before the server stops.                    *)
(***************************************************************************)
CONSTANT Holders   \* the runtimes that can hold a reference

VARIABLES
  held,      \* the runtimes that hold one
  serving,   \* the runtime being served
  stopped    \* the server closes its serving runtime

leaseVars == <<held, serving, stopped>>

TypeOK == held \subseteq Holders /\ serving \in Holders /\ stopped \in BOOLEAN

Init == held = {serving} /\ serving \in Holders /\ stopped = FALSE

\* A replacement takes a reference from the serving runtime.
Take(h) ==
  /\ ~stopped /\ serving \in held /\ h \notin held
  /\ held' = held \cup {h}
  /\ UNCHANGED <<serving, stopped>>

\* A replacement that holds a reference becomes the serving runtime.
Switch(h) ==
  /\ ~stopped /\ h \in held
  /\ serving' = h
  /\ UNCHANGED <<held, stopped>>

\* A rejected replacement or a retired runtime drops its reference; the serving
\* one does so only once the server stops.
Drop(h) ==
  /\ h \in held /\ (h = serving => stopped)
  /\ held' = held \ {h}
  /\ UNCHANGED <<serving, stopped>>

Stop == ~stopped /\ stopped' = TRUE /\ UNCHANGED <<held, serving>>

Next == Stop \/ \E h \in Holders : Take(h) \/ Switch(h) \/ Drop(h)

Spec == Init /\ [][Next]_leaseVars

\* While the server runs, the serving runtime holds the resource.
ServingHolds == ~stopped => serving \in held
=============================================================================
