--------------------------- MODULE MCAddonInstall ---------------------------
(* Two extensions, one of which requires the other, and an artifact that    *)
(* the later of two versions of core no longer releases.                    *)
EXTENDS AddonInstall

CONSTANTS store, auth, agents

MCAddons == {store, auth, agents}
MCExtensions == {store, auth}
MCRequires == [a \in MCAddons |-> IF a = auth THEN {store} ELSE {}]
MCVersions == {1, 2}
MCReleases == [v \in MCVersions |-> IF v = 1 THEN MCAddons ELSE MCExtensions]
=============================================================================
