------------------------ MODULE MCSystemSkillsHook ------------------------
(* Instances of SystemSkillsHook for TLC: the manifest of the package, from
   core 1 to core 3 but not on 2, and one of the user's without a key, up to
   core 1 and not where the version cannot be read. *)
EXTENDS SystemSkillsHook

CONSTANTS omo, mine,           \* the manifests, and the plugins of that name
          key

MCId      == [m \in Manifests |-> m]
MCKey     == [m \in Manifests |-> IF m = omo THEN key ELSE NoKey]
MCListens == [m \in Manifests |-> IF m = omo THEN Events ELSE {}]
MCMin     == [m \in Manifests |-> IF m = omo THEN 1 ELSE 0]
MCMax     == [m \in Manifests |-> IF m = omo THEN 3 ELSE 1]
MCBarred  == [m \in Manifests |-> IF m = omo THEN {2} ELSE {0}]
MCLists   == {{}, {<<omo, 3>>}, Unreadable, Misshapen}
MCEvents  == {"post_install", "post_upgrade"}
===========================================================================
