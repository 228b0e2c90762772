----------------------------- MODULE MCBunBase -----------------------------
(* Instances of BunBase for TLC.  Release 1 is of the 1.3 series, 2 the first
   of the 1.4 series, 3 a later one.  bun-bind.json is as the repository has
   it, names the later release and no minimum, or cannot be read. *)
EXTENDS BunBase

MCBinds == {[target |-> 2, min |-> 2, url |-> TRUE],
            [target |-> 3, min |-> 0, url |-> TRUE],
            [target |-> 0, min |-> 0, url |-> FALSE]}
=============================================================================
