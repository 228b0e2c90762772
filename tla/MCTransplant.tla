---------------------------- MODULE MCTransplant ----------------------------
(* Instances of Transplant for TLC: binaries with one record or with 13, of
   both layouts, with the trailer or the section; two builds of each library.
   Words: 2 is text that a patch replaces, 3 other text, 5 argv, 1 a string
   pointer, 7 the flags of a record. *)
EXTENDS Transplant

Shared == {"fff_scan"}
Embedded(n) == [len |-> n, size |-> n, exports |-> Shared, guarded |-> FALSE, android |-> FALSE]
Bionic(n, syms) == [len |-> n, size |-> n, exports |-> syms, guarded |-> TRUE, android |-> TRUE]
Slots(n) == [a \in Assets |-> [lib |-> Embedded(n), pad |-> 0]]
NoSlots  == [a \in Assets |-> NoSlot]
OneGone  == [Slots(4) EXCEPT !["pty"] = NoSlot]

Short == <<1, 1, 1, 1, 1, 1, 1, 1, 7>>
Long1 == <<1, 1, 1, 1, 1, 1, 1, 1, 0, 0, 0, 0, 7>>
ManyShort == [i \in 1 .. 117 |-> IF i % 9 = 0 THEN 7 ELSE 1]

Binary(end, host, text, rec, short, slots) ==
    [end |-> end, bytes |-> host \o text \o rec \o <<5>>, marker |-> TRUE,
     off |-> [byte_count |-> Len(text) + Len(rec) + 1, mod_off |-> Len(text),
              mod_len |-> Len(rec), argv0 |-> Len(text) + Len(rec)],
     short |-> short, tui |-> [lib |-> Embedded(4), pad |-> 0], slots |-> slots]

MCBinaries ==
    {Binary("trailer", <<9>>, <<2, 3>>, Short, TRUE, NoSlots),
     Binary("trailer", <<9>>, <<2>>, ManyShort, TRUE, NoSlots),
     Binary("section", <<>>, <<3, 2>>, Long1, FALSE, Slots(4)),
     Binary("section", <<>>, <<2>>, Short, TRUE, Slots(4)),
     Binary("section", <<>>, <<2>>, Long1, FALSE, OneGone)}

MCLibs == {Bionic(3, {}), [Bionic(5, {}) EXCEPT !.guarded = TRUE]}
\* Bytes that no section covers follow the libraries of the first set.  The
\* second set is larger, and too large for one of the slots.
MCPrebuilts ==
    {[a \in Assets |-> [Bionic(3, Shared) EXCEPT !.size = 2]],
     [a \in Assets |-> IF a = "pty" THEN Bionic(5, Shared) ELSE Bionic(4, Shared)],
     [a \in Assets |-> Bionic(4, {"fff_find"})]}
MCPrefixed == {"fff_scan", "fff_find"}

Patch(w) == [search |-> 2, replace |-> w, fits |-> TRUE]
Range(lo, hi, ps) == [min |-> lo, max |-> hi, noop |-> ps = {}, patches |-> ps]
MCConfigs ==
    {[kind |-> "absent", ranges |-> {}, flat |-> {}],
     [kind |-> "ranges", flat |-> {},
      ranges |-> {Range(1, 2, {Patch(4)}), Range(3, 0, {})}],
     [kind |-> "flat", ranges |-> {}, flat |-> {[Patch(6) EXCEPT !.fits = FALSE]}]}
=============================================================================
