---------------------------- MODULE ElfSurgery ----------------------------
(***************************************************************************)
(* What the transplant tools do to the bytes of an ELF file:               *)
(* swap_native_assets.py and swap_tui.py put a library into the slot of    *)
(* another, revive_patch.py grafts a module graph onto an android Bun, and *)
(* crhandler_patch.py makes a shim the first library that is needed.       *)
(* Lengths and addresses are numbers of bytes.                             *)
(***************************************************************************)
EXTENDS Integers, Sequences, FiniteSets

MaxOf(x, y) == IF x >= y THEN x ELSE y

-----------------------------------------------------------------------------
(* Libraries in slots.  A library is [len, size, exports, guarded,         *)
(* android]: len is the length of its file, size what elf_size reads from  *)
(* its section headers, which do not cover bytes that follow the last      *)
(* section.  A slot is [lib, pad], where pad is the room of the slot that  *)
(* the file does not fill.                                                 *)

NoLib  == [len |-> 0, size |-> 0, exports |-> {}, guarded |-> FALSE, android |-> FALSE]
NoSlot == [lib |-> NoLib, pad |-> 0]

\* dyn_defined_symbols: the place of the names is read from sh_link of the
\* symbol table, not from the section that it links to.  That is behind the
\* end of the file, where every name is empty.
EmptyName == ""
DynDefined(lib) == IF lib.exports = {} THEN {} ELSE {EmptyName}

\* The ABI guard: what has a prefix of the manifest and is not exported.
AbiMissing(slot, repl, prefixed) ==
    (DynDefined(slot.lib) \cap prefixed) \ DynDefined(repl)

\* mutant: the size is not looked at
AnySize(slot, repl, prefixed) == repl # NoLib
\* swap_one: the slot holds the replacement already, or its file fits the room
\* that the section headers of the library there cover.
CanSwap(slot, repl, prefixed) ==
    /\ repl # NoLib
    /\ \/ slot.lib = repl
       \/ repl.len <= slot.lib.size /\ AbiMissing(slot, repl, prefixed) = {}
Put(slot, repl) ==
    [lib |-> repl, pad |-> slot.pad + slot.lib.len - repl.len]

\* main of swap_native_assets.py: every asset is swapped in memory, a slot
\* that is not there passed over unless all are required; one error and
\* nothing is written.
CanSwapAll(slots, repls, all, prefixed) ==
    \A a \in DOMAIN slots :
        IF slots[a] = NoSlot THEN ~all ELSE CanSwap(slots[a], repls[a], prefixed)
SwappedAll(slots, repls, prefixed) ==
    [a \in DOMAIN slots |->
        IF slots[a] # NoSlot /\ CanSwap(slots[a], repls[a], prefixed)
          THEN Put(slots[a], repls[a]) ELSE slots[a]]

\* main of swap_tui.py: there is a slot, the library fits and has the guard.
CanGraft(slot, lib) ==
    slot # NoSlot /\ lib.len <= slot.lib.size /\ lib.guarded

-----------------------------------------------------------------------------
(* Revival.  A base is [len, series, bun, load, rela]: series is 3 or 4 of *)
(* 1.3 and 1.4, 0 when the file tells no version; bun [off, size] is the   *)
(* .bun section, load [offset, filesz, memsz] the writable segment that    *)
(* covers it, rela [off, size] the relocations.  Addresses are offsets, or *)
(* revive_patch.py fails.  A payload is [len, lead, marker]: lead is the   *)
(* number its first 8 bytes spell.                                         *)

PAGE_ALIGN == 16384
RELAENT    == 24
AlignUp(x, a) == ((x + a - 1) \div a) * a

SizeMode(series) == IF series >= 4 THEN "plain-offset" ELSE "reloc"

BssEnd(base) == base.load.offset + base.load.memsz
NewOff(base) == AlignUp(MaxOf(base.len, BssEnd(base)), PAGE_ALIGN)

\* Whether the payload gets a length in front, and how long it is then.
OwnPrefix(mode, p) == mode = "reloc" \/ p.lead # p.len - 8
BlobLen(mode, p) == p.len + (IF OwnPrefix(mode, p) THEN 8 ELSE 0)
                          + (IF mode = "plain-offset" THEN 8 ELSE 0)

\* mutant: a payload that was cut short is grafted
AnyPayload(p) == TRUE
PayloadEnds(p) == p.len >= 48 /\ p.marker

\* parse_elf64 and the checks of main.
CanRevive(base, p, mode) ==
    /\ PayloadEnds(p)
    /\ base.load.offset <= base.bun.off
    /\ base.bun.off + base.bun.size <= base.load.offset + base.load.filesz
    /\ mode = "reloc" =>
         /\ base.rela.off % 8 = 0
         /\ base.rela.off + base.rela.size <= NewOff(base) + BlobLen(mode, p)

\* The surgery: the blob, the relocations behind it, and the segment that is
\* made to cover both.  published is what the runtime finds in the .bun
\* section, less the load bias, once it is loaded.  Of the bytes that stood
\* behind the old segment the part below BssEnd is now loaded over .bss.
Revived(base, p, mode) ==
    LET at   == NewOff(base)
        behind == at + BlobLen(mode, p)
        rela == IF mode = "reloc"
                  THEN [off |-> behind, size |-> base.rela.size + RELAENT]
                  ELSE base.rela
        end  == IF mode = "reloc" THEN behind + rela.size ELSE behind
    IN  [len |-> end, published |-> at, biased |-> mode = "reloc",
         blob |-> [at |-> at, len |-> BlobLen(mode, p)],
         rela |-> rela,
         cleared |-> base.len <= base.load.offset + base.load.filesz
                     \/ base.load.memsz <= base.load.filesz,
         load |-> [offset |-> base.load.offset,
                   filesz |-> end - base.load.offset,
                   memsz  |-> MaxOf(base.load.memsz, end - base.load.offset)]]

\* The runtime: Bun 1.3 takes what it finds for an address, Bun 1.4 adds the
\* load bias itself.  It finds the graph if the two agree.
Boots(series, mode) == (series >= 4) <=> (mode = "plain-offset")

-----------------------------------------------------------------------------
(* Hardening.  A dynamic section is a sequence of [tag, name].             *)

SHIM == "libopencode-crhandler.so"
LIBC == "libc.so"
Here(d, tag)    == \E i \in DOMAIN d : d[i].tag = tag
FirstOf(d, tag) == CHOOSE i \in DOMAIN d :
                      d[i].tag = tag /\ \A j \in DOMAIN d : d[j].tag = tag => i <= j

\* The name of the shim is somewhere in the file: below a dynamic entry, or
\* in anything else (text).
Hardened(d, text) == text \/ \E i \in DOMAIN d : d[i].name = SHIM

\* main of crhandler_patch.py; room: behind the string table a run of zero
\* bytes that no section covers is long enough for the names.
CanHarden(d, text, room) ==
    /\ ~Hardened(d, text) /\ room /\ d # <<>>
    /\ \A t \in {"NEEDED", "DEBUG", "HASH", "GNU_HASH", "STRTAB", "STRSZ"} : Here(d, t)
    /\ d[Len(d)].tag = "NULL"
    /\ d[FirstOf(d, "NEEDED")].name = LIBC
Harden(d) ==
    [i \in DOMAIN d |->
        IF i = FirstOf(d, "NEEDED") THEN [tag |-> "NEEDED", name |-> SHIM]
        ELSE IF i = FirstOf(d, "DEBUG") THEN [tag |-> "NEEDED", name |-> LIBC]
        ELSE IF i = FirstOf(d, "HASH") THEN [tag |-> "RUNPATH", name |-> "runpath"]
        ELSE d[i]]
=============================================================================
