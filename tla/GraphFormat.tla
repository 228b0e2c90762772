---------------------------- MODULE GraphFormat ----------------------------
(***************************************************************************)
(* The module graph of a standalone opencode binary, and what the tools do *)
(* to its bytes: tools/transplant/transplant.py, detect_layout.py,         *)
(* convert_layout.py and probe_extract.py.                                 *)
(*                                                                         *)
(*     [string data][records][argv][Offsets][marker]                       *)
(*                                                                         *)
(* Bytes are counted in words of 4: a record of 36 B is 9 words, one of    *)
(* 52 B 13.  Offsets are numbers of words from the start of the graph.  Of *)
(* the Offsets the fields that are only copied are left out.  The marker   *)
(* is there or not.                                                        *)
(***************************************************************************)
EXTENDS Integers, Sequences

RECORD_36 == 9
RECORD_52 == 13
DELTA     == RECORD_52 - RECORD_36

(* A graph is [bytes, off, marker]: bytes is all that is before the        *)
(* Offsets, off the Offsets.  A binary has an "end" besides:               *)
(*   "trailer"  bytes is the host Bun, then the graph; a total follows     *)
(*   "section"  bytes is the payload of the .bun section                   *)
(*   "none"     neither is there                                           *)

\* The record size that an area tells; 0 stands for an error.  An area that
\* both divide is one of long records.
Layout(area) == IF area % RECORD_52 = 0 THEN RECORD_52
                ELSE IF area % RECORD_36 = 0 THEN RECORD_36 ELSE 0

\* parse_graph: marker, stride check, layout.
Parses(g) ==
    /\ g.marker
    /\ g.off.mod_off + g.off.mod_len = g.off.argv0
    /\ Layout(g.off.mod_len) # 0
\* detect_section looks at the area only.
DetectsSection(g) == Layout(g.off.mod_len) # 0
\* detect, in detect_layout.py, of a whole binary with the trailer.
DetectsBinary(b) ==
    /\ b.end = "trailer" /\ b.marker
    /\ b.off.byte_count <= Len(b.bytes)
    /\ b.off.mod_off + b.off.mod_len = b.off.argv0
    /\ Layout(b.off.mod_len) # 0
\* parse, in convert_layout.py, which is the same test.
ParsesBinary(b) ==
    /\ b.end = "trailer" /\ Parses(b)
    /\ b.off.byte_count <= Len(b.bytes)

-----------------------------------------------------------------------------
(* Extraction.                                                             *)

GraphStart(b) == Len(b.bytes) - b.off.byte_count
\* The last byte_count bytes, and their Offsets; some host must precede them.
ExtractTrailer(b) ==
    [bytes |-> SubSeq(b.bytes, GraphStart(b) + 1, Len(b.bytes)),
     off |-> b.off, marker |-> b.marker]
\* extract_section_bun: the payload behind the section's first 8 bytes.
ExtractSection(b) == [bytes |-> b.bytes, off |-> b.off, marker |-> b.marker]

CanExtract(b) ==
    /\ b.end # "none" /\ b.marker
    /\ b.end = "trailer" => GraphStart(b) > 0
\* extract_step: the trailer if it is there, the section otherwise.
Extract(b) == IF b.end = "trailer" THEN ExtractTrailer(b) ELSE ExtractSection(b)

-----------------------------------------------------------------------------
(* Conversion.                                                             *)

Strings(g) == SubSeq(g.bytes, 1, g.off.mod_off)
Records(g) == SubSeq(g.bytes, g.off.mod_off + 1, g.off.mod_off + g.off.mod_len)
Argv(g)    == SubSeq(g.bytes, g.off.argv0 + 1, g.off.byte_count)

\* mutant: the 4 u8 are left behind the string pointers
FlagsInPlace(r, to) ==
    IF to = RECORD_52
      THEN [i \in 1 .. RECORD_52 * (Len(r) \div RECORD_36) |->
              LET k == (i - 1) \div RECORD_52
                  j == (i - 1) % RECORD_52
              IN  IF j < RECORD_36 THEN r[RECORD_36 * k + j + 1] ELSE 0]
      ELSE [i \in 1 .. RECORD_36 * (Len(r) \div RECORD_52) |->
              LET k == (i - 1) \div RECORD_36
                  j == (i - 1) % RECORD_36
              IN  r[RECORD_52 * k + j + 1]]
\* convert_records: the first 8 words are 4 string pointers, the last word is
\* the 4 u8; a long record has 2 more pointers between them, which are 0.
ConvertRecords(r, to) ==
    IF to = RECORD_52
      THEN [i \in 1 .. RECORD_52 * (Len(r) \div RECORD_36) |->
              LET k == (i - 1) \div RECORD_52
                  j == (i - 1) % RECORD_52
              IN  IF j < 8 THEN r[RECORD_36 * k + j + 1]
                  ELSE IF j = RECORD_52 - 1 THEN r[RECORD_36 * k + RECORD_36]
                  ELSE 0]
      ELSE [i \in 1 .. RECORD_36 * (Len(r) \div RECORD_52) |->
              LET k == (i - 1) \div RECORD_36
                  j == (i - 1) % RECORD_36
              IN  IF j < 8 THEN r[RECORD_52 * k + j + 1]
                  ELSE r[RECORD_52 * k + RECORD_52]]

Count(off) == off.mod_len \div Layout(off.mod_len)
\* mutant: byte_count stays as it was
OldByteCount(off, to) ==
    [byte_count |-> off.byte_count, mod_off |-> off.mod_off,
     mod_len |-> to * Count(off), argv0 |-> off.mod_off + to * Count(off)]
NewOffsets(off, to) ==
    [byte_count |-> IF to = RECORD_52 THEN off.byte_count + DELTA * Count(off)
                                      ELSE off.byte_count - DELTA * Count(off),
     mod_off |-> off.mod_off,
     mod_len |-> to * Count(off), argv0 |-> off.mod_off + to * Count(off)]

\* convert_graph, of a graph that parses and has the other layout.
CanConvert(g, to) == Parses(g) /\ Layout(g.off.mod_len) # to
Convert(g, to) ==
    [bytes |-> Strings(g) \o ConvertRecords(Records(g), to) \o Argv(g),
     off |-> NewOffsets(g.off, to), marker |-> TRUE]

\* convert, in convert_layout.py: the same for the whole binary, with every
\* offset counted from where the graph starts.
ConvertBinary(b, to) ==
    LET gs == GraphStart(b)
        piece(from, until) == SubSeq(b.bytes, gs + from + 1, gs + until)
    IN  [end |-> "trailer",
         bytes |-> SubSeq(b.bytes, 1, gs)
                   \o (piece(0, b.off.mod_off)
                       \o ConvertRecords(
                            piece(b.off.mod_off, b.off.mod_off + b.off.mod_len), to)
                       \o piece(b.off.argv0, b.off.byte_count)),
         off |-> NewOffsets(b.off, to), marker |-> TRUE]

-----------------------------------------------------------------------------
(* Patching.  patches.json is [kind, ranges, flat]; a range is [min, max,  *)
(* noop, patches], where 0 is an open end; a patch is [search, replace,    *)
(* fits], a search text one word, and fits says that the lengths are equal.*)

Covers(r, v) == (r.min = 0 \/ v >= r.min) /\ (r.max = 0 \/ v <= r.max)

\* _select_patches
Selected(cfg, v) ==
    IF cfg.kind = "flat" THEN cfg.flat
    ELSE UNION {r.patches : r \in {s \in cfg.ranges : Covers(s, v)}}

\* predict_patch_hit
PredictHit(cfg, v) ==
    LET covering == {r \in cfg.ranges : Covers(r, v)}
    IN  IF cfg.kind # "ranges" THEN "miss"
        ELSE IF \E r \in covering : r.patches # {} THEN "matched"
        ELSE IF covering # {} THEN "intentional-noop" ELSE "miss"

CanPatch(g, cfg, v) ==
    cfg.kind # "absent" =>
        /\ cfg.kind # "invalid" /\ Parses(g)
        /\ \A p \in Selected(cfg, v) : p.fits

Replaced(w, P) == IF \E p \in P : p.search = w
                  THEN (CHOOSE p \in P : p.search = w).replace ELSE w
\* Every patch, in the string data only; no patch makes or breaks the text
\* that another searches.
Patched(g, P) ==
    [bytes |-> [i \in 1 .. Len(g.bytes) |->
        IF i <= g.off.mod_off THEN Replaced(g.bytes[i], P) ELSE g.bytes[i]],
     off |-> g.off, marker |-> g.marker]
\* patch_graph
PatchGraph(g, cfg, v) ==
    IF cfg.kind = "absent" THEN g ELSE Patched(g, Selected(cfg, v))

-----------------------------------------------------------------------------
(* What Bun writes: the parts lie one behind the other.                    *)

OffsetsOf == [byte_count: Nat, mod_off: Nat, mod_len: Nat, argv0: Nat]
WellFormed(g) ==
    /\ g.bytes \in Seq(Nat) /\ g.off \in OffsetsOf
    /\ g.off.mod_off + g.off.mod_len = g.off.argv0
    /\ g.off.argv0 <= g.off.byte_count
=============================================================================
